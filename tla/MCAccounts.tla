----------------------------- MODULE MCAccounts -----------------------------
(***************************************************************************)
(* Two threads, one address in two spellings beside the seeded admin's.    *)
(***************************************************************************)
EXTENDS Accounts, TLC

MCEmail == {"admin", "a@x", "a@X"}
MCNormal == [e \in MCEmail |-> IF e = "a@X" THEN "a@x" ELSE e]
MCSymmetry == Permutations(Worker)

=============================================================================
