----------------------------- MODULE MCUserData -----------------------------
(***************************************************************************)
(* The threads and addresses of MCAccounts, and what the accounts keep.    *)
(***************************************************************************)
EXTENDS MCAccounts, AdminReports

=============================================================================
