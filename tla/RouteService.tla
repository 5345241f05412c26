---------------------------- MODULE RouteService ----------------------------
(***************************************************************************)
(* What the route views of orchestrator.py promise together, whoever does  *)
(* the work and however often it is cut short: a request is open from its  *)
(* arrival until it is answered or lost; while it is open it may be booked *)
(* once; it is answered at most once, and the answer of a booked request   *)
(* is what was booked.  RouteOrchestrator implements this.                 *)
(***************************************************************************)
EXTENDS Naturals

CONSTANTS
  Routed, Suggested,   \* outcomes that show a route, and a destination
  NoOption, NoSpot       \* what the other outcomes show in their place

VARIABLES
  taken,    \* requests that arrived so far; numbers are their identities
  open,     \* those being served
  ledger,   \* what is booked about requests
  sent      \* the answers

vars == <<taken, open, ledger, sent>>

Init == taken = 0 /\ open = {} /\ ledger = {} /\ sent = {}

Booked(id) == \E entry \in ledger : entry.id = id

Arrive ==
  /\ taken' = taken + 1
  /\ open' = open \cup {taken'}
  /\ UNCHANGED <<ledger, sent>>

\* A destination is suggested only after it was booked for a reason other
\* than its being suggested.
Book ==
  /\ \E entry \in ledger' \ ledger :
       /\ entry.id \in open /\ ~Booked(entry.id)
       /\ entry.code = Suggested =>
            \E earlier \in ledger : earlier.code # Suggested /\ earlier.goal = entry.to
       /\ ledger' = ledger \cup {entry}
  /\ UNCHANGED <<taken, open, sent>>

\* What is not booked shows neither a route nor a place.
Refusal(answer) ==
  /\ answer.code \notin {Routed, Suggested}
  /\ answer.selected = NoOption /\ answer.from = NoSpot /\ answer.to = NoSpot

Tells(entry, answer) ==
  /\ entry.code = answer.code /\ entry.selected = answer.selected
  /\ entry.from = answer.from /\ entry.to = answer.to

Send ==
  /\ \E answer \in sent' \ sent :
       /\ answer.id \in open
       /\ IF Booked(answer.id) THEN \A entry \in ledger : entry.id = answer.id => Tells(entry, answer)
          ELSE Refusal(answer)
       /\ sent' = sent \cup {answer}
       /\ open' = open \ {answer.id}
  /\ UNCHANGED <<taken, ledger>>

Lose ==
  /\ open # {}
  /\ open' = {}
  /\ UNCHANGED <<taken, ledger, sent>>

Next == Arrive \/ Book \/ Send \/ Lose

Spec == Init /\ [][Next]_vars

=============================================================================
