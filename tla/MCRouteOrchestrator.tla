------------------------ MODULE MCRouteOrchestrator ------------------------
(***************************************************************************)
(* Two workers, two places, and one request of each kind a client sends.   *)
(***************************************************************************)
EXTENDS RouteOrchestrator, TLC

MCPlace == {"abbassia", "maadi"}
MCPhrase == {"go to abbassia", "abasia", "current_location", "Destination", "Abbassia", "Maadi"}

A == [name |-> "Abbassia", at |-> "abbassia"]
M == [name |-> "Maadi", at |-> "maadi"]

Ask(view, filter, text, current, pins, from, to) ==
  [view |-> view, filter |-> filter, text |-> text, current |-> current,
   pins |-> pins, from |-> from, to |-> to]

Plain(view, text, current) == Ask(view, "optimal", text, current, "absent", NoPlace, NoSpot)
Pinned(view, current, pins, to) ==
  Ask(view, "bus_only", NoPhrase, current, pins, IF view = "route" /\ pins = "given" THEN "maadi" ELSE NoPlace, to)

TextRoute == Plain("route", "go to abbassia", NoPlace)
TextRouteHere == Plain("route", "go to abbassia", "maadi")
PinRoute == Pinned("route", NoPlace, "given", Unnamed("abbassia"))
Search == Plain("search", "abasia", "maadi")
SearchAgain == Plain("search", "go to abbassia", "abbassia")
ConfirmM == Pinned("confirm", "abbassia", "given", M)
ConfirmUnnamed == Pinned("confirm", "maadi", "given", Unnamed("maadi"))

\* The requests that are refused at once.
Refused ==
  {Ask("route", "fastest", "go to abbassia", NoPlace, "given", "maadi", Unnamed("abbassia")),
   Pinned("route", NoPlace, "unreadable", NoSpot), Plain("route", NoPhrase, NoPlace),
   Plain("search", NoPhrase, "maadi"), Plain("search", "abasia", NoPlace),
   Pinned("confirm", NoPlace, "given", A), Pinned("confirm", "maadi", "absent", NoSpot),
   Pinned("confirm", "maadi", "unreadable", NoSpot)}

MCRequestAll == Refused \cup {TextRoute, PinRoute, Search, ConfirmUnnamed}
MCRequestSearch == {TextRouteHere, Search, SearchAgain, ConfirmM}

MCAiReply ==
  {[text |-> "go to abbassia", from |-> M, to |-> A],
   [text |-> "go to abbassia", from |-> [name |-> "Maadi", at |-> NoPlace], to |-> A],
   [text |-> "abasia", from |-> NoSpot, to |-> A]}
MCFound == {{"optimal"}, {"bus_only", "optimal"}}
MCAiFailure == {"NOT_FOUND", "DEADLINE_EXCEEDED"}
MCRoutingFailure == {"UNAVAILABLE"}

MCResemblance ==
  [t \in MCPhrase |-> [n \in MCPhrase |->
     IF t = n THEN 120
     ELSE IF {t, n} \subseteq {"abasia", "Abbassia", "go to abbassia"} THEN 80
     ELSE IF {t, n} = {"abasia", "Maadi"} THEN 50 ELSE 10]]

\* Workers are alike: no expression compares them.
MCSymmetry == Permutations(Worker)

=============================================================================
