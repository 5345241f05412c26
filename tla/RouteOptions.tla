---------------------------- MODULE RouteOptions ----------------------------
(***************************************************************************)
(* What the engine and the API say to each other about routes: the types   *)
(* of the options a reply of the engine holds, the filters a client may    *)
(* ask for, and which options a filter allows.                             *)
(***************************************************************************)

ModeFilter == {"bus_only", "metro_only", "microbus_only"}
Option == ModeFilter \cup {"optimal"}
Filter == Option \cup {"fastest", "cheapest"}

\* The options _select_route chooses from: a filter of one mode wants the
\* option of that type, the others rank all those found.
Eligible(found, filter) ==
  IF filter \in ModeFilter THEN found \cap {filter} ELSE found

=============================================================================
