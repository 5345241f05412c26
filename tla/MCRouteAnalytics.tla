-------------------------- MODULE MCRouteAnalytics --------------------------
(***************************************************************************)
(* The requests of MCRouteOrchestrator, and overviews of all rows, and of  *)
(* the failures among those by pins that wanted a bus.                     *)
(***************************************************************************)
EXTENDS MCRouteOrchestrator, RouteReports

MCQuery ==
  {[source |-> Whatever, status |-> Whatever, filter |-> Whatever],
   [source |-> "map", status |-> "failed", filter |-> "bus_only"]}

=============================================================================
