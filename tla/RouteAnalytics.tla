--------------------------- MODULE RouteAnalytics ---------------------------
(***************************************************************************)
(* The numbers an admin reads about the rows of RouteHistory, while the    *)
(* workers of RouteOrchestrator write them: the overview of                *)
(* views/admin_views.py, made by RouteAnalyticsService one statement of    *)
(* the database after the other.                                           *)
(*                                                                         *)
(* Its averages, and the days, which a third statement counts like the     *)
(* second counts the sources, are left out.  An overview changes nothing,  *)
(* so a behaviour has one (its bound); one that a restart drops shows      *)
(* nothing.                                                                *)
(***************************************************************************)
EXTENDS RouteOrchestrator

CONSTANT
  Query      \* parameters of the overviews asked for

Source == {"text", "map"}
Whatever == "any"      \* a parameter that is absent or not understood

QueryRecord == [source : Source \cup {Whatever}, status : {"success", "failed", Whatever}, filter : Filter \cup {Whatever}]
ASSUME QueryAssumption == Query \subseteq QueryRecord

VARIABLE
  report     \* the overview being made, and then the one made

reportVars == <<vars, report>>

Status(row) == IF row.code = NoError THEN "success" ELSE "failed"

\* has_result, of _extract_history_summary
HasResult(row) == row.selected # NoOption

\* apply_filters
Matches(row, q) ==
  /\ q.source \in {Whatever, row.source_type}
  /\ q.status \in {Whatever, Status(row)}
  /\ q.filter \in {Whatever, row.preference}

RowsOf(q) == {i \in DOMAIN history : Matches(history[i], q)}

\* METRIC_ANNOTATIONS
Metrics(S) ==
  [requests |-> Cardinality(S),
   success_count |-> Cardinality({i \in S : Status(history[i]) = "success"}),
   failed_count |-> Cardinality({i \in S : Status(history[i]) = "failed"}),
   unresolved_count |-> Cardinality({i \in S : ~HasResult(history[i])})]

BySource(S) == [s \in Source |-> Cardinality({i \in S : history[i].source_type = s})]

-----------------------------------------------------------------------------
(* RouteAnalyticsOverviewView.get.                                         *)

NoReport == [pc |-> "none"]

\* Requests answered with a route so far: what an overview owes.
AnsweredWithRoute == Cardinality({a \in answers : a.code = NoError})

ReadTotals(q) ==
  /\ report.pc = "none"
  /\ report' = [pc |-> "sources", query |-> q, totals |-> Metrics(RowsOf(q)),
                owed |-> AnsweredWithRoute, rows |-> Len(history)]

\* rows: how many were recorded between the two statements.
Breakdown(S) ==
  [pc |-> "done", query |-> report.query, totals |-> report.totals, owed |-> report.owed,
   rows |-> Len(history) - report.rows, source_breakdown |-> BySource(S)]

\* Mutant of ReadSources: the rows are not those the parameters ask for.
ReadAllSources ==
  /\ report.pc = "sources"
  /\ report' = Breakdown(DOMAIN history)

ReadSources ==
  /\ report.pc = "sources"
  /\ report' = Breakdown(RowsOf(report.query))

AnalyticsInit == Init /\ report = NoReport

AnalyticsNext ==
  \/ Next /\ UNCHANGED report
  \/ ((\E q \in Query : ReadTotals(q)) \/ ReadSources) /\ UNCHANGED vars

AnalyticsSpec == AnalyticsInit /\ [][AnalyticsNext]_reportVars /\ \A w \in Worker : WF_vars(Work(w))

-----------------------------------------------------------------------------
(* Properties.                                                             *)

\* The statements see different tables when requests end in between, and the
\* numbers of one overview need not match; but they differ by no more than the
\* rows recorded meanwhile, and never downwards.  In one statement, nothing is
\* neither a success nor a failure, and a success has a result and a failure
\* has none (so the success rate of RouteFilterStatsView, over rows with a
\* result, can only be 100 %).  Every route answered before the overview was
\* asked for is in it.  (RouteAnalyticsOverviewView.get, beside _record_history)
OverviewAddsUp ==
  report.pc = "done" =>
    LET totals == report.totals
        bySource == report.source_breakdown["text"] + report.source_breakdown["map"]
        ofAll == report.query = [source |-> Whatever, status |-> Whatever, filter |-> Whatever]
    IN  /\ totals.success_count + totals.failed_count = totals.requests
        /\ totals.failed_count = totals.unresolved_count
        /\ bySource \in totals.requests..(totals.requests + report.rows)
        /\ ofAll => report.owed <= totals.success_count

=============================================================================
