---------------------------- MODULE RouteReports ----------------------------
(***************************************************************************)
(* What is read from the rows of RouteHistory in one statement, in any     *)
(* state of the workers that write them: a client's own history            *)
(* (RouteHistoryView) and the pages of views/admin_views.py on pairs,      *)
(* filters, failures and groups.  They are functions of the table.         *)
(*                                                                         *)
(* Rows do not keep here who sent the request: a client is the set of the  *)
(* requests it sent, and a property holds of every such set.               *)
(***************************************************************************)
EXTENDS RouteAnalytics, FiniteSetsExt

-----------------------------------------------------------------------------
(* RouteHistoryView.get.                                                   *)

HISTORY_LIMIT == 100

PageSize(limit) == Min({Max({limit, 1}), HISTORY_LIMIT})

\* Mutant of Ahead: the minus sign of order_by is lost.
OlderAhead(S, i) == {j \in S : j < i}

\* The rows of S that are listed before i: newest first.
Ahead(S, i) == {j \in S : j > i}

\* The rows shown to the client that sent the requests mine.
HistoryPage(mine, limit) ==
  LET own == {i \in DOMAIN history : history[i].id \in mine}
  IN  {i \in own : Cardinality(Ahead(own, i)) < PageSize(limit)}

-----------------------------------------------------------------------------
(* The pages of an admin.                                                  *)

NoReason == "none"

\* Mutant of UnresolvedReason: a suggestion is no failure.
ReasonUnlessSuggested(code) == IF code \in {NoError, Confirm} THEN NoReason ELSE code

\* unresolved_reason, as each call of _record_history gives it.
UnresolvedReason(code) ==
  CASE code = NoError -> NoReason
    [] code \in AiCode -> "ai_error"
    [] code \in RoutingCode -> "routing_error"
    [] code = "API_CLIENT_BOOT_ERROR" -> "api_boot_error"
    [] code = "INVALID_REQUEST_MODE" -> "invalid_request_mode"
    [] code = "INVALID_COORDINATES" -> "invalid_coordinates"
    [] code = "INVALID_REQUEST_BODY" -> "invalid_body"
    [] code = "SOURCE_REQUIRED_OR_CURRENT_LOCATION" -> "missing_source"
    [] code = "ROUTING_NO_MATCHING_FILTER" -> "routing_no_matching_filter"
    [] code = Confirm -> "destination_confirmation_required"

\* Rows counted by key[i], a key of theirs: values(...).annotate(Count("id")).
Tally(key) == [k \in Range(key) |-> Cardinality({i \in DOMAIN key : key[i] = k})]

\* RouteUnresolvedStatsView: rows without a result that tell why.
UnresolvedReasons(q) ==
  LET told == {i \in RowsOf(q) : ~HasResult(history[i]) /\ UnresolvedReason(history[i].code) # NoReason}
  IN  Tally([i \in told |-> UnresolvedReason(history[i].code)])

\* RouteFilterStatsView: rows with a result, by filter, and their successes.
\* The page shows a filter with most requests.
FilterStats(q) == Tally([i \in {n \in RowsOf(q) : HasResult(history[n])} |-> history[i].preference])
FilterSuccesses(q) ==
  LET succeeded == {i \in RowsOf(q) : HasResult(history[i]) /\ Status(history[i]) = "success"}
  IN  Tally([i \in succeeded |-> history[i].preference])

\* RouteAnalyticsTopRoutesView: successes between two names.
TopRoutes(q) ==
  LET named == {i \in RowsOf(q) : /\ Status(history[i]) = "success"
                                  /\ history[i].from.name # NoPhrase /\ history[i].to.name # NoPhrase}
  IN  Tally([i \in named |-> <<history[i].from.name, history[i].to.name>>])

-----------------------------------------------------------------------------
(* Properties.                                                             *)

\* Whoever sent which requests and whatever limit is asked for: a client sees
\* rows of its own requests only, and every answer it got that is recorded,
\* with its outcome, unless the page is full of newer ones.  Answers and rows
\* are written by different steps, between which a worker may be dropped.
\* (RouteHistoryView.get, beside _record_history)
HistoryShowsAnswered ==
  \A mine \in SUBSET (1..received), limit \in 0..MAX_REQUESTS :
    LET shown == HistoryPage(mine, limit)
    IN  /\ \A i \in shown : history[i].id \in mine
        /\ \A a \in answers : a.id \in mine /\ ~Unrecorded(a) =>
             \/ \E i \in shown : Agrees(history[i], a)
             \/ /\ Cardinality(shown) = PageSize(limit)
                /\ \E j \in DOMAIN history : Agrees(history[j], a) /\ \A i \in shown : i > j

\* Each page finds failures and successes by another column of the rows, and
\* all of them agree, after every row that any of the calls of _record_history
\* adds: the reasons account for every failed row, the filters for every
\* success and nothing else, and the pairs for every success but routes by
\* pins, which have no names.
\* (RouteUnresolvedStatsView, RouteFilterStatsView, RouteAnalyticsTopRoutesView)
PagesAgree ==
  \A q \in Query :
    LET totals == Metrics(RowsOf(q)) IN
    /\ SumFunction(UnresolvedReasons(q)) = totals.failed_count
    /\ FilterSuccesses(q) = FilterStats(q)
    /\ SumFunction(FilterStats(q)) = totals.success_count
    /\ SumFunction(TopRoutes(q)) =
         Cardinality({i \in RowsOf(q) : Status(history[i]) = "success" /\ history[i].from.name # NoPhrase})

\* The same of every step: what PagesAgree says depends on the rows only.
ReportsAgree == [][PagesAgree']_history

=============================================================================
