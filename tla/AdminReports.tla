---------------------------- MODULE AdminReports ----------------------------
(***************************************************************************)
(* What an admin reads about accounts and feedback while the workers       *)
(* change them: the overview of users, the summary of ratings and the      *)
(* pages of feedback (views/admin_management_views.py).                    *)
(*                                                                         *)
(* A view counts by one statement after the other; the overview's growth,  *)
(* routes and top users, the summary's average, and the dates are left     *)
(* out.  The ratings are the labels of UserData.                           *)
(***************************************************************************)
EXTENDS UserData, SequencesExt

VARIABLE
  drift    \* changes of users and feedback since a worker's first count

reports == <<vars, data, drift>>

Counting == {"countActive", "countAdmins", "countRating", "showUsers", "showRatings"}

-----------------------------------------------------------------------------
(* UserAnalyticsOverviewView.get.                                          *)

\* Mutant of Active: the filter is forgotten.
EveryId == Ids

Active == {id \in Ids : users[id].active}
Admins == {id \in Ids : users[id].role = "Admin"}

CountUsers(w, caller) ==
  /\ Admin(caller)
  /\ Take(w, [pc |-> "countActive", total |-> Cardinality(Ids)])
  /\ UNCHANGED <<accounts, data>>

CountActive(w) ==
  /\ job[w].pc = "countActive"
  /\ job' = [job EXCEPT ![w] = Updated(@, [pc |-> "countAdmins", active |-> Cardinality(Active)])]
  /\ UNCHANGED <<received, accounts, data>>

CountAdmins(w) ==
  /\ job[w].pc = "countAdmins"
  /\ job' = [job EXCEPT ![w] = Updated(@, [pc |-> "showUsers", admins |-> Cardinality(Admins)])]
  /\ UNCHANGED <<received, accounts, data>>

InactiveShown(j) == j.total - j.active

-----------------------------------------------------------------------------
(* FeedbackSummaryView.get.                                                *)

\* Mutant of Ratings: the range ends one too early.
RatingsButLast == Front(SetToSeq(Label))

\* In the order of the loop.
Ratings == SetToSeq(Label)

Rated(rating) == {k \in DOMAIN feedback : feedback[k].rating = rating}

CountFeedback(w, caller) ==
  /\ Admin(caller)
  /\ Take(w, [pc |-> "countRating", total |-> Len(feedback), distribution |-> << >>])
  /\ UNCHANGED <<accounts, data>>

CountRating(w) ==
  /\ job[w].pc = "countRating"
  /\ LET counted == job[w].distribution
         more == Append(counted, Cardinality(Rated(Ratings[Len(counted) + 1])))
     IN  job' = [job EXCEPT ![w].distribution = more,
                            ![w].pc = IF Len(more) < Len(Ratings) THEN @ ELSE "showRatings"]
  /\ UNCHANGED <<received, accounts, data>>

Show(w) ==
  /\ job[w].pc \in {"showUsers", "showRatings"}
  /\ job' = [job EXCEPT ![w] = Idle]
  /\ UNCHANGED <<received, accounts, data>>

-----------------------------------------------------------------------------
(* FeedbackAnalyticsView.get: newest first, of everyone or of one account. *)

\* Mutant of Ahead: the best first.
BetterAhead(S, k) ==
  LET best(n) == feedback[n].rating = Last(SetToSeq(Label))
  IN  {j \in S : \/ best(j) /\ ~best(k)
                 \/ (best(j) <=> best(k)) /\ j > k}

\* The rows of S that are listed before k.  A row keeps the time of its
\* creation when it is submitted again.
Ahead(S, k) == {j \in S : j > k}

FeedbackOf(owners) == {k \in DOMAIN feedback : feedback[k].owner \in owners}

\* The rows behind the first offset ones: those on the pages still to come.
Beyond(owners, offset) ==
  LET listed == FeedbackOf(owners) IN {k \in listed : Cardinality(Ahead(listed, k)) >= offset}

-----------------------------------------------------------------------------
AdminInit == UserInit /\ drift = [w \in Worker |-> 0]

AdminStep(w) ==
  \/ \E caller \in Ids : CountUsers(w, caller) \/ CountFeedback(w, caller)
  \/ CountActive(w) \/ CountAdmins(w) \/ CountRating(w) \/ Show(w)

Changed == IF <<users, feedback>>' = <<users, feedback>> THEN 0 ELSE 1

AdminNext ==
  /\ UserNext \/ \E w \in Worker : AdminStep(w)
  /\ drift' = [w \in Worker |-> IF {job[w].pc, job'[w].pc} \subseteq Counting THEN drift[w] + Changed ELSE 0]

AdminSpec == AdminInit /\ [][AdminNext]_reports

-----------------------------------------------------------------------------
(* Properties.                                                             *)

Apart(a, b) == IF a < b THEN b - a ELSE a - b

\* The overview counts all users, then the active ones, then the admins, while
\* accounts are made, promoted and deactivated: each number is off the table by
\* no more than the changes since the first count, the inactive ones too, which
\* nobody counts and which may come out negative.
\* (UserAnalyticsOverviewView.get)
UsersAddUp ==
  \A w \in Worker : job[w].pc = "showUsers" =>
    /\ Apart(InactiveShown(job[w]), Cardinality({id \in Ids : ~users[id].active})) <= drift[w]
    /\ Apart(job[w].admins, Cardinality({id \in Ids : users[id].role = "Admin"})) <= drift[w]

\* The summary counts all feedback, then each rating, while feedback is
\* submitted again with another rating: a row may be counted under two ratings
\* or under none, but the ratings differ from the total by no more than the
\* changes since; with none, they are the total.
\* (FeedbackSummaryView.get, beside RouteFeedbackView.post)
RatingsAddUp ==
  \A w \in Worker : job[w].pc = "showRatings" =>
    Apart(SumFunction(job[w].distribution), job[w].total) <= drift[w]

\* Whoever reads feedback page after page, of everyone or of one account,
\* misses no row: rows come in front and keep their order when they are
\* submitted again, so what is beyond the pages read stays beyond them.
\* (FeedbackAnalyticsView.get; with a bound on ratings this would not hold,
\* since a row that no longer matches moves the others forward)
PagesMissNothing ==
  [][\A owners \in {Ids} \cup {{id} : id \in Ids}, offset \in 0..Len(feedback) :
       Beyond(owners, offset) \subseteq Beyond(owners, offset)']_feedback

=============================================================================
