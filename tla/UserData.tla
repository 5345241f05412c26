------------------------------ MODULE UserData ------------------------------
(***************************************************************************)
(* What accounts keep: saved locations, favourite routes, preferences and  *)
(* feedback on routes (views/user_views.py, RouteFeedbackView of           *)
(* views/route_views.py), served by the workers that serve the accounts.   *)
(*                                                                         *)
(* As there, a step is one statement of the database.  What a request      *)
(* reads first follows its authentication at once: nothing in between      *)
(* matters to it.  A location has two fields for its four, and so have     *)
(* preferences for their three; requests refused for their values change   *)
(* nothing and are left out.                                               *)
(***************************************************************************)
EXTENDS Accounts, FiniteSets

CONSTANTS
  Label,       \* values of the fields
  RequestId    \* route requests that feedback is on

DEFAULT == "default"

ASSUME LabelAssumption == DEFAULT \notin Label /\ Label # {} /\ IsFiniteSet(Label)
ASSUME RequestIdAssumption == RequestId \subseteq Nat

VARIABLES
  rows,        \* rows["locations"] and rows["favourites"], by key
  preferences, \* a function from some accounts
  feedback,    \* the rows of RouteFeedback
  said         \* values accepted: <<table, key>>, account, field, value

data == <<rows, preferences, feedback, said>>
accounts == <<users, registered, asked, dismissed>>

Table == {"locations", "favourites"}
Gone == [owner |-> 0]

Content(t) == IF t = "locations" THEN [name : Label, at : Label] ELSE [route : Label]
LocationChange == [name : Label] \cup [at : Label]
PreferenceChange == [default_filter : Label] \cup [max_walk_distance : Label]
DefaultPreferences == [default_filter |-> DEFAULT, max_walk_distance |-> DEFAULT]

Saying(table, key, caller, fields) == {<<<<table, key>>, caller, f, fields[f]>> : f \in DOMAIN fields}

-----------------------------------------------------------------------------
(* Saved locations and favourite routes.                                   *)

CreateRow(w, caller, t, content) ==
  /\ Authentic(caller)
  /\ Take(w, Idle)
  /\ rows' = [rows EXCEPT ![t] = Append(@, Updated([owner |-> caller], content))]
  /\ said' = said \cup Saying(t, Len(rows[t]) + 1, caller, content)
  /\ UNCHANGED <<accounts, preferences, feedback>>

\* Mutant of Finds: by the key alone.
FindsAny(t, key, caller) == key \in DOMAIN rows[t] /\ rows[t][key] # Gone

\* objects.get(pk=pk, user=request.user)
Finds(t, key, caller) == key \in DOMAIN rows[t] /\ rows[t][key].owner = caller

UpdateLocation(w, caller, key, change) ==
  /\ Authentic(caller) /\ Finds("locations", key, caller)
  /\ Take(w, [pc |-> "saveLocation", caller |-> caller, key |-> key, row |-> rows["locations"][key],
              change |-> change])
  /\ UNCHANGED <<accounts, data>>

\* loc.save() updates the row, or inserts it again when it is gone.
SaveLocation(w) ==
  /\ job[w].pc = "saveLocation"
  /\ LET j == job[w] IN
     /\ rows' = [rows EXCEPT !["locations"][j.key] = Saved(j)]
     /\ said' = said \cup Saying("locations", j.key, j.caller, j.change)
  /\ job' = [job EXCEPT ![w] = Idle]
  /\ UNCHANGED <<received, accounts, preferences, feedback>>

Delete(w, caller, t, key) ==
  /\ Authentic(caller) /\ Finds(t, key, caller)
  /\ Take(w, [pc |-> "delete", table |-> t, key |-> key])
  /\ UNCHANGED <<accounts, data>>

DeleteRow(w) ==
  /\ job[w].pc = "delete"
  /\ rows' = [rows EXCEPT ![job[w].table][job[w].key] = Gone]
  /\ job' = [job EXCEPT ![w] = Idle]
  /\ UNCHANGED <<received, accounts, preferences, feedback, said>>

-----------------------------------------------------------------------------
(* Preferences: get_or_create, and the whole row saved.                    *)

Prefer(id, row) == preferences' = Updated(preferences, [i \in {id} |-> row])

PreferencesOf(id) == IF id \in DOMAIN preferences THEN preferences[id] ELSE DefaultPreferences

ReadPreferences(w, caller) ==
  /\ Authentic(caller)
  /\ Take(w, Idle)
  /\ Prefer(caller, PreferencesOf(caller))
  /\ UNCHANGED <<accounts, rows, feedback, said>>

UpdatePreferences(w, caller, change) ==
  /\ Authentic(caller)
  /\ Take(w, [pc |-> "savePreferences", caller |-> caller, row |-> PreferencesOf(caller), change |-> change])
  /\ Prefer(caller, PreferencesOf(caller))
  /\ UNCHANGED <<accounts, rows, feedback, said>>

SavePreferences(w) ==
  /\ job[w].pc = "savePreferences"
  /\ LET j == job[w] IN
     /\ Prefer(j.caller, Saved(j))
     /\ said' = said \cup Saying("preferences", 0, j.caller, j.change)
  /\ job' = [job EXCEPT ![w] = Idle]
  /\ UNCHANGED <<received, accounts, rows, feedback>>

-----------------------------------------------------------------------------
(* Feedback: looked for, then updated or created.                          *)

FeedbackAt(caller, r) ==
  {k \in DOMAIN feedback : feedback[k].owner = caller /\ feedback[k].request = r}

SubmitFeedback(w, caller, r, rating, comment) ==
  /\ Authentic(caller)
  /\ LET row == [owner |-> caller, request |-> r, rating |-> rating, comment |-> comment]
         there == FeedbackAt(caller, r)
     IN  \/ there = {} /\ Take(w, [pc |-> "createFeedback", row |-> row])
         \/ \E k \in there : Take(w, [pc |-> "saveFeedback", key |-> k, row |-> row])
  /\ UNCHANGED <<accounts, data>>

\* What is accepted is a rating with its comment.
SayingFeedback(row) ==
  Saying("feedback", row.request, row.owner, [both |-> <<row.rating, row.comment>>])

\* Mutant of CreateFeedback: no index refuses a second row.
CreateFeedbackAnyway(w) ==
  /\ job[w].pc = "createFeedback"
  /\ feedback' = Append(feedback, job[w].row)
  /\ said' = said \cup SayingFeedback(job[w].row)
  /\ job' = [job EXCEPT ![w] = Idle]
  /\ UNCHANGED <<received, accounts, rows, preferences>>

\* The unique index refuses a row that another worker inserted meanwhile, and
\* the answer is a 500.
CreateFeedback(w) ==
  /\ job[w].pc = "createFeedback"
  /\ LET row == job[w].row IN
     \/ /\ FeedbackAt(row.owner, row.request) = {}
        /\ feedback' = Append(feedback, row)
        /\ said' = said \cup SayingFeedback(row)
     \/ /\ FeedbackAt(row.owner, row.request) # {}
        /\ UNCHANGED <<feedback, said>>
  /\ job' = [job EXCEPT ![w] = Idle]
  /\ UNCHANGED <<received, accounts, rows, preferences>>

SaveFeedback(w) ==
  /\ job[w].pc = "saveFeedback"
  /\ feedback' = [feedback EXCEPT ![job[w].key] = job[w].row]
  /\ said' = said \cup SayingFeedback(job[w].row)
  /\ job' = [job EXCEPT ![w] = Idle]
  /\ UNCHANGED <<received, accounts, rows, preferences>>

-----------------------------------------------------------------------------
UserInit ==
  /\ Init
  /\ rows = [t \in Table |-> << >>]
  /\ preferences = [id \in {} |-> DefaultPreferences]
  /\ feedback = << >>
  /\ said = {}

UserNext ==
  \/ Next /\ UNCHANGED data
  \/ \E w \in Worker :
       \/ \E caller \in Ids :
            \/ \E t \in Table : \/ \E content \in Content(t) : CreateRow(w, caller, t, content)
                                \/ \E key \in DOMAIN rows[t] : Delete(w, caller, t, key)
            \/ \E key \in DOMAIN rows["locations"], change \in LocationChange :
                 UpdateLocation(w, caller, key, change)
            \/ ReadPreferences(w, caller)
            \/ \E change \in PreferenceChange : UpdatePreferences(w, caller, change)
            \/ \E r \in RequestId, rating, comment \in Label :
                 SubmitFeedback(w, caller, r, rating, comment)
       \/ SaveLocation(w) \/ DeleteRow(w) \/ SavePreferences(w)
       \/ CreateFeedback(w) \/ SaveFeedback(w)

UserSpec == UserInit /\ [][UserNext]_<<vars, data>>

-----------------------------------------------------------------------------
(* Properties.                                                             *)

UserTypeOK ==
  /\ TypeOK
  /\ \A t \in Table : \A key \in DOMAIN rows[t] :
       \/ rows[t][key] = Gone
       \/ /\ rows[t][key].owner \in Ids
          /\ [f \in DOMAIN rows[t][key] \ {"owner"} |-> rows[t][key][f]] \in Content(t)
  /\ DOMAIN preferences \subseteq Ids
  /\ \A id \in DOMAIN preferences :
       preferences[id] \in [default_filter : Label \cup {DEFAULT}, max_walk_distance : Label \cup {DEFAULT}]
  /\ feedback \in Seq([owner : Ids, request : RequestId, rating : Label, comment : Label])

\* Whatever copies are saved over one another, or after a deletion: what a
\* location, a favourite or a preference holds was accepted for that row from
\* the account that owns it.  (SavedLocationDetailView, UserPreferencesView)
RowsAreTheOwners ==
  /\ \A t \in Table : \A key \in DOMAIN rows[t] :
       LET row == rows[t][key] IN
       \A f \in DOMAIN row \ {"owner"} : <<<<t, key>>, row.owner, f, row[f]>> \in said
  /\ \A id \in DOMAIN preferences : \A f \in DOMAIN preferences[id] :
       preferences[id][f] = DEFAULT \/ <<<<"preferences", 0>>, id, f, preferences[id][f]>> \in said

\* However submissions race: one row for each account and request, and its
\* rating and its comment were submitted together.  (RouteFeedbackView.post)
FeedbackIsOneSubmission ==
  \A k \in DOMAIN feedback :
    /\ FeedbackAt(feedback[k].owner, feedback[k].request) = {k}
    /\ SayingFeedback(feedback[k]) \subseteq said

=============================================================================
