# Wslny-Backend: verification project

Wslny answers the question "how do I get there by public transport?" for Cairo.
This directory holds TLA+ models of the parts of the backend that decide the
answer, the TLC configurations that check them, and proofs, checked by TLAPS,
of every safety property that those configurations check.

- [1. The system](#1-the-system)
- [2. Modules and the code they model](#2-modules-and-the-code-they-model)
- [3. What each run checks and shows](#3-what-each-run-checks-and-shows)
- [4. Where the code and its documents part](#4-where-the-code-and-its-documents-part)
- [5. What is proved](#5-what-is-proved)
- [6. What is not modelled, and why](#6-what-is-not-modelled-and-why)
- [7. Plan](#7-plan)
- [8. Running the checks](#8-running-the-checks)

`PROJECT.json` maps every definition to the lines it models, lists the runs, the
mutants that show each property can fail, the hazards and the theorems.

## 1. The system

Three services. The **API** (Django, `API/Wslny`) is the only one clients talk
to; several gunicorn processes of several threads share one PostgreSQL
database. For a text it calls the **AI service** (Python, `Ai-Service`), which
returns an origin and a destination; then the **routing engine** (C++,
`RoutingEngine`), which returns up to four routes. Both calls are synchronous
gRPC with a deadline. Every service keeps its state in one place: the API in
the database, the AI service in a cache in memory, the engine in a graph that
is built before it listens and never changes.

### Components

**Spatial grid and stop lookup** (`graph.cpp`). *State:* stops filed by cell.
*Operations:* stops within a radius of a point, with or without a mode mask.
*Hard:* cells of one size in degrees, radii wider than a cell, a silent
fallback when no stop of the mode is near. *Correct when:* no stop that the
nine cells can cover is missed, and the fallback is all or nothing.

**Transit graph** (`graph.cpp`). *State:* stops, rides between consecutive
stops of a trip, walks between close stops; read-only once built. *Operations:*
load, and resolve the mode of a trip - in two ways that differ for a trip that
`trips.txt` lacks. *Correct when:* the search and the reply agree on modes.

**Pathfinder** (`pathfinder.cpp`). *State:* per call, a queue, one label per
stop (cost, parent, trip), the best end so far. *Operations:* `FindPath`, an A*
search from all stops near the origin to any stop near the destination, and
`FindAllRoutes`, which makes four such calls with different mode masks. *Hard:*
labels are overwritten after others were derived from them; a stop is queued
several times; there is no closed set; the price of leaving a stop depends on
the trip it was reached by; the read-back loop has no bound. *Correct when:* it
returns; the route read back is the one that was priced; the price lies
between the bounds the algorithm can be held to.

**Routing gRPC service** (`service_impl.cpp`). *State:* none. *Operations:*
`GetRoute` turns results into options with segments, times, names and lines to
draw. *Hard:* a second table of speeds, parts and total rounded one by one,
walks left out, shapes cut by distance instead of by stops. *Correct when:* the
parts exceed the whole by their rounding at most, and a ride is drawn where it
goes.

**Route cost and selection** (`orchestrator.py`). *State:* none. *Operations:*
price an option, pick the one the filter asks for. *Hard:* zero taken for
missing. *Correct when:* the option picked is eligible and a best one.

**Route orchestrator views** (`orchestrator.py`). *State:* a request per
thread; the gRPC clients made at start. *Operations:* route by text or by pins,
search for a destination, confirm a suggested one. *Hard:* about twenty ways to
end, over four calls that may each fail; the row is written before the answer;
a search that fails asks the table which destination may have been meant, and
records its suggestion in the same table; restarts. *Correct when:* table and
answers agree, suggestions are places someone named, and every request ends.

**Route history store** (`History/models.py`). *State:* one row per recorded
request, unique by request id. Written by the three views; read by the
suggestions, by the listings and by the analytics.

**AI interpreter: reading texts** (`Server.py`). *State:* none. *Operations:* a
language model labels words; when it does not label both ends, an ordered list
of regular expressions decides. *Hard:* several expressions match one text and
the first one wins. *Correct when:* a text that names both ends is read as it
is meant.

**AI interpreter: geocoding** (`geocoder.py`). *State:* a dictionary of places
shared by ten threads. *Operations:* locate a name by a table, the dictionary,
Google Maps (twice), or Nominatim. *Hard:* threads interleave between the look
at the dictionary and the write; each call may raise. *Correct when:* a place
belongs to its name, Cairo is preferred, and what is remembered is located.

**Accounts** (`Authentication/Commands`, `Admin/Commands`, `auth_views.py`,
`admin_management_views.py`, `seed_admin.py`). *State:* rows of `User`.
*Operations:* register, log in, log in with Google, change a profile, a
password, a role, the activity; seed an admin at start. *Hard:* each request is
several statements that commit one by one; a change saves a whole row read
earlier; addresses are stored in another spelling than typed. *Correct when:*
a stored address has one account, values belong to their account, the staff flag
follows the role that was last decided, and what was decided last about an
account holds.

**gRPC client registry and clients** (`GrpcClients`, `ai_client.py`,
`routing_client.py`). *State:* one client per service or the error met in making
it, under a lock. *Operations:* get the client, made on first use; call, with a
deadline. *Hard:* requests and health checks race for the first use; the
service goes on working for callers that have left. *Correct when:* one client
is made, all are told the same of it, and nobody waits for ever.

**Route feedback** (`route_views.py`). *State:* one row per user and request.
*Operations:* look for the row, then update or create it. *Hard:* two
submissions at once. *Correct when:* there is one row for a user and a request,
and its rating and comment were submitted together.

**Saved locations, favourite routes, preferences** (`user_views.py`). *State:*
rows of one user each. *Operations:* create, change, delete, each after a read.
*Hard:* a change saves a copy of a row that was meanwhile changed or deleted.
*Correct when:* a row holds only what its owner had accepted for it.

**Transit data** (`GtfsDataService.py`, `transit_views.py`). *State:* the feed,
read on first use. *Operations:* the lines of a stop, the stops of a line.
*Hard:* it reads the files of the engine by rules of its own. *Correct when:*
a ride that the engine proposes can be looked up.

**Route alternatives view** (`route_views.py`). *State:* none. *Operations:* list
the engine's options by duration. *Correct when:* it agrees with the selection
on what is fastest.

**Route analytics** (`RouteAnalyticsService.py`, `admin_views.py`). *State:*
none; reads the rows of the orchestrator. *Operations:* count and average them
by what a query asks for. *Hard:* one page is several statements, while rows
are inserted. *Correct when:* its numbers differ by no more than that explains.

**User analytics** (`admin_management_views.py`). *State:* none. *Operations:*
count users and ratings, one statement after the other; list feedback in pages.
*Hard:* accounts and feedback change between two statements and between two
pages. *Correct when:* numbers are off by no more than the changes, and no row
is missed.

**Route history, metadata and health views** (`orchestrator.py`,
`health_views.py`). *State:* none. *Operations:* the rows of a client, newest
first; constants; whether the clients could be made. *Correct when:* a client
finds every recorded answer in its history.

**Settings, middleware, permissions, migrations, demo data, the feed and its
tools, generated protocol code, deployment** hold no logic of their own beyond
constants and checks that appear in the modules above.

### How they interact

| from | to | by | what may go wrong |
| --- | --- | --- | --- |
| client | API | HTTP | any order of requests, any fields missing |
| orchestrator | AI service | gRPC, deadline | any status, no origin, a restart meanwhile |
| orchestrator | routing engine | gRPC, deadline | any status, nothing found, no option of the mode |
| orchestrator | RouteHistory | insert, query | refused insert, rows of other workers in between |
| AI service | Google, Nominatim | HTTP | raises, nothing, places outside Cairo |
| threads of the AI service | cache | shared dictionary | writes between a look and a write |
| account views, admin views, start-up command | User | statements | stale copies, unique index |
| user views, feedback view | locations, favourites, preferences, feedback | statements | stale copies, deleted rows, unique index |
| analytics views, history view | RouteHistory | statements | rows inserted between two of them |
| orchestrator, health view | client registry | lock | races for the first use, a client that cannot be made |
| user analytics | User, feedback | statements | changes between two of them, or between two pages |
| transit views | the feed | files, once | read by other rules than the engine's |

The interesting behaviour is therefore of three kinds: an **algorithm** (the
search), **protocol with failures** (the orchestrator, the geocoder) and
**interleaved statements** (accounts, and the suggestions of the orchestrator).

## 2. Modules and the code they model

```
SpatialGrid <- TransitGraph <- Pathfinder <- RouteQuality <-- MCRouteQuality <- MCRouteSelection <--+
     ^                             ^                                                                |
 StopLookup                        +- RouteSelection <- TransitData <- RouteDrawing <---------- MCTransitData
     ^                                      v
MCStopLookup                          RouteOptions <- RouteOrchestrator <- RouteAnalytics <- RouteReports
                                                           |      ^
                                  RouteService <===========+      +-- MCRouteOrchestrator <- MCRouteAnalytics
TextRules <- AiService <- AiGateway <- MCAiGateway         (AiService <- MCAiService <- MCAiGateway)
Accounts <- UserData <- AdminReports <- MCUserData         (Accounts <- MCAccounts <- MCUserData)
```

An arrow points at the module that is extended, the double one at the module
that is instantiated: `RouteOrchestrator` implements `RouteService`. The proofs
are in modules of their own:

| proofs | about |
| --- | --- |
| `StopLookupProofs` | StopLookup |
| `PathfinderProofs` | TransitGraph, Pathfinder |
| `RouteSelectionProofs` (extends `PathfinderProofs`) | RouteSelection, the alternatives of TransitData |
| `RouteQualityProofs` (extends `RouteSelectionProofs`) | RouteQuality, durations, the rides in TransitData and RouteDrawing |
| `RouteOrchestratorProofs` | RouteOrchestrator, RouteService, RouteAnalytics, RouteReports |
| `AiServiceProofs` | TextRules, AiService, AiGateway |
| `UserDataProofs` | Accounts, UserData, AdminReports |
| `FiniteSums` | sums over finite sets and sequences, for the others |

**SpatialGrid** - positions, cells, both lookups. A position is a pair of whole
numbers of 100 m; the great-circle distance becomes a metric on these (the sum
of the differences). Search and grid rely on two facts alone, both true of it:
the triangle inequality, and that a distance bounds both coordinates. A cell is
15 units high and, since a degree of longitude is shorter in Cairo, 13 wide. A
bit mask is the set of its bits.

**StopLookup** - a lookup from any point as a behaviour of one step.

**TransitGraph** - edges as sets of records: rides between rows of
`stop_times.txt` that follow one another, both ways for microbuses, and walks.
Weights are whole numbers of half seconds, so that rounding to seconds has
something to do: 12, 18, 24 and 143 of them for 100 m by metro, microbus, bus and
on foot, which are the code's speeds to within a half second. A trip that cannot be resolved is a bus to the
search (`EdgeMode`) and unknown to the reply (`GetTripMode`), as in the code.

**Pathfinder** - `FindPath` and `FindAllRoutes`. The state is that of the code:
`info`, `pq`, `best_total`, `best_end_node`, the stop being expanded and its
edges not yet looked at (`top`, `todo`), the path being read back. One action
per way through the loop:

| action | code |
| --- | --- |
| `NoCandidates`, `StartSearch` | the lookups in growing radii, the direct walk, the first labels |
| `PopDiscarded` | a pop followed by one of the two `continue`s |
| `Expand` | a pop that is kept, and the check of an end node |
| `Relax`, `Pass` | one outgoing edge, better or not |
| `FinishWithoutStops`, `BeginTrace`, `Trace`, `FinishWithRoute` | the read-back |

`Return` resets what a return drops. Ties of the queue and the order of edges
are left open: the code's order comes from the heap and the file, and no
property may depend on it.

**RouteQuality** - what the results are held to, computed from the graph alone
by rounds of relaxation over pairs of stop and trip. It prices routes twice: as they
are (`StepCost`, which the search uses too), and with a change charged for every
ride from a stop that another vehicle of the modes also brings to (`DearestStep`):
there, and nowhere else, the one label of the stop may name another vehicle than
the route's own.

**RouteSelection** - `GetRoute`, `_compute_route_cost`, `_metro_fare_by_stops`
and `_select_route` over the results. `toIntSeconds` rounds half a second up, the
total of an option and each of its segments by itself; selection sees the rounded
total. `OrMissing` is Python's `x or 10**9`.

**RouteOptions** - the types of options and the filters, shared by the engine's
side and the orchestrator's, so that both say the same of what a filter allows.

**RouteOrchestrator** - `RouteOrchestratorView`, `RouteSearchView` and
`RouteSearchConfirmView`. A worker's step runs up to its next call of a service
or of the database: `Receive*` (all refusals in the code's order), `AiAnswers`,
`AiFails`, `Suggest` (the query of `_suggest_destination`), `RoutingAnswers`,
`RoutingFails`, `Record`, `RecordRefused`, `Answer`; `Restart` drops what all
workers were doing. `up` says whether both clients could be made; the registry
gives a client or an error and keeps it, so `API_CLIENT_UNAVAILABLE`, the branch
for neither, is not reached, and it is one value per deployment. The engine
answers `NOT_FOUND` rather than an empty list, so sets in `Found` are not empty;
replies without `routes`, of engines older than this repository's, are left
out. `AI_EMPTY_RESULT` is never needed: a success of the AI service has a
located destination (`TypeOK` of `AiService`). A similarity of names is a
constant, `Resemblance`; the threshold of 35 % and the order by likeness and
age are the code's. The order of rows is that of inserts, which is that of
`created_at`.

**RouteService** - the abstract specification of the three route views: a request
is `open` from its arrival until it is answered or lost, is booked at most once
meanwhile (`Book`), and is answered at most once (`Send`), by what was booked or,
when nothing was, by a refusal that shows nothing. The instance `Service` in
`RouteOrchestrator` maps to it: `open` are the requests that workers hold, the
`ledger` is the table with what a row tells of its request (`Entry`).

**RouteAnalytics** - an overview of `RouteAnalyticsOverviewView`, made while the
workers of `RouteOrchestrator` insert rows: `ReadTotals` and `ReadSources` are
its first two statements, `Matches` the filters of `apply_filters`, `Metrics`
and `BySource` what the database counts. `report.rows` and `report.owed` are
kept for the property: rows inserted between the statements, and routes
answered before the first.

**RouteReports** - what is read from the same rows in one statement, as functions
of the table: the history page of a client, the unresolved reasons, the filter
statistics and the top routes. Rows do not say here who sent the request;
instead a client is any set of requests, and the property holds of them all.

**TransitData** - `AgencyToMode`, `LinesAt` and `StopsOf` of `GtfsDataService`,
beside `EngineMode`, by which the engine has read the same files (the `ASSUME`
says that the network searched is what these files say); and `Alternatives`,
the list of `RouteAlternativesView`.

**RouteDrawing** - `Polyline` and `GetShapePolyline`, by which the engine cuts a
ride out of its trip's shape, and `LinePolyline`, what the page of a line shows.

**TextRules** - `_extract_with_rules` word by word: a text is a sequence of
words, a group of spellings that the expressions treat alike is one constant,
and every other word belongs to a name. The expressions' greed is modelled by
what it does: the first separator inside, the last word "in". The branch on the
last "from" (lines 160-174) is never reached, as an earlier expression matches
whatever it would. One way of saying please holds the word for "from" and is two
words here (`FROM`, `KINDLY`), as the expressions see it. Left out is one spelling
of an opening, the longest, which begins with the word for wanting (line 75).
The operators were compared with the Python function on 12 000 generated texts, a
word for each group of spellings, and agreed on all of them.

**AiService** - `ExtractRoute` and `get_coordinates` on a pool of threads. What
the language model labels and what the geocoders may answer are constants; the
model may also raise, which nothing catches, so that the call ends with `UNKNOWN`. The
cache is a function that grows and is lost by `Restart`.

**AiGateway** - the way to it from one process of the API. The registry is `client`,
`opened` and `lock`: a call may find a client at once, or take the lock and
`Make` one, which opens a channel before it may fail (`Enter`, `Make`). Then it
waits until the service replies, its deadline passes (`Expire`), or the service
is `Unreachable` or restarts. Threads that serve a call are those of
`AiService`, composed step by step; they know nothing of deadlines, and a reply
nobody waits for is dropped (`Finish`). gRPC itself is external.

**Accounts** - each account request as its statements: `Register` looks for the
spelling typed and `Create` inserts the spelling stored, with the role the request
names, whatever it is, and without the staff flag, or meets the unique index;
`SeedAdmin` looks, and `Seed` inserts or `Promote` saves the two fields it names;
changes read (`Get`, or authentication itself in `UpdateProfile`) and
`Save` the whole copy. `asked`, `registered` and `dismissed` record what was
promised and are read by properties only. `entrypoint.sh` runs `seed_admin` before it starts the
server, so that `Init` has the seeded admin, or, when no password was given to seed,
nobody; `SeedAdmin` is a start after that. `GoogleLogin` is one step: its
`get_or_create` is repeated by Django when another insert wins. A login changes
nothing and is the operator `LoginFinds`. What `seed_admin` does with an unusable
password is left out: `get_or_create` leaves an empty one, which Django (4.2, as
`requirements.txt` asks) counts as usable, so no row has one. Tokens are left out: a caller is
whoever holds one.

**UserData** - the requests on locations, favourites, preferences and feedback,
by the workers that serve the accounts, a step for each statement:
`UpdateLocation`/`SaveLocation`, `Delete`/`DeleteRow`, `UpdatePreferences`/
`SavePreferences`, `SubmitFeedback` and then `SaveFeedback` or `CreateFeedback`,
which the unique index may refuse. A key is never used again, as keys come from
a sequence; `save()` of a deleted row inserts it anew under its key. `said`
records what was accepted, from whom and for which row, and is read by
properties only.

**AdminReports** - what an admin reads meanwhile: `CountUsers`, `CountActive`,
`CountAdmins` and `CountFeedback`, `CountRating` are the statements of two views,
held by the worker that serves the request, so they interleave with every change
of `Accounts` and `UserData`; `Ahead` is what a page lists before a row. `drift`
counts the changes since a view's first statement and is read by properties only.

## 3. What each run checks and shows

| run | configuration | properties | states |
| --- | --- | --- | --- |
| `stop_lookup` | MCStopLookup | TypeOK, CellWidthCovered, MaskFallsBackWhole | 500 |
| `route_search` | MCTransitData | TypeOK, LabelsRealised, ParentsCheaper, SegmentsAccountForTotal, TotalsBounded, FilterHonoured, ChoiceIsBest, DurationsWithinTotal, RidesAreListed, FastestLeads, DrawnAsRidden, ExpandedFinal, Termination | about 950 |
| `requests_served` | MCRouteAnalytics | TypeOK, AnswersRecorded, OverviewAddsUp, HistoryShowsAnswered, Served, ServiceKept, ReportsAgree | 345 000 |
| `suggestions_traced` | MCOrchestratorSuggest | SuggestionsTraceable | 1.1 million |
| `ai_service` | MCAiGateway | GatewayTypeOK, PlacesAreOfTheirNames, CairoPreferred, RememberedIsLocated, TextsReadAsMeant, OneVerdict, CallersGoOn | 212 000 |
| `accounts` | MCUserData | UserTypeOK, ValuesAsked, StaffIsAdmin, OneAccountPerEmail, RowsAreTheOwners, FeedbackIsOneSubmission, UsersAddUp, RatingsAddUp, PagesMissNothing | 262 000 |

Six more runs end in a counterexample; they are the subject of section 4. Every
property above has a mutant in `PROJECT.json`: a plausible slip in a definition
that models code, under which the same run finds the property violated.

### Bounds, and why they are enough

*stop_lookup.* Nine stops on both sides of the reference lines, points at the
first and last unit of cells, every radius the code uses and one below the width
of a cell. A query looks at cells one way or the other of its own, so nothing
new happens farther out.

*route_search.* One network of two parts too far apart to meet. The *town*: metro
stops nearest to both ends whose trip runs the other way only, buses that only a
wider radius reaches, a circular microbus line, a trip missing from the trips
file, a row of a stop missing from the stops file, requests with no stop around
them, near enough to walk or not. The *corridor*: two bus trips over a common
pair of stops, one calling at a stop in between, a metro line with a trip each
way and a microbus beside them. Each search is a run of the real algorithm, with every order of ties. Shapes
bend between the stops, one doubles a position, one runs backwards, one is
missing, and the circular line's passes its first stop twice. As in the shipped feed, a stop serves one mode, and no trip has two rows with one
sequence number (`FeedKeyed`). Walks of an odd number of units take a half second, so totals and
segments are rounded, and not always alike.

*requests_served, suggestions_traced.* Two workers: a row depends on its own
request and on rows inserted before it, so a third adds nothing a second cannot
do in sequence. Two requests for the liveness, of every kind that is refused and
served; three for the suggestions - one to name a place, one to suggest it, one
to suggest from what was recorded - over a window of two rows, so that rows do
drop out of it. The proofs of section 5 hold for any numbers. One overview a
behaviour, at any moment: it changes nothing, so a second adds nothing. Two
queries: of all rows, and of the failures among those by pins that wanted a bus.
The history is looked at in every state, for every set of requests as those of
one client, with every limit from zero, which is raised to one, to the number of
requests.

*ai_service.* Two threads and three requests at the service, two of them at most
from the process of the API that is followed and the others from elsewhere:
enough for two to race for the client, for a name to be located by a request,
remembered, and wanted by another while a third fails, and for both threads to
be busy with calls whose callers have left. The names are two of the table, one that
Google first places outside Cairo and that all services find in Cairo, and one
that nobody finds there for sure. The texts fit each expression, with openings
and either please; a behaviour asks about one of them, or about two that share a
name (`Asked`). Each names at most one place that the services are asked about,
the origin or the destination; a text with two of them alone makes half a million
states, and is left to the proofs.

*accounts.* Two workers and three requests, beside the seeded admin or on an empty
table: two registrations racing, or a change read, another accepted, and the first
saved. Another start of the server takes one of the three. A registration names one
of the two roles or a third that stands for any other string. One address in two
spellings. Two passwords, but one profile: a stale copy that brings a password back
shows what one with an old name would, and the profile would triple the states;
the two runs of section 4 on accounts have two. The user data are those of the
seeded admin and of the accounts that workers may create beside them, two values for
each field. Feedback is on two requests, so that ratings of different rows can
change between two counts. A view that counts and a change that it straddles take
both workers and two of the three requests.

### Fairness

*Pathfinder:* weak fairness of `Next`; the search is a loop of one thread that
nothing blocks. *RouteOrchestrator:* weak fairness of each worker's `Work`: both
gRPC calls have deadlines, queries of the database return or raise, and threads
are scheduled. Not of `Receive*`, as no client need ask, nor of `Restart`.
*AiGateway:* weak fairness of a call's own steps, `Enter`, `Make` and `Expire`: the
threads of the API are scheduled, and gRPC ends a call at the deadline that
`ai_client.py` sets. Nothing is assumed of the service's threads, nor that it
answers at all: googlemaps and Nominatim decide by themselves when to give up.
*Accounts* and what extends it have no fairness and no liveness property: a
request is a few statements in a row, and there is nothing in it to wait for.

`CHECK_DEADLOCK FALSE` is in every configuration: a search is over when it has
returned, and the servers stop when the bound on requests is reached with every
worker idle.

### What the properties say

- **LabelsRealised, ExpandedFinal, ParentsCheaper**: `FindPath` has no closed
  set and overwrites labels freely. That it never overwrites one that others
  depend on, so that the route read back is the one priced and the read-back
  ends, rests on the estimate being consistent: 25 m/s is faster than any mode.
- **TotalsBounded**: with one label per stop a search may miss the cheapest
  route (section 4), yet a total is never below it, and never above the cheapest
  with a change charged for each ride from a stop that another vehicle of the mask
  also brings to. Where no two trips of the mask meet, the two are the same, and the
  search is exact.
- **SegmentsAccountForTotal**: the segments cut from the path, priced anew, add
  up to the total.
- **FilterHonoured, ChoiceIsBest, DurationsWithinTotal**: what reaches the
  client: the modes named, the option chosen, the times shown. Total and segments are
  rounded one by one (a walk of 1.5 s, a ride of 10.5 s and another such walk are
  shown as 2, 11 and 2 s of 14 s), so what can be asked of the segments is that they
  exceed the total by half a second each at most. That holds of real durations as it
  does of half seconds: a segment gains half a second at most, the total loses less than
  that, and both sides of the bound are whole. A speed that the two tables do not agree
  on would break it.
- **RidesAreListed**: engine and API tell modes and lines from the same files
  by different rules; a rider who looks up a proposed ride finds it, at both its
  ends, in the mode it was shown with. It rests on the feed (`FeedAgrees`): agencies are
  spelled as both rules expect, and no trip calls where the first of its line does not.
- **FastestLeads**: the alternatives view and the selection rank by duration with
  different treatment of zero and of ties, and still agree.
- **DrawnAsRidden**: a ride along its trip is drawn from stop to stop, past those
  it calls at and no others, though only distances decide where the shape is
  cut. It is asked of trips whose shape passes their stops in order (`Tracks`),
  which are 324 of the 434 with a shape in the feed, and not of microbus rides
  against their trip (section 4).
- **CellWidthCovered, MaskFallsBackWhole**: what the grid can be relied on for.
- **AnswersRecorded**: at most one row per request; an answer that must be
  recorded agrees with its row; one that need not be has none. Some answers of
  the search views are sent without a row (`Unrecorded`), though
  `docs/architecture.md:434` speaks of all of them; the property says exactly
  which.
- **SuggestionsTraceable**: suggestions are drawn from rows that include earlier
  suggestions, and still lead back to a row that is none.
- **OverviewAddsUp**: the numbers of an overview come from different moments; the
  breakdown exceeds the totals by at most the rows inserted in between, successes
  and failures make up the totals and are the rows with and without a result, and
  routes answered before are counted.
- **ServiceKept**: the refinement of `RouteService`. Beyond AnswersRecorded it is
  about order: nothing is booked or sent for a request that a restart dropped,
  nothing is booked after the answer, and a suggestion is booked only when the
  table holds its reason.
- **HistoryShowsAnswered, ReportsAgree**: the pages find successes by different
  columns (`status`, `has_result`, `unresolved_reason`, the names), which the
  calls of `_record_history` fill in; they agree all the same, and a client
  misses no recorded answer unless newer ones fill its page.
- **Served**: no worker keeps a request for ever.
- **PlacesAreOfTheirNames, CairoPreferred, RememberedIsLocated**: the shared
  cache mixes nothing up, whatever raises when.
- **OneVerdict, CallersGoOn**: one channel is opened whoever comes first, all are
  told the same of it, and no call waits for ever, even with every thread of the
  service hanging for callers that have left.
- **TextsReadAsMeant**: no expression takes away a text that another one is for. It
  speaks of three forms, "go D from O", "go D and I am in O" and "from O to D", the first
  two also after one opening, and each with a please at its end; section 4 lists
  what is near these forms and read otherwise.
- **ValuesAsked, StaffIsAdmin, OneAccountPerEmail**: what survives lost updates. The
  staff flag follows the role except where the role is the one a registration named:
  then there is no flag. Addresses are unique as stored: a login with Google
  stores `a@X` beside a registered `a@x`.
- **RowsAreTheOwners, FeedbackIsOneSubmission**: updates may be lost and deleted
  rows come back, but nothing of one account shows up in another's rows, and
  feedback never mixes two submissions.
- **UsersAddUp, RatingsAddUp**: a page counted in several statements is off by no
  more than the changes since the first; the number of inactive users, a
  difference of two counts, may be negative for a moment.
- **PagesMissNothing**: rows are added in front and keep their place when they are
  submitted again, so reading on never skips one. Rows are listed by `created_at`,
  which the model takes for the order of their inserts, without ties.

## 4. Where the code and its documents part

Each has a run that ends in the counterexample; `PROJECT.json` quotes the lines.

1. **search_optimum / FindsCheapest.** One label per stop: the cheapest way to
   reach a stop can be the wrong one to go on from, by up to the 60 s of a
   change. The documents speak of the optimal path.
2. **stop_lookup_radius / AllWithinRadius.** Nine cells cover one cell's width,
   not the 2.5 to 6 km that the search widens to.
3. **selection_optimal / OptimalUndominated.** `transportSegments or 10**9`:
   an option without rides ranks last, so "optimal" can be slower and dearer
   than a walk on offer. Nothing else can beat it: `OptimalIsBestRide` (section
   5) proves that no option with a ride does.
4. **text_direction / ToMeansTo.** "I want to go from A to B" is read as going
   to "from A", from B: the expression for a leading destination is tried first
   and treats "to" as "from".
5. **registered_login / RegisteredCanLogIn.** An address with a capital in its
   domain is stored in lower case and looked for as typed.
6. **deactivation / DeactivationHolds.** A profile update read before a
   deactivation and saved after it sets the account active again.

Seen on the way and not made into runs. Of reading texts, all at
`Server.py:112-184` and outside of what `TextsReadAsMeant` speaks of: the feminine
spelling of "I want" leaves its last letter in the destination when "from" follows;
the please that holds the word for "from" is taken for the origin when it ends "go D
and I am in O", or a text with a destination alone; two patterns listed in the
documents are not matched: `docs/ai-service.md:85` names a destination after a verb
that is no word for going to the rules, so that the whole text becomes the
destination, and `docs/ai-service.md:86` spells "to" with a lengthened letter that
`to_sep` does not have. Of accounts: `docs/authentication.md:114-115` says that new users
are users and that the admin's role is given by `change-role`, while
`RegisterView.post` takes the role from the request (`auth_views.py:108`) and
`RegisterCommandHandler` stores it as it is, unchecked and without the staff flag
(`RegisterCommand.py:91`); the model does so too, and `StaffIsAdmin` says what is left.
Elsewhere: the window of 300 rows has no
documented meaning, and every suggestion adds a row to it; a location deleted
while a change of it is under way comes back; `RouteFilterStatsView` takes its
success rate over rows with a result, which are successes, so it is always 100 %
(`docs/admin-analytics.md:186` shows 92.5); its example of unresolved
requests counts `DESTINATION_NOT_FOUND`, which is never recorded; feedback
pages with a bound on ratings can skip a row whose rating has changed meanwhile,
and a negative `limit` is not refused there; the health view reports whether
clients were constructed, which says nothing of the services' readiness; shapes
are said to be sliced by stop sequences (`docs/routing.md:191`) but are cut at
the nearest positions, so that a microbus ride against its trip is drawn onward
from where it starts, or not at all, and so are some rides of the 110 trips whose
shapes do not pass their stops in order.

## 5. What is proved

The proofs hold for every value of the constants that satisfies the named
`ASSUME`s of the modules, which TLC evaluates in the runs.

**PathfinderProofs** - for every network, every set of requests and every order
of ties.

| theorem | property |
| --- | --- |
| `TypeCorrect` | `TypeOK` |
| `RouteIsThePricedOne` | `LabelsRealised` |
| `ReadBackDescends` | `ParentsCheaper` |
| `ExpandedStaysFinal` | `ExpandedFinal` |

`LabelsRealised` is not inductive: a relaxation overwrites a label, and it has to
be known that nothing was derived from it. `LabelInv` adds `Queue` (every queued
state has the estimate of its cost, is not cheaper than its stop's label, has
that label's trip if it is the label's own, and comes no earlier than the state
last expanded),
`Expanding` (the state being expanded is its stop's label), `Behind` (stops that
others depend on lie behind the front, `top.f`) and `Dormant` (nothing queued
outside a search). The heart is `RelaxFresh`: were the improved label that of a
stop others depend on, its estimate would be behind the front; but the new one
is not, by `HeuristicConsistent`, which is the triangle inequality and 25 m/s
being no slower than any mode. Assumptions: those of the modules alone. Rides
take at least the 30 s of a stop and only stops apart are joined on foot, so
every edge takes time, which `ReadBackDescends` needs.

**RouteOrchestratorProofs** - for any workers, requests, replies and window.

| theorem | property |
| --- | --- |
| `TypeCorrect` | `TypeOK` |
| `RowsMatchAnswers` | `AnswersRecorded` |
| `SuggestionsAreReal` | `SuggestionsTraceable` |
| `ViewsImplementService` | `ServiceKept` |

`RecordInv` follows one request. `JobInv` of each worker: its id is its own, no
answer bears it and no row does until the insert; the outcome held at the insert
is one that is recorded; the outcome held at the answer is the row's, or one that
has none; a suggestion held is backed by a row. `OneWorker`: no two workers hold
one id. `Numbered`: ids in rows and answers were given out. Three lemmas, for a
job taken, carried on and finished, leave one short step per action.

For the refinement `RecordInv` is all that is needed of the state. With it every action of
`RouteOrchestrator` is a step of `RouteService` or changes nothing that it sees:
`TakeArrives` for the ways to receive a request, `MoveStutters` for those that
carry it on, one lemma each for the insert, the answer and the restart. The insert of a
suggestion is a `Book` because a suggestion held is backed by a row; an answer is
a `Send` because its outcome is the row's or one of those without a row.

The reports on its table, in the same module, for any workers, requests, parameters and limits:

| theorem | property |
| --- | --- |
| `OverviewsAddUp` | `OverviewAddsUp` |
| `HistoriesShowAnswered` | `HistoryShowsAnswered` |
| `PagesStayAgreed` | `ReportsAgree` |

An overview holds numbers of a table that is gone when it is shown. Rows are only
added, so what its first statement counted is recounted in the first `report.rows`
rows of any later table (`AmongStays`), and the second statement counts those and
at most one more for each row added since (`AmongMore`): that is `ReportInv`.
`ResultInv` adds to `RecordInv` that a row has a result exactly when it is a success,
followed from the option a worker selects to the row, and that a request has one
answer; so answers with a route map one to one to successful rows
(`RoutesAreCounted`), and none is missing from an overview of everything. For the
history of a client, the rows listed before a row number its rows from zero on
(`AheadGrows`), so a page that is cut holds as many rows as it may (`PageFills`), all of
them newer than what it leaves out; what it leaves out of the answers is in the table by
`RecordInv`. That the pages agree is a fact of each table that `ResultInv` allows
(`PagesFollow`): a row has either a failure's code, with a reason, or a result; a success
names both ends, or not its origin; and the numbers of a tally, by whatever
column, add up to the rows tallied (`TallySum`).

**StopLookupProofs** - for every field of stops, point, radius and mask.

| theorem | property |
| --- | --- |
| `LookupsTyped` | `TypeOK` |
| `NearStopsFound` | `CellWidthCovered` |
| `MaskNeverMixes` | `MaskFallsBackWhole` |
| `WideCellsAreExact` | with a radius no wider than a cell, the lookup is the stops within it |

The heart is `NineCellsCover`, from two lemmas on division that rounds down, on
either side of zero: numbers no farther apart than a cell fall into the same cell
or into two side by side. `WideCellsAreExact` says precisely where the
divergence of `stop_lookup_radius` begins.

**RouteSelectionProofs** - for every network, every set of requests and every order
of ties.

| theorem | property |
| --- | --- |
| `ResultsStayTyped` | the four results have the types of their searches |
| `FiltersHonoured` | `FilterHonoured` |
| `ChoicesAreBest` | `ChoiceIsBest` |
| `OptimalIsBestRide` | among the options that ride, none beats "optimal" in rides, or in time for as many |
| `FastestLeadsAlways` | `FastestLeads` |

Selection looks at finished results only, so what they are has to be carried
through the search. `OptionInv` extends `LabelInv` by `Reached` (what is queued,
expanded, depended on or read back is a stop that was reached, so that a route is
never cut out of labels that were not set, and its trips are of modes that the
mask allows) and `Timed` (a label at no cost belongs to a stop at the origin
itself, so that a route takes no time exactly when its ends are one place). The
latter is what makes `total or 10**9`, which takes zero for missing, harmless
to "fastest" and "cheapest": an option of no time is there only when all options are,
and the two views, which treat zero and ties differently, agree for that reason.
`CountedOff` (a finite set of numbers can be numbered in its order) and
`LeastRank` (among any ranks some are preceded by none) are the lemmas on data
that it rests on.

**RouteQualityProofs** - for every network, every set of requests and every order
of ties.

| theorem | property |
| --- | --- |
| `TotalsStayBounded` | `TotalsBounded` |
| `SegmentsAlwaysAccount` | `SegmentsAccountForTotal` |
| `DurationsStayWithinTotal` | `DurationsWithinTotal` |
| `RidesAreReal` | each ride is with a trip of the mode shown, between two stops it calls at |
| `RidesStayListed` | `RidesAreListed`, given `FeedAgrees` |
| `RidesAreDrawn` | `DrawnAsRidden`, given `FeedKeyed` |

*Totals.* The reference of `RouteQuality` is the labels after as many rounds of
relaxation as there are stops. That a search ends no dearer than the
bound is the invariant `Relaxed`: each label below the best total is
either still queued (`Pending`) or `Settled`, every edge out of it having been
tried - it leads to a label that is no dearer than by that edge at `DearestStep`, or
to nothing better than the best total. The trip a label names brings to its stop
(`Brings`), so a change is charged only where another vehicle calls
(`StepWithinDearest`). When the queue is
empty, rounds of relaxation can only follow such edges, so by induction over the
rounds no label of theirs is better (`ReachedAsCheaply`). That a
total is no lower than the cheapest is the converse (`FoundByRounds`): a stop's route is
found in as many rounds as there are cheaper stops, since its parent is one
of them and has fewer.

*Segments.* Along the route read back (`ReadBack`, `RouteRead`) the costs
telescope: each label is the one before plus an edge and, where the trip changes
between two vehicles, a penalty. Penalties are counted at stops by the search and between segments
by the property; `AsManyChanges` is the bijection of the two. A ride's duration on
the straight line is no more than its labels are apart, by the triangle
inequality and the service's speeds, and durations that fit one behind the other
add up to no more than the last label (`SumStaysUnder`); segments that are not
shown only take from the sum. So before rounding the parts take no longer than the total
(`RouteInTime`); with the rounding, by `RoundedSums`, half a second more for each.

*Rides.* `RidesAreReal` is an invariant of the results and needs nothing of the feed:
the stop a ride ends at was reached by its trip, and so was the one behind its
first, all stops between two breaks being labelled with one trip. What engine and
API say of such a ride depends on the files. `FeedAgrees` (agencies spelled as
both rules expect; no trip calls where the first of its line does not) and `FeedKeyed`
(a trip has one call of a number and one row, a shape one position of a
number) name what is needed. Both hold of the networks the runs use and of the files in
`RoutingEngine/Database`. For the drawing, a shape that tracks its trip has its
positions nearest to stops in the order of the calls: the position nearest to where the ride starts is
marked for its first call there, not a later one, as it is the first such
position; and the nearest one behind it to where the ride ends is
marked for its last call, so exactly the calls in between are marked between them.

**UserDataProofs** - for any workers, number of requests,
addresses, and values of fields.

| theorem | property |
| --- | --- |
| `AccountsTyped`, `UserDataTyped` | `TypeOK`, `UserTypeOK` |
| `FieldsHoldWhatWasAsked` | `ValuesAsked` |
| `StaffFollowsRole` | `StaffIsAdmin` |
| `AddressesAreUnique` | `OneAccountPerEmail` |
| `AddressesStay` | no step changes the address of an account |
| `RegisteredLogIn` | an account that was registered is found by a login with the address as stored |
| `RowsStayTheOwners` | `RowsAreTheOwners` |
| `FeedbackStaysOne` | `FeedbackIsOneSubmission` |
| `AccountsStayRight` | the invariants of `Accounts`, beside the user data and the admin's views |
| `OverviewOfUsers` | `UsersAddUp` |
| `NoRowIsMissed` | `PagesMissNothing` |
| `SummaryOfRatings` | `RatingsAddUp` |

None of the properties is inductive, for a copy that a worker holds may be saved
over any row later. `AccountInv` therefore says of every copy what is said of the
rows: it has the address of the row it was read from, the admin's role if it has the
flag, and its values were asked for, for that row. A copy that is read is good because the
rows are; a change of it is, because what the caller asks is booked in `asked` in the same
step; saving it is, because the row it replaces has the same address - which is
`AddressesStay`, and the reason why stale copies never give two rows one
address. `RegistrationInv` adds that the role of every row, and of every copy held, is
either one that the flag follows or the one its registration named (`Explained`): role and
flag are changed together or not at all. `UserInv` does the same for locations, favourites, preferences and
feedback and the copies of those, where a row that was deleted may come back
under its key, and needs of the accounts only that ids stay. `CountsInv` bounds
each count an admin's worker holds by the changes since: a step changes at most one row
(`StatementByStatement`), so sets of accounts drift apart by one account a step
(`CloseSets`). Feedback keeps its owner and its place when it is submitted again, and is
else only added (`KeysKept`), so the rows listed before a row only become more
(`PagesStay`). For the summary of ratings, `SummaryOK` follows a worker from the total
to the last rating: what it has counted, with the rows of ratings it has
still to count, is within `drift` of the total. Counting a rating moves its
rows from the one to the other; a submission changes one row, so either number by one at
most (`SummaryDrifts`). Everything is proved for `AdminSpec`, the composition that the run
`accounts` checks. `RegisteredLogIn` states what is left of `RegisteredCanLogIn`,
which fails (section 4): the spelling alone is what loses an account.

**AiServiceProofs** - for any threads, names, texts, replies of the geocoders and calls.

| theorem | property |
| --- | --- |
| `RulesFindADestination` | the rules read a destination in every text |
| `RulesReadAsMeant` | the rules read the three forms of `TextsReadAsMeant` as the ends they name |
| `TextsStayReadAsMeant` | `TextsReadAsMeant` |
| `ServiceBehindGateway` | the service behind the gateway implements the service alone |
| `GatewayTyped` | `GatewayTypeOK` |
| `PlacesStayOfTheirNames` | `PlacesAreOfTheirNames` |
| `CairoStaysPreferred` | `CairoPreferred` |
| `RememberedStaysLocated` | `RememberedIsLocated` |
| `OneVerdictForAll` | `OneVerdict` |

`AiInv` says that the cache, the place each thread holds and the replies sent are
`Good`: a place is good for a name if some service says it of that name, and lies in
Cairo if all of them say so. Between its look at the cache and its write a thread
carries a verdict that other threads do not see; it is good by itself, so the order
of the writes does not matter, and what was in the cache when the request came
(`remembered`) stays in it, so nothing a failing thread does hides it. That a success of
the AI service always has a destination needs the rules: `RulesFindADestination`
goes through all their expressions, which is why `TextRules` writes them without
recursion. `RulesReadAsMeant` goes through them once more, for origins and
destinations of any plain words: for each of the forms, openings and pleases, the first
expression that matches splits the text where it is meant to be split. `GatewayInv` adds the lock: who makes the client holds it, alone, and
no client was made before; every verdict told is that of `client`. Assumptions: those
of the modules, among them `ReplyAssumption` (replies of the geocoders are lists of places)
and `WordAssumption` (what the expressions treat as keywords are words).

Every invariant and every action property that a run checks is stated by a theorem. What the
theorems assume are the modules' own `ASSUME`s; among them, `StopAssumption`: the
stops are finitely many; `InfAssumption`: the number that stands for
infinity is more than the longest direct walk takes, as the code's is;
`LabelAssumption`: the values of fields, ratings among them, are a finite choice, and not empty. Out of the
prover's reach, and left to TLC, is liveness under fairness: `Termination`,
`Served`, `CallersGoOn`.

## 6. What is not modelled, and why

- Reading CSV lines, the fallback to older file names, and the legacy single-route
  fields of a reply: formats, and fields that no caller reads while options are
  sent.
- Latencies, summaries, metadata and wording of responses and rows.
- The metadata view, which answers constants, and the database check of the
  health view. The stops near a point and the list of all lines: plain reads.
- Averages, days, growth, top users and long walks of the analytics pages, and the
  columns of the generic query: arithmetic of the database over rows whose
  selection is modelled.
- The registry and the client of the routing engine: made like those of the AI
  service, by the same code with other names.
- Tokens, password hashing and strength, permissions other than "is an admin".
- The language model: its weights are not in the repository. Its training and
  evaluation scripts likewise.
- Migrations, demo data, schemas, settings, deployment, generated code.

## 7. Plan

Order of work: the search first, since every answer comes from it; then the
protocol around it; then the services beside it.

Done: `SpatialGrid`, `StopLookup`, `TransitGraph`, `Pathfinder`, `RouteQuality`,
`RouteOptions`, `RouteSelection`, `RouteOrchestrator`, `TextRules`, `AiService`,
`AiGateway`, `Accounts`, `UserData`, `AdminReports`, `RouteService`, `RouteAnalytics`,
`RouteReports`, `TransitData`, `RouteDrawing`. What is
left of the code holds no state and makes no decision that a property could be about (section 6).

Done, proofs: all safety properties that the runs check (section 5), in
`PathfinderProofs`, `RouteSelectionProofs`, `RouteQualityProofs`,
`StopLookupProofs`, `RouteOrchestratorProofs`, `AiServiceProofs` and
`UserDataProofs`, over the lemmas of `FiniteSums`.

Left: liveness, which is model-checked only. Should the code change, the runs of
section 4 are the ones to look at first: a fix there turns a counterexample
into a property to prove.

## 8. Running the checks

In this directory:

```
tlc -workers 2 -config MCTransitData.cfg MCTransitData
tlc -workers 2 -config MCRouteAnalytics.cfg MCRouteAnalytics
tlc -workers 2 -config MCUserData.cfg MCUserData
tlc -workers 2 -config MCAiGateway.cfg MCAiGateway
tlapm FiniteSums.tla
tlapm StopLookupProofs.tla
tlapm PathfinderProofs.tla
tlapm RouteSelectionProofs.tla
tlapm RouteQualityProofs.tla
tlapm RouteOrchestratorProofs.tla
tlapm AiServiceProofs.tla
tlapm UserDataProofs.tla
```

The longest run takes a little over two minutes; each proof from one to five minutes, from
nothing.
