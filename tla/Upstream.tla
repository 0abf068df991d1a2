------------------------------ MODULE Upstream ------------------------------
(***************************************************************************)
(* What a refresh of a report asks of zKillboard and ESI, and what it      *)
(* keeps of the answers: the hourly window search and its retries          *)
(* (src/app/ingest/sources/zkillboard.py), killmails with their file cache *)
(* and names in batches (src/app/esi/client.py), the upserts               *)
(* (src/app/ingest/persist.py), tickers and ISK values (tickers.py,        *)
(* zkb_value.py).  IngestPipeline has the phases around them.              *)
(*                                                                         *)
(* An upstream fails at most MaxFaults times; a fault is an answer.  The   *)
(* order in which killmails arrive, affiliations and amounts are left out. *)
(***************************************************************************)
EXTENDS Naturals, FiniteSets, SequencesExt

CONSTANTS
    Killmail,       \* killmails of the report's window source
    HourOf,         \* the hour, from the window's first, a killmail is listed under
    InWindow,       \* those whose time is in the window, or cannot be read
    LastHour,       \* the hour of the window's end
    MaxHours,       \* MAX_WINDOW_HOURS, which the API holds windows to
    Priced,         \* killmails listed with their ISK value
    ENT,            \* ids of entities
    Nameless,       \* those ESI does not know: one fails the batch it is in
    Placed,         \* solar systems and types; the rest are pilots and groups
    Groups,         \* corporations and alliances, which have tickers
    EntOf,          \* the entities on each killmail
    Batch,          \* ids in a request for names (1000)
    Attempts,       \* _MAX_ATTEMPTS, _KILLMAIL_ATTEMPTS, _LIMIT_ATTEMPTS
    MaxConcurrency, \* killmails under way at once
    MaxFaults,      \* bound: answers that are failures
    MaxDeaths       \* bound: deaths of the worker

ASSUME UpstreamAssumption ==
    /\ IsFiniteSet(Killmail) /\ IsFiniteSet(ENT)
    /\ InWindow \subseteq Killmail /\ Nameless \subseteq ENT
    /\ Groups \intersect Placed = {} /\ Groups \union Placed \subseteq ENT
    /\ MaxHours \in Nat /\ LastHour \in 0..MaxHours
    /\ HourOf \in [Killmail -> 0..LastHour] /\ Priced \subseteq Killmail
    /\ EntOf \in [Killmail -> SUBSET ENT]
    /\ Batch \in Nat \ {0} /\ Attempts \in Nat \ {0} /\ MaxConcurrency \in Nat \ {0}
    /\ MaxFaults \in Nat /\ MaxDeaths \in Nat

VARIABLES
    at,         \* the phase of the refresh under way
    hour, tries,\* the window search: its anchor, and requests for it that failed
    listed,     \* killmails found, whose refs the refresh works from
    fetch,      \* the task of each killmail
    batches,    \* batches of ids whose names are to be asked for
    lost,       \* history: ids in a batch that failed for another reason than a 404
    nameCache,  \* EsiClient._name_cache
    file,       \* <km_id>.json in the cache directory: "none", "torn" or "whole"
    row,        \* Killmail rows: "none", "noValue" or "valued"
    name,       \* names in the entity tables: "none", "null", "id" or "named"
    ticker,     \* entities with a ticker
    faults, deaths,
    before      \* history: faults before the refresh

search == <<hour, tries, listed>>
names == <<batches, lost, nameCache>>
db == <<row, name, ticker>>
refreshVars == <<at, search, fetch, names, file, db, faults, deaths, before>>

NoTask == [st |-> "waiting", tries |-> 0, limits |-> 0]

RefreshInit ==
    /\ at = "idle"
    /\ hour = 0 /\ tries = 0 /\ listed = {}
    /\ fetch = [k \in Killmail |-> NoTask]
    /\ batches = {} /\ lost = {} /\ nameCache = {}
    /\ file = [k \in Killmail |-> "none"]
    /\ row = [k \in Killmail |-> "none"]
    /\ name = [e \in ENT |-> "none"]
    /\ ticker = {}
    /\ faults = 0 /\ deaths = 0 /\ before = 0

Fault == faults < MaxFaults /\ faults' = faults + 1

\* "Refresh this battle report to retry": someone does, whenever it has ended.
Refresh ==
    /\ at = "idle"
    /\ at' = "search"
    /\ hour' = 0 /\ tries' = 0 /\ listed' = {}
    /\ fetch' = [k \in Killmail |-> NoTask]
    /\ lost' = {} /\ before' = faults
    /\ UNCHANGED <<batches, nameCache, file, db, faults, deaths>>

-----------------------------------------------------------------------------
(* fetch_window_killmails: one request per hour, each with its retries.    *)

\* _MAX_WINDOW_ANCHORS: both ends of the longest window.
MaxAnchors == MaxHours + 1
MoreHours == hour <= LastHour /\ hour < MaxAnchors

\* BrUnavailable: the source fails, and the refresh with its only source.
WindowUnavailable ==
    /\ at' = "idle"
    /\ UNCHANGED search

SearchAnswers ==
    /\ at = "search" /\ MoreHours
    /\ listed' = listed \union {k \in InWindow : HourOf[k] = hour}
    /\ hour' = hour + 1 /\ tries' = 0
    /\ UNCHANGED <<at, fetch, names, file, db, faults, deaths, before>>

\* 429, 5xx and network errors are tried again, other answers are not.
SearchFails ==
    /\ at = "search" /\ MoreHours
    /\ Fault
    /\ \/ /\ tries + 1 < Attempts
          /\ tries' = tries + 1
          /\ UNCHANGED <<at, hour, listed>>
       \/ WindowUnavailable
    /\ UNCHANGED <<fetch, names, file, db, deaths, before>>

SearchEnds ==
    /\ at = "search" /\ ~MoreHours
    /\ at' = "fetch"
    /\ UNCHANGED <<search, fetch, names, file, db, faults, deaths, before>>

-----------------------------------------------------------------------------
(* fetch_killmails: tasks under a semaphore, none of which fails another.  *)

Under(st) == {k \in listed : fetch[k].st = st}
Got == Under("got")

\* The semaphore is taken; a cached file needs no request, one that is not JSON
\* fails the task.
FetchStart(k) ==
    /\ at = "fetch" /\ k \in Under("waiting")
    /\ Cardinality(Under("asking")) < MaxConcurrency
    /\ fetch' = [fetch EXCEPT ![k].st =
                  CASE file[k] = "none" -> "asking" [] file[k] = "whole" -> "got"
                    [] file[k] = "torn" -> "skipped"]
    /\ UNCHANGED <<at, search, names, file, db, faults, deaths, before>>

FetchAnswers(k) ==
    /\ at = "fetch" /\ k \in Under("asking")
    /\ file' = [file EXCEPT ![k] = "whole"]
    /\ fetch' = [fetch EXCEPT ![k].st = "got"]
    /\ UNCHANGED <<at, search, names, db, faults, deaths, before>>

\* 420 / 429: the wait, then the same request, up to _LIMIT_ATTEMPTS times.
FetchLimited(k) ==
    /\ at = "fetch" /\ k \in Under("asking")
    /\ Fault
    /\ fetch' = IF fetch[k].limits + 1 < Attempts
                 THEN [fetch EXCEPT ![k].limits = @ + 1]
                 ELSE [fetch EXCEPT ![k].st = "skipped", ![k].limits = @ + 1]
    /\ UNCHANGED <<at, search, names, file, db, deaths, before>>

\* Mutant: a network error is final.
AfterBlipNoRetry(t) == [t EXCEPT !.st = "skipped"]

\* The task after a network error or a 5xx.
AfterBlip(t) ==
    IF t.tries + 1 < Attempts
      THEN [t EXCEPT !.tries = @ + 1, !.limits = 0]
      ELSE [t EXCEPT !.st = "skipped", !.tries = @ + 1]

FetchBlips(k) ==
    /\ at = "fetch" /\ k \in Under("asking")
    /\ Fault
    /\ fetch' = [fetch EXCEPT ![k] = AfterBlip(@)]
    /\ UNCHANGED <<at, search, names, file, db, deaths, before>>

\* Other 4xx answers are final.
FetchRefused(k) ==
    /\ at = "fetch" /\ k \in Under("asking")
    /\ Fault
    /\ fetch' = [fetch EXCEPT ![k].st = "refused"]
    /\ UNCHANGED <<at, search, names, file, db, deaths, before>>

\* The worker is killed while it writes the file: created, not yet filled.
CrashTearsFile(k) ==
    /\ at = "fetch" /\ k \in Under("asking")
    /\ file' = [file EXCEPT ![k] = "torn"]
    /\ deaths < MaxDeaths /\ deaths' = deaths + 1
    /\ at' = "idle" /\ batches' = {} /\ nameCache' = {}
    /\ UNCHANGED <<search, fetch, lost, db, faults, before>>

\* resolve_names: ids not cached yet, in batches.
FetchEnds ==
    /\ at = "fetch" /\ Under("waiting") \union Under("asking") = {}
    /\ at' = "names"
    /\ \E ids \in SetToSeqs(UNION {EntOf[k] : k \in Got} \ nameCache) :
         batches' = {SubSeq(ids, i, IF i + Batch - 1 < Len(ids) THEN i + Batch - 1 ELSE Len(ids)) :
                       i \in {j \in 1..Len(ids) : (j - 1) % Batch = 0}}
    /\ UNCHANGED <<search, fetch, lost, nameCache, file, db, faults, deaths, before>>

-----------------------------------------------------------------------------
(* _resolve_chunk.                                                         *)

\* Mutant: the first half only.
FirstHalf(b) == {SubSeq(b, 1, Len(b) \div 2)}

Halves(b) ==
    LET mid == Len(b) \div 2 IN {SubSeq(b, 1, mid), SubSeq(b, mid + 1, Len(b))}

\* A 404 splits a batch in two, down to the id at fault.
NamesAnswered(b) ==
    /\ at = "names" /\ b \in batches
    /\ IF ToSet(b) \intersect Nameless = {}
         THEN /\ nameCache' = nameCache \union ToSet(b)
              /\ batches' = batches \ {b}
         ELSE /\ batches' = (batches \ {b}) \union (IF Len(b) > 1 THEN Halves(b) ELSE {})
              /\ UNCHANGED nameCache
    /\ UNCHANGED <<at, search, fetch, lost, file, db, faults, deaths, before>>

\* Any other failure gives the batch up.
NamesFail(b) ==
    /\ at = "names" /\ b \in batches
    /\ Fault
    /\ batches' = batches \ {b}
    /\ lost' = lost \union ToSet(b)
    /\ UNCHANGED <<at, search, fetch, nameCache, file, db, deaths, before>>

NamesEnd ==
    /\ at = "names" /\ batches = {}
    /\ at' = "persist"
    /\ UNCHANGED <<search, fetch, names, file, db, faults, deaths, before>>

-----------------------------------------------------------------------------
(* persist_killmails and what comes after it, each one transaction.        *)

Asked == UNION {EntOf[k] : k \in Got}
Resolved == Asked \intersect nameCache

\* ON CONFLICT DO UPDATE SET name = coalesce(excluded.name, name)
UpsertName(e) ==
    IF e \in Resolved THEN "named" ELSE IF name[e] = "none" THEN "null" ELSE name[e]

\* ON CONFLICT DO NOTHING, of a row that is called by its id for want of a name.
InsertName(e) ==
    CASE name[e] # "none" -> name[e] [] e \in Resolved -> "named" [] OTHER -> "id"

\* Priced killmails have their value from the source, whether they are inserted
\* or were there without one.
PersistKillmails ==
    /\ at = "persist"
    /\ name' = [e \in ENT |->
                  CASE e \notin Asked -> name[e]
                    [] e \in Asked \intersect Placed -> InsertName(e)
                    [] OTHER -> UpsertName(e)]
    /\ row' = [k \in Killmail |->
                 CASE k \notin Got \/ row[k] = "valued" -> row[k]
                   [] k \in Got /\ row[k] # "valued" ->
                        IF k \in Priced THEN "valued" ELSE "noValue"]
    /\ at' = "tickers"
    /\ UNCHANGED <<search, fetch, names, file, ticker, faults, deaths, before>>

\* fill_missing_tickers: one request each, of which some fail.
FillTickers ==
    /\ at = "tickers"
    /\ LET missing == {e \in Resolved \intersect Groups : e \notin ticker} IN
       \E failed \in SUBSET missing :
         /\ faults + Cardinality(failed) <= MaxFaults
         /\ faults' = faults + Cardinality(failed)
         /\ ticker' = ticker \union (missing \ failed)
    /\ at' = "values"
    /\ UNCHANGED <<search, fetch, names, file, row, name, deaths, before>>

\* The report's killmails without a value.
MissingValue == {k \in Killmail : row[k] = "noValue"}

BackfillValues ==
    /\ at = "values"
    /\ \E failed \in SUBSET MissingValue :
         /\ faults + Cardinality(failed) <= MaxFaults
         /\ faults' = faults + Cardinality(failed)
         /\ row' = [k \in Killmail |-> IF k \in MissingValue \ failed THEN "valued" ELSE row[k]]
    /\ at' = "idle"
    /\ UNCHANGED <<search, fetch, names, file, name, ticker, deaths, before>>

\* The worker dies; what is committed, and the files, stay.
WorkerDies ==
    /\ at # "idle"
    /\ deaths < MaxDeaths /\ deaths' = deaths + 1
    /\ at' = "idle" /\ batches' = {} /\ nameCache' = {}
    /\ UNCHANGED <<search, fetch, lost, file, db, faults, before>>

RefreshStep ==
    \/ Refresh \/ SearchAnswers \/ SearchEnds
    \/ \E k \in Killmail : FetchStart(k) \/ FetchAnswers(k)
    \/ FetchEnds
    \/ \E b \in batches : NamesAnswered(b)
    \/ NamesEnd \/ PersistKillmails \/ FillTickers \/ BackfillValues

RefreshNext ==
    \/ RefreshStep
    \/ SearchFails
    \/ \E k \in Killmail : FetchLimited(k) \/ FetchBlips(k) \/ FetchRefused(k) \/ CrashTearsFile(k)
    \/ \E b \in batches : NamesFail(b)
    \/ WorkerDies

RefreshSpec == RefreshInit /\ [][RefreshNext]_refreshVars

\* The event loop runs every task, upstreams answer once their faults are spent,
\* and a report that is incomplete is refreshed until it is not.
FairRefresh == RefreshSpec /\ WF_refreshVars(RefreshStep)

-----------------------------------------------------------------------------
\* "An hour that cannot be fetched raises BrUnavailable rather than being
\* skipped, so a window is never silently missing part of the fight"
\* (fetch_window_killmails), up to both ends of the longest window.
WindowsAreWhole == at \notin {"idle", "search"} => listed = InWindow

\* "Retry transient failures so one blip does not leave a hole in the battle
\* report" (fetch_killmail): with fewer faults in a refresh than one request may
\* meet, no killmail of a whole window is given up but those whose file a crash
\* has torn.
BlipsLeaveNoHole ==
    /\ WindowsAreWhole
    /\ at \notin {"idle", "search", "fetch"} /\ faults - before < Attempts =>
         \A k \in Under("skipped") : file[k] = "torn"

\* Of a killmail, all there is to know; the name of a system or type is what it
\* was first inserted with, if only its id.
Complete(k) ==
    /\ row[k] = "valued"
    /\ \A e \in EntOf[k] \ Nameless :
         /\ name[e] = "named" \/ (e \in Placed /\ name[e] = "id")
         /\ e \in Groups => e \in ticker

\* "Refresh this battle report to retry" (run_ingest): once the upstreams answer,
\* refreshes complete the report, whatever had failed, and however often the
\* worker was killed; but for the killmails with a torn file.
EverythingArrives == <>[](\A k \in InWindow : Complete(k) \/ file[k] = "torn")

-----------------------------------------------------------------------------
(* What the repository says and the code does not do.                      *)

\* "Only N of M killmails could be fetched from ESI; totals are incomplete.
\* Refresh this battle report to retry" (pipeline.py).
RefreshesFillHoles == <>[](\A k \in InWindow : row[k] # "none")
=============================================================================
