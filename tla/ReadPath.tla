------------------------------ MODULE ReadPath ------------------------------
(***************************************************************************)
(* The reads of a battle report through both caches: the derived cache     *)
(* (DerivedCache) and, from inside its computations, the participants      *)
(* cache (OffBrCache).  A composition or pilot timeline holds the lock of  *)
(* its derived key while it waits for the lock of the report; the sides    *)
(* list asks the participants cache directly.  The composition also reads  *)
(* the side overrides before it asks the derived cache                     *)
(* (src/app/api/fleet.py, get_composition).                                *)
(*                                                                         *)
(* One report is enough: nothing of one report is read for another.        *)
(***************************************************************************)
EXTENDS DerivedCache

CONSTANTS
    Battle,      \* the report
    Composition, \* the derived keys whose requests read overrides beforehand
    Asks         \* bound: who asks for what (keys, or the "sides" list)

ASSUME ReadPathAssumption == Composition \subseteq Key

VARIABLES
    asks,      \* what each request asks for
    sides,     \* commits to the side overrides or the roster
    sidesSeen, \* those of them that a bump covered: history
    held,      \* what a request read beforehand: nothing, or these as of a commit
    stored,    \* what each entry was computed with: sides and participants
    \* the participants cache
    obDue, obDropped, obEntry, obOrder, obLockOf, obPc, obBr, obLock, obVal

OB == INSTANCE OffBrCache WITH
        BR <- {Battle}, Capacity <- 1,
        due <- obDue, dropped <- obDropped, entry <- obEntry, order <- obOrder,
        lockOf <- obLockOf, pc <- obPc, br <- obBr, lock <- obLock, val <- obVal

ownVars == <<asks, sides, sidesSeen, held, stored>>
obCacheVars == <<obDropped, obEntry, obOrder, obLockOf, obPc, obBr, obLock, obVal>>
obVars == <<obDue, obCacheVars>>
allVars == <<vars, ownVars, obVars>>

ReadInit ==
    /\ Init /\ OB!Init
    /\ asks \in Asks
    /\ sides = 0 /\ sidesSeen = 0
    /\ held = [r \in Reader |-> {}]
    /\ stored = [k \in Key |-> [sides |-> 0, participants |-> 0]]

-----------------------------------------------------------------------------
(* Writers.                                                                *)

\* The commit of an ingest, a participant edit (the report's participants) or
\* of an upload, a name resolution, a deleted log (everybody's).
WriteParticipants(what) == CommitWrite /\ OB!CommitWrite(what) /\ UNCHANGED ownVars

\* bump_derived()
BumpAll ==
    /\ Bump
    /\ sidesSeen' = sides
    /\ UNCHANGED <<asks, sides, held, stored>>

\* Mutant: the participants of the report are left as they are.
FinishEditBumpOnly ==
    /\ BumpAll
    /\ OB!InvalidateNothing(Battle)

\* ... which then bumps and invalidates in one step of the event loop,
FinishEdit == BumpAll /\ OB!Invalidate(Battle)

\* ... or bumps and clears.
FinishUpload == BumpAll /\ OB!Clear

\* set_side: it only bumps.
WriteSides ==
    /\ CommitWrite
    /\ sides' = sides + 1
    /\ UNCHANGED <<asks, sidesSeen, held, stored, obVars>>

FinishSides ==
    /\ unbumped > Cardinality(obDue)
    /\ BumpAll
    /\ UNCHANGED obVars

\* RosterStore._set_state: the bump and the new roster are one step.
SetRoster ==
    /\ data < MaxCommits
    /\ data' = data + 1
    /\ version' = version + 1
    /\ bumped' = data + 1
    /\ sides' = sides + 1
    /\ sidesSeen' = sides + 1
    /\ UNCHANGED <<unbumped, cacheVars, readVars, asks, held, stored, obVars>>

-----------------------------------------------------------------------------
(* Readers.                                                                *)

InSides(r) == pc[r] = "idle" /\ obPc[r] # "idle"

\* get_composition: the roster and load_overrides, before the derived cache.
LoadOverrides(r) ==
    /\ asks[r] \intersect Composition # {}
    /\ pc[r] = "idle" /\ ~InSides(r) /\ held[r] = {}
    /\ held' = [held EXCEPT ![r] = {sides}]
    /\ UNCHANGED <<vars, asks, sides, sidesSeen, stored, obVars>>

\* The derived cache is asked for k; an answer at once ends the request.
AskDerived(r, k) ==
    /\ ~InSides(r)
    /\ k \in asks[r]
    /\ k \in Composition <=> held[r] # {}
    /\ Get(r, k)
    /\ held' = IF pc'[r] = "done" THEN [held EXCEPT ![r] = {}] ELSE held
    /\ UNCHANGED <<asks, sides, sidesSeen, stored, obVars>>

LockDerived(r) ==
    /\ Acquire(r)
    /\ held' = IF pc'[r] = "done" THEN [held EXCEPT ![r] = {}] ELSE held
    /\ UNCHANGED <<asks, sides, sidesSeen, stored, obVars>>

\* The first query of the computation.
BeginCompute(r) == Compute(r) /\ UNCHANGED <<ownVars, obVars>>

\* The participants cache is asked, by a computation or by the sides list.
AskParticipants(r) ==
    /\ \/ pc[r] = "computed"
       \/ "sides" \in asks[r] /\ pc[r] = "idle" /\ held[r] = {}
    /\ obPc[r] = "idle"
    /\ OB!Get(r, Battle)
    /\ UNCHANGED <<vars, ownVars>>

ParticipantsStep(r) ==
    /\ OB!Acquire(r) \/ OB!Compute(r) \/ OB!Store(r)
    /\ UNCHANGED <<vars, ownVars>>

\* The list of participants is used, and let go.
Return(r) ==
    /\ obPc[r] = "done"
    /\ obPc' = [obPc EXCEPT ![r] = "idle"]
    /\ obVal' = [obVal EXCEPT ![r] = 0]
    /\ UNCHANGED <<obDue, obDropped, obEntry, obOrder, obLockOf, obBr, obLock>>

AnswerSides(r) == pc[r] # "computed" /\ Return(r) /\ UNCHANGED <<vars, ownVars>>

\* The computation ends and its result is stored.
FinishCompute(r) ==
    /\ Store(r)
    /\ stored' = [stored EXCEPT ![key[r]] =
                    [sides |-> IF key[r] \in Composition THEN CHOOSE n \in held[r] : TRUE
                                                         ELSE sides,
                     participants |-> obVal[r]]]
    /\ held' = [held EXCEPT ![r] = {}]
    /\ Return(r)
    /\ UNCHANGED <<asks, sides, sidesSeen>>

\* Mutant: the lock of the derived key survives a failure of the participants.
ParticipantsFailLocked(r) ==
    /\ OB!ComputeFails(r)
    /\ IF pc[r] = "computed"
         THEN /\ Reset(r)
              /\ ver' = [ver EXCEPT ![r] = 0]
              /\ held' = [held EXCEPT ![r] = {}]
              /\ UNCHANGED <<writeVars, cacheVars, lock, asks, sides, sidesSeen, stored>>
         ELSE UNCHANGED <<vars, ownVars>>

\* The participants cannot be computed: the exception releases both locks.
ParticipantsFail(r) ==
    /\ OB!ComputeFails(r)
    /\ IF pc[r] = "computed"
         THEN /\ Reset(r)
              /\ lock' = [lock EXCEPT ![r] = 0]
              /\ ver' = [ver EXCEPT ![r] = 0]
              /\ held' = [held EXCEPT ![r] = {}]
              /\ UNCHANGED <<writeVars, cacheVars, asks, sides, sidesSeen, stored>>
         ELSE UNCHANGED <<vars, ownVars>>

ComputationFails(r) ==
    /\ ComputeFails(r)
    /\ held' = [held EXCEPT ![r] = {}]
    /\ UNCHANGED <<asks, sides, sidesSeen, stored, obVars>>

LeaveDerived(r) == Leave(r) /\ UNCHANGED <<ownVars, obVars>>

ExpireDerived(k) ==
    /\ Expire(k)
    /\ stored' = [stored EXCEPT ![k] = [sides |-> 0, participants |-> 0]]
    /\ UNCHANGED <<asks, sides, sidesSeen, held, obVars>>

\* Mutant: the list of participants does not age.
ExpireNever == FALSE /\ UNCHANGED allVars

ExpireParticipants == OB!Expire(Battle) /\ UNCHANGED <<vars, ownVars>>

Finish == FinishEdit \/ FinishUpload \/ FinishSides

\* A computation goes on.
Proceed(r) ==
    \/ LockDerived(r) \/ BeginCompute(r) \/ ComputationFails(r)
    \/ pc[r] = "computed" /\ AskParticipants(r)
    \/ ParticipantsStep(r) \/ FinishCompute(r)

ReadNext ==
    \/ \E what \in {Battle, OB!Everything} : WriteParticipants(what)
    \/ WriteSides \/ SetRoster
    \/ FinishEdit \/ FinishUpload \/ FinishSides
    \/ \E r \in Reader : \/ LoadOverrides(r) \/ \E k \in Key : AskDerived(r, k)
                         \/ LockDerived(r) \/ BeginCompute(r) \/ AskParticipants(r)
                         \/ ParticipantsStep(r) \/ FinishCompute(r)
                         \/ ParticipantsFail(r) \/ ComputationFails(r)
                         \/ AnswerSides(r) \/ LeaveDerived(r)
    \/ \E k \in Key : ExpireDerived(k)
    \/ ExpireParticipants

\* A writer that committed goes on to its bump in the next step of its own
\* request; time passes; queries end, and asyncio.Lock wakes its waiters in the
\* order they came, so that a request that can go on again and again does.
ReadFairness ==
    /\ WF_allVars(Finish)
    /\ \A k \in Key : WF_allVars(ExpireDerived(k))
    /\ WF_allVars(ExpireParticipants)
    /\ \A r \in Reader : SF_allVars(Proceed(r))

ReadSpec == ReadInit /\ [][ReadNext]_allVars /\ ReadFairness

-----------------------------------------------------------------------------
ParticipantsStale == obEntry[Battle].live /\ obEntry[Battle].val < obDropped[Battle]

\* "We invalidate it explicitly when ingest reaches ready": the one way the
\* participants of a report turn stale while they are served is a computation
\* that was under way when they were invalidated, and then stored them.
OnlyOverlapsTurnStale ==
    [][ParticipantsStale' /\ ~ParticipantsStale =>
         \E r \in Reader : OB!Store(r) /\ obVal[r] < obDropped[Battle]]_allVars

\* What the entry of k was computed with is as new as what has been written.
UpToDate(k) ==
    /\ entry[k].val = data
    /\ stored[k].sides = sides
    /\ stored[k].participants >= obDropped[Battle]

\* "A TTL backstops ...": however the bumps, the invalidations and the
\* computations of both caches overlapped, once the writes stop every answer
\* taken from the derived cache is up to date from some moment on, its
\* participants and its overrides included.
AnswersCatchUp == <>[](\A k \in Key : Fresh(k) => UpToDate(k))

-----------------------------------------------------------------------------
(* What the repository says and the code does not do.                      *)

\* "Any write that can change a derived result calls bump_derived() and every
\* cached entry becomes stale at once": no fresh composition was computed with
\* side overrides older than a bump.
CompositionsSeeBumps ==
    \A k \in Composition : Fresh(k) => stored[k].sides >= sidesSeen
=============================================================================
