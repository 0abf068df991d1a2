--------------------------- MODULE ReadPathProofs ---------------------------
(***************************************************************************)
(* For every number of requests, keys, commits and any capacity: no fresh  *)
(* entry of the derived cache predates a bump, and no request is answered  *)
(* with less than was bumped when it came in, in the cache alone and with  *)
(* computations that ask the participants cache and fail with it; and the  *)
(* participants of a report turn stale by one overlap only.                *)
(***************************************************************************)
EXTENDS ReadPath, TLAPS

\* The types the argument needs.  Locks and the eviction order play no part in
\* it: the version alone makes stale computations harmless.
Types ==
    /\ data \in Nat /\ bumped \in Nat /\ version \in Nat
    /\ entry \in [Key -> [ver : Nat, val : Nat]]
    /\ pc \in [Reader -> Pc]
    /\ key \in [Reader -> Key]
    /\ ver \in [Reader -> Nat] /\ val \in [Reader -> Nat] /\ since \in [Reader -> Nat]

\* Bumps cover commits, and the only version that can be noted is one that was.
Clock ==
    /\ bumped <= data
    /\ version >= 1
    /\ \A k \in Key : entry[k].ver <= version
    /\ \A r \in Reader : ver[r] <= version /\ since[r] <= bumped

\* A computation that would be stored as fresh has seen every bump: had one
\* come after its version was noted, the version would have moved on.
ComputedSeeBumps ==
    \A r \in Reader : pc[r] = "computed" =>
        /\ ver[r] = version => val[r] >= bumped
        /\ val[r] >= since[r]

CacheInv == Types /\ Clock /\ FreshEntriesSeeBumps /\ ComputedSeeBumps /\ AnswersSeeBumps

LEMMA InitInv == Init => CacheInv
<1>1. AnyKey \in Key
  BY DerivedCacheAssumption DEF AnyKey
<1> QED
  BY <1>1
  DEF Init, CacheInv, Types, Clock, FreshEntriesSeeBumps, ComputedSeeBumps,
      AnswersSeeBumps, Fresh, NoEntry, Pc

\* Whatever Store evicts, each entry is the old one, the new one or none.
LEMMA StoreFacts ==
    ASSUME Types, NEW r \in Reader, Store(r)
    PROVE  /\ entry' \in [Key -> [ver : Nat, val : Nat]]
           /\ \A k \in Key : \/ entry'[k] = entry[k]
                             \/ entry'[k] = NoEntry
                             \/ entry'[k] = [ver |-> ver[r], val |-> val[r]]
<1> DEFINE new == [ver |-> ver[r], val |-> val[r]]
           kept == [entry EXCEPT ![key[r]] = new]
           oldest == Head(Touch(key[r]))
<1>1. /\ new \in [ver : Nat, val : Nat] /\ NoEntry \in [ver : Nat, val : Nat]
      /\ entry \in [Key -> [ver : Nat, val : Nat]] /\ key[r] \in Key
  BY DEF Types, NoEntry
<1>2. entry' = kept \/ entry' = [kept EXCEPT ![oldest] = NoEntry]
  BY DEF Store
<1> HIDE DEF new, oldest
<1>3. /\ entry' \in [Key -> [ver : Nat, val : Nat]]
      /\ \A k \in Key : entry'[k] = entry[k] \/ entry'[k] = NoEntry \/ entry'[k] = new
  <2>1. /\ kept \in [Key -> [ver : Nat, val : Nat]]
        /\ \A k \in Key : kept[k] = entry[k] \/ kept[k] = new
    BY <1>1
  <2> HIDE DEF kept
  <2> QED BY <1>1, <1>2, <2>1
<1> QED BY <1>3 DEF new

LEMMA StepInv == CacheInv /\ [Next]_vars => CacheInv'
<1> SUFFICES ASSUME CacheInv, [Next]_vars PROVE CacheInv'
  OBVIOUS
<1> USE DEF CacheInv, Types, Clock, FreshEntriesSeeBumps, ComputedSeeBumps,
            AnswersSeeBumps, Fresh, Pc, writeVars, cacheVars, readVars
<1>1. CASE CommitWrite
  BY <1>1 DEF CommitWrite
<1>2. CASE Bump
  BY <1>2 DEF Bump
<1>3. ASSUME NEW r \in Reader, NEW k \in Key, Get(r, k) PROVE CacheInv'
  <2>1. CASE Hit(r, k)
    BY <1>3, <2>1 DEF Get, Hit
  <2>2. CASE ~Fresh(k)
    <3>1. /\ pc' = [pc EXCEPT ![r] = "waiting"]
          /\ key' = [key EXCEPT ![r] = k]
          /\ since' = [since EXCEPT ![r] = bumped]
          /\ val' = [val EXCEPT ![r] = 0]
          /\ UNCHANGED <<writeVars, entry, ver>>
      BY <1>3, <2>2 DEF Get, Hit
    <3> QED BY <3>1
  <2> QED BY <1>3, <2>1, <2>2 DEF Get
<1>4. ASSUME NEW r \in Reader, Acquire(r) PROVE CacheInv'
  <2>1. CASE Hit(r, key[r])
    <3>1. /\ key[r] \in Key /\ entry[key[r]].val \in Nat
          /\ entry[key[r]].val >= bumped /\ bumped >= since[r]
      BY <2>1 DEF Hit
    <3>2. /\ pc' = [pc EXCEPT ![r] = "done"]
          /\ val' = [val EXCEPT ![r] = entry[key[r]].val]
          /\ UNCHANGED <<writeVars, entry, key, since, ver>>
      BY <1>4, <2>1 DEF Acquire, Hit
    <3>3. \A q \in Reader : pc'[q] = "done" => val'[q] >= since'[q]
      BY <3>1, <3>2
    <3> QED BY <3>1, <3>2, <3>3
  <2>2. CASE ~Fresh(key[r])
    <3>1. /\ pc' = [pc EXCEPT ![r] = "computing"]
          /\ ver' = [ver EXCEPT ![r] = version]
          /\ UNCHANGED <<writeVars, entry, key, since, val>>
      BY <1>4, <2>2 DEF Acquire, Hit
    <3> QED BY <3>1
  <2> QED BY <1>4, <2>1, <2>2 DEF Acquire
<1>5. ASSUME NEW r \in Reader, Compute(r) PROVE CacheInv'
  BY <1>5 DEF Compute
<1>6. ASSUME NEW r \in Reader, Store(r) PROVE CacheInv'
  <2> DEFINE new == [ver |-> ver[r], val |-> val[r]]
  <2>1. /\ entry' \in [Key -> [ver : Nat, val : Nat]]
        /\ \A k \in Key : entry'[k] = entry[k] \/ entry'[k] = NoEntry \/ entry'[k] = new
    BY <1>6, StoreFacts
  <2>2. Answer(r)
    BY <1>6 DEF Store
  <2>3. /\ NoEntry.ver = 0 /\ new.ver = ver[r] /\ new.val = val[r]
        /\ ver[r] \in Nat /\ ver[r] <= version
        /\ ver[r] = version => val[r] >= bumped
    BY <2>2 DEF NoEntry, Answer
  <2> HIDE DEF new
  <2>4. /\ \A k \in Key : entry'[k].ver <= version
        /\ \A k \in Key : entry'[k].ver = version => entry'[k].val >= bumped
    BY <2>1, <2>3
  <2>5. Types' /\ ComputedSeeBumps' /\ AnswersSeeBumps'
    BY <2>1, <2>2 DEF Answer
  <2> QED BY <2>2, <2>4, <2>5 DEF Answer
<1>7. ASSUME NEW r \in Reader, ComputeFails(r) PROVE CacheInv'
  <2>1. AnyKey \in Key
    BY DerivedCacheAssumption DEF AnyKey
  <2> QED BY <1>7, <2>1 DEF ComputeFails, Reset
<1>8. ASSUME NEW k \in Key, Expire(k) PROVE CacheInv'
  BY <1>8 DEF Expire, NoEntry
<1>9. ASSUME NEW r \in Reader, Leave(r) PROVE CacheInv'
  <2>1. AnyKey \in Key
    BY DerivedCacheAssumption DEF AnyKey
  <2> QED BY <1>9, <2>1 DEF Leave, Reset
<1>10. CASE UNCHANGED vars
  BY <1>10 DEF vars
<1> QED BY <1>1, <1>2, <1>3, <1>4, <1>5, <1>6, <1>7, <1>8, <1>9, <1>10 DEF Next

\* A compute under way when a write is bumped is never served as fresh: bump()
\* makes every entry stale, the ones yet to be stored included.
THEOREM FreshEntries == Spec => []FreshEntriesSeeBumps
<1>1. CacheInv => FreshEntriesSeeBumps
  BY DEF CacheInv
<1> QED BY <1>1, InitInv, StepInv, PTL DEF Spec

\* Every answer of DerivedCache.get reflects all that was bumped before the
\* request, through hits, waits, evictions and failed computations.
THEOREM FreshAnswers == Spec => []AnswersSeeBumps
<1>1. CacheInv => AnswersSeeBumps
  BY DEF CacheInv
<1> QED BY <1>1, InitInv, StepInv, PTL DEF Spec

-----------------------------------------------------------------------------
(* Both caches.                                                            *)

\* What the participants cache holds, by type: its locks and the order of its
\* entries play no part either.
ParticipantsTypes ==
    /\ obEntry \in [{Battle} -> [live : BOOLEAN, val : Nat]]
    /\ obDropped \in [{Battle} -> Nat]
    /\ obBr \in [Reader -> {Battle}]
    /\ obVal \in [Reader -> Nat]

ReadInv == CacheInv /\ ParticipantsTypes

LEMMA ReadInitInv == ReadInit => ReadInv
<1> SUFFICES ASSUME ReadInit PROVE ReadInv
  OBVIOUS
<1>1. CacheInv
  BY InitInv DEF ReadInit
<1>2. (CHOOSE b \in {Battle} : TRUE) = Battle
  OBVIOUS
<1>3. ParticipantsTypes
  BY <1>2 DEF ReadInit, OB!Init, OB!NoEntry, ParticipantsTypes
<1> QED BY <1>1, <1>3 DEF ReadInv

\* A computation that the participants cache fails leaves the derived cache as
\* one that fails by itself.
LEMMA AbandonKeeps ==
    ASSUME CacheInv, NEW r \in Reader, Reset(r),
           ver' = [ver EXCEPT ![r] = 0], UNCHANGED <<writeVars, cacheVars>>
    PROVE  CacheInv'
<1>1. AnyKey \in Key
  BY DerivedCacheAssumption DEF AnyKey
<1> QED
  BY <1>1
  DEF Reset, CacheInv, Types, Clock, FreshEntriesSeeBumps, ComputedSeeBumps,
      AnswersSeeBumps, Fresh, Pc, writeVars, cacheVars

\* The roster's writer commits and bumps in one step.
LEMMA RosterKeeps ==
    ASSUME CacheInv, SetRoster PROVE CacheInv'
  BY DEF SetRoster, CacheInv, Types, Clock, FreshEntriesSeeBumps, ComputedSeeBumps,
         AnswersSeeBumps, Fresh, Pc, cacheVars, readVars

\* Every other step of a read or a write is one of the derived cache or leaves
\* it alone.
LEMMA ReadStepCache == CacheInv /\ [ReadNext]_allVars => CacheInv'
<1> SUFFICES ASSUME CacheInv, [ReadNext]_allVars PROVE CacheInv'
  OBVIOUS
<1>1. ASSUME NEW what, WriteParticipants(what) PROVE CacheInv'
  BY <1>1, StepInv DEF WriteParticipants, Next
<1>2. CASE WriteSides
  BY <1>2, StepInv DEF WriteSides, Next
<1>3. CASE SetRoster
  BY <1>3, RosterKeeps
<1>4. CASE FinishEdit \/ FinishUpload \/ FinishSides
  BY <1>4, StepInv DEF FinishEdit, FinishUpload, FinishSides, BumpAll, Next
<1>5. ASSUME NEW r \in Reader, NEW k \in Key, AskDerived(r, k) PROVE CacheInv'
  BY <1>5, StepInv DEF AskDerived, Next
<1>6. ASSUME NEW r \in Reader,
             LockDerived(r) \/ BeginCompute(r) \/ FinishCompute(r) \/
             ComputationFails(r) \/ LeaveDerived(r)
      PROVE CacheInv'
  BY <1>6, StepInv
  DEF LockDerived, BeginCompute, FinishCompute, ComputationFails, LeaveDerived, Next
<1>7. ASSUME NEW r \in Reader,
             LoadOverrides(r) \/ AskParticipants(r) \/ ParticipantsStep(r) \/
             AnswerSides(r)
      PROVE CacheInv'
  BY <1>7, StepInv DEF LoadOverrides, AskParticipants, ParticipantsStep, AnswerSides
<1>8. ASSUME NEW r \in Reader, ParticipantsFail(r) PROVE CacheInv'
  <2>1. CASE pc[r] = "computed"
    <3>1. /\ Reset(r) /\ ver' = [ver EXCEPT ![r] = 0]
          /\ UNCHANGED <<writeVars, cacheVars>>
      BY <1>8, <2>1 DEF ParticipantsFail
    <3> QED BY <3>1, AbandonKeeps
  <2>2. CASE pc[r] # "computed"
    BY <1>8, <2>2, StepInv DEF ParticipantsFail
  <2> QED BY <2>1, <2>2
<1>9. ASSUME NEW k \in Key, ExpireDerived(k) PROVE CacheInv'
  BY <1>9, StepInv DEF ExpireDerived, Next
<1>10. CASE ExpireParticipants
  BY <1>10, StepInv DEF ExpireParticipants
<1>11. CASE UNCHANGED allVars
  BY <1>11, StepInv DEF allVars
<1> QED
  BY <1>1, <1>2, <1>3, <1>4, <1>5, <1>6, <1>7, <1>8, <1>9, <1>10, <1>11 DEF ReadNext

\* Whatever Store evicts, the entry of the report is the new one or none.
LEMMA ParticipantsStoreFacts ==
    ASSUME ReadInv, NEW r \in Reader, OB!Store(r)
    PROVE  /\ ParticipantsTypes' /\ UNCHANGED obDropped
           /\ \/ obEntry'[Battle] = OB!NoEntry
              \/ obEntry'[Battle] = [live |-> TRUE, val |-> obVal[r]]
<1> DEFINE new == [live |-> TRUE, val |-> obVal[r]]
           kept == [obEntry EXCEPT ![obBr[r]] = new]
           oldest == Head(OB!Touch(obBr[r]))
<1>1. /\ obBr[r] = Battle /\ new \in [live : BOOLEAN, val : Nat]
      /\ OB!NoEntry \in [live : BOOLEAN, val : Nat]
  BY DEF ReadInv, ParticipantsTypes, OB!NoEntry
<1>2. obEntry' = kept \/ obEntry' = [kept EXCEPT ![oldest] = OB!NoEntry]
  BY DEF OB!Store
<1>3. UNCHANGED <<obDropped, obBr, obVal>>
  BY DEF OB!Store, OB!writeVars
<1> HIDE DEF new, oldest
<1>4. /\ kept \in [{Battle} -> [live : BOOLEAN, val : Nat]] /\ kept[Battle] = new
  BY <1>1 DEF ReadInv, ParticipantsTypes
<1> HIDE DEF kept
<1>5. /\ obEntry' \in [{Battle} -> [live : BOOLEAN, val : Nat]]
      /\ obEntry'[Battle] = OB!NoEntry \/ obEntry'[Battle] = new
  BY <1>1, <1>2, <1>4
<1> QED BY <1>3, <1>5 DEF ReadInv, ParticipantsTypes, new

\* A step keeps the types, and leaves the entry of the report and the commits
\* its invalidations cover as they are unless it empties or fills the entry.
LEMMA ReadStepParticipants ==
    ASSUME ReadInv, [ReadNext]_allVars
    PROVE  /\ ParticipantsTypes'
           /\ \/ UNCHANGED <<obEntry, obDropped>>
              \/ obEntry'[Battle] = OB!NoEntry
              \/ \E r \in Reader : OB!Store(r)
<1> USE DEF ReadInv, ParticipantsTypes, CacheInv, Types,
            OB!writeVars, OB!cacheVars, obVars, obCacheVars, ownVars, OB!NoEntry
<1> DEFINE Goal == /\ ParticipantsTypes'
                   /\ \/ UNCHANGED <<obEntry, obDropped>>
                      \/ obEntry'[Battle] = OB!NoEntry
                      \/ \E r \in Reader : OB!Store(r)
<1>1. ASSUME NEW what, WriteParticipants(what) PROVE Goal
  BY <1>1 DEF WriteParticipants, OB!CommitWrite
<1>2. CASE WriteSides \/ SetRoster \/ FinishSides
  BY <1>2 DEF WriteSides, SetRoster, FinishSides
<1>3. CASE FinishEdit
  BY <1>3 DEF FinishEdit, OB!Invalidate, BumpAll, Bump
<1>4. CASE FinishUpload
  BY <1>4 DEF FinishUpload, OB!Clear, BumpAll, Bump
<1>5. ASSUME NEW r \in Reader,
             LoadOverrides(r) \/ LockDerived(r) \/ BeginCompute(r) \/
             ComputationFails(r) \/ LeaveDerived(r) \/ \E k \in Key : AskDerived(r, k)
      PROVE Goal
  BY <1>5
  DEF LoadOverrides, LockDerived, BeginCompute, ComputationFails, LeaveDerived, AskDerived
<1>6. ASSUME NEW r \in Reader, AskParticipants(r) PROVE Goal
  BY <1>6 DEF AskParticipants, OB!Get, OB!Hit
<1>7. ASSUME NEW r \in Reader, ParticipantsStep(r) PROVE Goal
  <2>1. CASE OB!Acquire(r)
    BY <2>1 DEF OB!Acquire, OB!Hit
  <2>2. CASE OB!Compute(r)
    BY <2>2 DEF OB!Compute
  <2>3. CASE OB!Store(r)
    BY <2>3, ParticipantsStoreFacts
  <2> QED BY <1>7, <2>1, <2>2, <2>3 DEF ParticipantsStep
<1>8. ASSUME NEW r \in Reader, FinishCompute(r) \/ AnswerSides(r) PROVE Goal
  BY <1>8 DEF FinishCompute, AnswerSides, Return
<1>9. ASSUME NEW r \in Reader, ParticipantsFail(r) PROVE Goal
  BY <1>9 DEF ParticipantsFail, OB!ComputeFails
<1>10. ASSUME NEW k \in Key, ExpireDerived(k) PROVE Goal
  BY <1>10 DEF ExpireDerived
<1>11. CASE ExpireParticipants
  BY <1>11 DEF ExpireParticipants, OB!Expire
<1>12. CASE UNCHANGED allVars
  BY <1>12 DEF allVars
<1> QED
  BY <1>1, <1>2, <1>3, <1>4, <1>5, <1>6, <1>7, <1>8, <1>9, <1>10, <1>11, <1>12
  DEF ReadNext

LEMMA ReadStepInv == ReadInv /\ [ReadNext]_allVars => ReadInv'
  BY ReadStepCache, ReadStepParticipants DEF ReadInv

\* A compute under way when a write is bumped is never served as fresh, with
\* computations that wait for the participants and fail with them, and with a
\* roster that is committed and bumped at once.
THEOREM ReadsSeeFreshEntries == ReadSpec => []FreshEntriesSeeBumps
<1>1. ReadInv => FreshEntriesSeeBumps
  BY DEF ReadInv, CacheInv
<1> QED BY <1>1, ReadInitInv, ReadStepInv, PTL DEF ReadSpec

\* No request for a composition or a timeline is answered with less than was
\* bumped when it came to the derived cache.
THEOREM ReadsSeeBumps == ReadSpec => []AnswersSeeBumps
<1>1. ReadInv => AnswersSeeBumps
  BY DEF ReadInv, CacheInv
<1> QED BY <1>1, ReadInitInv, ReadStepInv, PTL DEF ReadSpec

\* The participants that are served turn stale in one way: a computation that
\* was under way when they were invalidated stores what it found.  No eviction,
\* expiry, failure or writer does it.
THEOREM OverlapsAlone == ReadSpec => OnlyOverlapsTurnStale
<1> DEFINE Overlap == \E r \in Reader : OB!Store(r) /\ obVal[r] < obDropped[Battle]
<1>1. ReadInv /\ [ReadNext]_allVars => (ParticipantsStale' /\ ~ParticipantsStale => Overlap)
  <2> SUFFICES ASSUME ReadInv, [ReadNext]_allVars, ParticipantsStale', ~ParticipantsStale
               PROVE  Overlap
    OBVIOUS
  <2>1. PICK r \in Reader : OB!Store(r)
    BY ReadStepParticipants DEF ParticipantsStale, OB!NoEntry
  <2>2. /\ UNCHANGED obDropped
        /\ obEntry'[Battle] = OB!NoEntry \/ obEntry'[Battle] = [live |-> TRUE, val |-> obVal[r]]
    BY <2>1, ParticipantsStoreFacts
  <2>3. obVal[r] < obDropped[Battle]
    BY <2>2 DEF ParticipantsStale, OB!NoEntry
  <2> QED BY <2>1, <2>3
<1> QED
  BY <1>1, ReadInitInv, ReadStepInv, PTL DEF ReadSpec, OnlyOverlapsTurnStale
=============================================================================
