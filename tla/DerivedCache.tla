---------------------------- MODULE DerivedCache ----------------------------
(***************************************************************************)
(* The version-stamped read cache of src/app/api/derived_cache.py under    *)
(* concurrent requests on one event loop.  A writer commits to SQLite and, *)
(* in a later step, bumps the version; a reader that misses computes from  *)
(* the database across awaits, holding the lock of its key.                *)
(*                                                                         *)
(* A value stands for the newest commit it reflects.  Version v here is    *)
(* _version + 1, so that version 0 is that of no entry.                    *)
(***************************************************************************)
EXTENDS Naturals, Sequences, FiniteSets, SequencesExt

CONSTANTS
    Reader,      \* requests in flight
    Key,         \* cache keys
    Capacity,    \* max_entries
    MaxCommits   \* bound: writes

ASSUME DerivedCacheAssumption ==
    /\ Key # {}
    /\ Capacity \in Nat \ {0}
    /\ MaxCommits \in Nat

VARIABLES
    data,      \* commits in the database
    bumped,    \* commits covered by a bump: history
    unbumped,  \* writers between their commit and their bump
    version,   \* _version + 1
    entry,     \* _entries
    order,     \* the keys of _entries, least recently used first
    lockOf,    \* _locks: the lock object of each key, 0 without one
    pc,        \* where each request is
    key,       \* the key it asked for
    lock,      \* the lock object it waits for or holds
    ver,       \* the version it noted before computing
    val,       \* what it computed or was answered
    since      \* the commits that a bump covered when it came in: history

cacheVars == <<entry, order, lockOf>>
writeVars == <<data, bumped, unbumped, version>>
readVars == <<pc, key, lock, ver, val, since>>
vars == <<cacheVars, writeVars, readVars>>

NoEntry == [ver |-> 0, val |-> 0]
AnyKey == CHOOSE k \in Key : TRUE
LockId == 1..(Cardinality(Key) + Cardinality(Reader))
Pc == {"idle", "waiting", "computing", "computed", "done"}

Init ==
    /\ data = 0 /\ bumped = 0 /\ unbumped = 0
    /\ version = 1
    /\ entry = [k \in Key |-> NoEntry]
    /\ order = <<>>
    /\ lockOf = [k \in Key |-> 0]
    /\ pc = [r \in Reader |-> "idle"]
    /\ key = [r \in Reader |-> AnyKey]
    /\ lock = [r \in Reader |-> 0]
    /\ ver = [r \in Reader |-> 0]
    /\ val = [r \in Reader |-> 0]
    /\ since = [r \in Reader |-> 0]

-----------------------------------------------------------------------------
(* Writers.                                                                *)

CommitWrite ==
    /\ data < MaxCommits
    /\ data' = data + 1
    /\ unbumped' = unbumped + 1
    /\ UNCHANGED <<bumped, version, cacheVars, readVars>>

\* bump, after the commit of the writer that calls it.
Bump ==
    /\ unbumped > 0
    /\ unbumped' = unbumped - 1
    /\ version' = version + 1
    /\ bumped' = data
    /\ UNCHANGED <<data, cacheVars, readVars>>

-----------------------------------------------------------------------------
(* Readers.                                                                *)

\* Mutant: an entry is fresh until its TTL.
FreshByAge(k) == entry[k].ver > 0

\* _fresh, for an entry whose age is within the TTL (see Expire).
Fresh(k) == entry[k].ver = version

\* move_to_end
Touch(k) == Append(Remove(order, k), k)

Computing(r) == pc[r] \in {"computing", "computed"}
Holds(r, l) == lock[r] = l /\ pc[r] # "waiting"
LocksInUse == {lock[r] : r \in Reader} \union {lockOf[k] : k \in Key}

\* The request is answered from a fresh entry.
Hit(r, k) ==
    /\ Fresh(k)
    /\ order' = Touch(k)
    /\ pc' = [pc EXCEPT ![r] = "done"]
    /\ val' = [val EXCEPT ![r] = entry[k].val]
    /\ lock' = [lock EXCEPT ![r] = 0]

\* get(k): served at once, or queued on the lock of the key, made on demand.
Get(r, k) ==
    /\ pc[r] = "idle"
    /\ key' = [key EXCEPT ![r] = k]
    /\ since' = [since EXCEPT ![r] = bumped]
    /\ \/ Hit(r, k) /\ UNCHANGED lockOf
       \/ /\ ~Fresh(k)
          /\ LET l == IF lockOf[k] # 0 THEN lockOf[k]
                      ELSE CHOOSE i \in LockId : i \notin LocksInUse IN
               /\ lockOf' = [lockOf EXCEPT ![k] = l]
               /\ lock' = [lock EXCEPT ![r] = l]
          /\ pc' = [pc EXCEPT ![r] = "waiting"]
          /\ val' = [val EXCEPT ![r] = 0]
          /\ UNCHANGED order
    /\ UNCHANGED <<writeVars, entry, ver>>

\* The lock is free: check again, else note the version and start computing.
Acquire(r) ==
    /\ pc[r] = "waiting"
    /\ \A q \in Reader : ~Holds(q, lock[r])
    /\ \/ Hit(r, key[r]) /\ UNCHANGED ver
       \/ /\ ~Fresh(key[r])
          /\ pc' = [pc EXCEPT ![r] = "computing"]
          /\ ver' = [ver EXCEPT ![r] = version]
          /\ UNCHANGED <<order, lock, val>>
    /\ UNCHANGED <<writeVars, entry, lockOf, key, since>>

\* The first query of the computation; later ones see no older data.
Compute(r) ==
    /\ pc[r] = "computing"
    /\ pc' = [pc EXCEPT ![r] = "computed"]
    /\ val' = [val EXCEPT ![r] = data]
    /\ UNCHANGED <<writeVars, cacheVars, key, lock, ver, since>>

\* The request is answered with what it computed, and releases its lock.
Answer(r) ==
    /\ pc[r] = "computed"
    /\ pc' = [pc EXCEPT ![r] = "done"]
    /\ lock' = [lock EXCEPT ![r] = 0]
    /\ ver' = [ver EXCEPT ![r] = 0]
    /\ UNCHANGED <<writeVars, key, val, since>>

\* Mutant: the entry is stamped with the version of the moment it is stored.
StoreCurrent(r) ==
    /\ Answer(r)
    /\ entry' = [entry EXCEPT ![key[r]] = [ver |-> version, val |-> val[r]]]
    /\ order' = Touch(key[r])
    /\ UNCHANGED lockOf

\* The result is stored under the version noted before the computation; the
\* least recently used entry makes room, and takes the lock of its key along.
Store(r) ==
    LET kept == [entry EXCEPT ![key[r]] = [ver |-> ver[r], val |-> val[r]]]
        touched == Touch(key[r])
        oldest == Head(touched)
    IN /\ Answer(r)
       /\ IF Len(touched) > Capacity
            THEN /\ entry' = [kept EXCEPT ![oldest] = NoEntry]
                 /\ lockOf' = [lockOf EXCEPT ![oldest] = 0]
                 /\ order' = Tail(touched)
            ELSE entry' = kept /\ order' = touched /\ UNCHANGED lockOf

\* The request is over, and its locals with it.
Reset(r) ==
    /\ pc' = [pc EXCEPT ![r] = "idle"]
    /\ key' = [key EXCEPT ![r] = AnyKey]
    /\ val' = [val EXCEPT ![r] = 0]
    /\ since' = [since EXCEPT ![r] = 0]

Leave(r) ==
    /\ pc[r] = "done"
    /\ Reset(r)
    /\ UNCHANGED <<writeVars, cacheVars, lock, ver>>

\* compute() raises: the lock is released and nothing is stored.
ComputeFails(r) ==
    /\ pc[r] = "computing"
    /\ Reset(r)
    /\ lock' = [lock EXCEPT ![r] = 0]
    /\ ver' = [ver EXCEPT ![r] = 0]
    /\ UNCHANGED <<writeVars, cacheVars>>

\* An entry outlives its TTL: it keeps its place, and is never fresh again.
Expire(k) ==
    /\ entry[k].ver > 0
    /\ entry' = [entry EXCEPT ![k] = NoEntry]
    /\ UNCHANGED <<writeVars, order, lockOf, readVars>>

Next ==
    \/ CommitWrite \/ Bump
    \/ \E r \in Reader : \/ \E k \in Key : Get(r, k)
                         \/ Acquire(r) \/ Compute(r) \/ Store(r) \/ ComputeFails(r)
                         \/ Leave(r)
    \/ \E k \in Key : Expire(k)

Spec == Init /\ [][Next]_vars

-----------------------------------------------------------------------------
\* "Any write that can change a derived result calls bump_derived() and every
\* cached entry becomes stale at once": whatever computations were under way
\* when a bump came, no entry that counts as fresh predates it.
FreshEntriesSeeBumps ==
    \A k \in Key : Fresh(k) => entry[k].val >= bumped

\* A request is never answered with less than was bumped when it came in,
\* whether from the cache, after a wait on the lock or by its own computation.
AnswersSeeBumps ==
    \A r \in Reader : pc[r] = "done" => val[r] >= since[r]

\* Every request that waits for a lock gets through.
RequestsGetThrough ==
    \A r \in Reader : pc[r] = "waiting" ~> pc[r] \in {"done", "idle"}

-----------------------------------------------------------------------------
(* What the repository says and the code does not do.                      *)

\* "Concurrent callers for the same key share one computation" (get).
OneComputationPerKey ==
    \A q, r \in Reader : q # r /\ Computing(q) /\ Computing(r) => key[q] # key[r]
=============================================================================
