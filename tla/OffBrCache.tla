----------------------------- MODULE OffBrCache -----------------------------
(***************************************************************************)
(* The per-report cache of off-report participants                         *)
(* (src/app/fights/offbr_cache.py).  Like DerivedCache it computes under a *)
(* lock per key and keeps at most _MAX_ENTRIES entries; unlike it, it has  *)
(* no version: invalidate and clear remove what is stored, and say nothing *)
(* to a computation under way.                                             *)
(*                                                                         *)
(* A value stands for the newest commit it reflects; ages are abstracted   *)
(* to whether an entry is within its TTL.                                  *)
(***************************************************************************)
EXTENDS Naturals, Sequences, FiniteSets, SequencesExt

CONSTANTS
    Reader,      \* requests in flight (composition, sides, pilot timeline)
    BR,          \* battle reports
    Capacity,    \* _MAX_ENTRIES
    MaxCommits   \* bound: writes

VARIABLES
    data,     \* commits in the database
    due,      \* writers between their commit and invalidate (a report) or clear
    dropped,  \* commits covered by an invalidation of each report: history
    entry,    \* _entries: the value and whether it is within its TTL
    order,    \* the keys of _entries, least recently used first
    lockOf,   \* _locks: the lock object of each report, 0 without one
    pc, br, lock, val

writeVars == <<data, due, dropped>>
cacheVars == <<entry, order, lockOf>>
vars == <<writeVars, cacheVars, pc, br, lock, val>>

NoEntry == [live |-> FALSE, val |-> 0]
LockId == 1..(Cardinality(BR) + 2 * Cardinality(Reader))
Everything == "everything"

Init ==
    /\ data = 0
    /\ due = {}
    /\ dropped = [b \in BR |-> 0]
    /\ entry = [b \in BR |-> NoEntry]
    /\ order = <<>>
    /\ lockOf = [b \in BR |-> 0]
    /\ pc = [r \in Reader |-> "idle"]
    /\ br = [r \in Reader |-> CHOOSE b \in BR : TRUE]
    /\ lock = [r \in Reader |-> 0]
    /\ val = [r \in Reader |-> 0]

-----------------------------------------------------------------------------
(* Writers: an ingest or a participant edit is to invalidate its report, an *)
(* upload, its name resolution or the delete of a log everything.           *)

CommitWrite(what) ==
    /\ data < MaxCommits
    /\ what \notin due
    /\ data' = data + 1
    /\ due' = due \union {what}
    /\ UNCHANGED <<dropped, cacheVars, pc, br, lock, val>>

\* Mutant: the entry stays until its TTL.
InvalidateNothing(b) ==
    /\ b \in due
    /\ due' = due \ {b}
    /\ dropped' = [dropped EXCEPT ![b] = data]
    /\ UNCHANGED <<data, cacheVars, pc, br, lock, val>>

\* invalidate(br_id)
Invalidate(b) ==
    /\ b \in due
    /\ due' = due \ {b}
    /\ dropped' = [dropped EXCEPT ![b] = data]
    /\ entry' = [entry EXCEPT ![b] = NoEntry]
    /\ order' = Remove(order, b)
    /\ UNCHANGED <<data, lockOf, pc, br, lock, val>>

\* clear(): the entries, and the locks under whoever holds or awaits them.
Clear ==
    /\ Everything \in due
    /\ due' = due \ {Everything}
    /\ dropped' = [b \in BR |-> data]
    /\ entry' = [b \in BR |-> NoEntry]
    /\ order' = <<>>
    /\ lockOf' = [b \in BR |-> 0]
    /\ UNCHANGED <<data, pc, br, lock, val>>

-----------------------------------------------------------------------------
(* Readers.                                                                *)

Fresh(b) == entry[b].live
Touch(b) == Append(Remove(order, b), b)
Holds(r, l) == lock[r] = l /\ pc[r] # "waiting"
LocksInUse == {lock[r] : r \in Reader} \union {lockOf[b] : b \in BR}

Hit(r, b) ==
    /\ Fresh(b)
    /\ order' = Touch(b)
    /\ pc' = [pc EXCEPT ![r] = "done"]
    /\ val' = [val EXCEPT ![r] = entry[b].val]
    /\ lock' = [lock EXCEPT ![r] = 0]

\* get(b): served at once, or queued on the lock of the report.
Get(r, b) ==
    /\ pc[r] \in {"idle", "done"}
    /\ br' = [br EXCEPT ![r] = b]
    /\ \/ Hit(r, b) /\ UNCHANGED lockOf
       \/ /\ ~Fresh(b)
          /\ LET l == IF lockOf[b] # 0 THEN lockOf[b]
                      ELSE CHOOSE i \in LockId : i \notin LocksInUse IN
               /\ lockOf' = [lockOf EXCEPT ![b] = l]
               /\ lock' = [lock EXCEPT ![r] = l]
          /\ pc' = [pc EXCEPT ![r] = "waiting"]
          /\ UNCHANGED <<order, val>>
    /\ UNCHANGED <<writeVars, entry>>

\* The lock is free: check again, else start computing.
Acquire(r) ==
    /\ pc[r] = "waiting"
    /\ \A q \in Reader : ~Holds(q, lock[r])
    /\ \/ Hit(r, br[r])
       \/ /\ ~Fresh(br[r])
          /\ pc' = [pc EXCEPT ![r] = "computing"]
          /\ UNCHANGED <<order, lock, val>>
    /\ UNCHANGED <<writeVars, entry, lockOf, br>>

\* The passes over the report's log events.
Compute(r) ==
    /\ pc[r] = "computing"
    /\ pc' = [pc EXCEPT ![r] = "computed"]
    /\ val' = [val EXCEPT ![r] = data]
    /\ UNCHANGED <<writeVars, cacheVars, br, lock>>

\* _store, and the answer.
Store(r) ==
    LET kept == [entry EXCEPT ![br[r]] = [live |-> TRUE, val |-> val[r]]]
        touched == Touch(br[r])
        oldest == Head(touched)
    IN /\ pc[r] = "computed"
       /\ IF Len(touched) > Capacity
            THEN /\ entry' = [kept EXCEPT ![oldest] = NoEntry]
                 /\ lockOf' = [lockOf EXCEPT ![oldest] = 0]
                 /\ order' = Tail(touched)
            ELSE entry' = kept /\ order' = touched /\ UNCHANGED lockOf
       /\ pc' = [pc EXCEPT ![r] = "done"]
       /\ lock' = [lock EXCEPT ![r] = 0]
       /\ UNCHANGED <<writeVars, br, val>>

\* The computation raises.
ComputeFails(r) ==
    /\ pc[r] = "computing"
    /\ pc' = [pc EXCEPT ![r] = "idle"]
    /\ lock' = [lock EXCEPT ![r] = 0]
    /\ UNCHANGED <<writeVars, cacheVars, br, val>>

\* An entry outlives _TTL_S.
Expire(b) ==
    /\ entry[b].live
    /\ entry' = [entry EXCEPT ![b] = NoEntry]
    /\ UNCHANGED <<writeVars, order, lockOf, pc, br, lock, val>>

Next ==
    \/ \E what \in BR \union {Everything} : CommitWrite(what)
    \/ \E b \in BR : Invalidate(b) \/ Expire(b)
    \/ Clear
    \/ \E r \in Reader : \/ \E b \in BR : Get(r, b)
                         \/ Acquire(r) \/ Compute(r) \/ Store(r) \/ ComputeFails(r)

Spec == Init /\ [][Next]_vars

-----------------------------------------------------------------------------
(* What the repository says and the code does not do.                      *)

\* "We invalidate it explicitly when ingest reaches ready": what counts as
\* fresh is no older than the last invalidation.
InvalidatedIsGone == \A b \in BR : Fresh(b) => entry[b].val >= dropped[b]
=============================================================================
