----------------------------- MODULE IngestQueue -----------------------------
(***************************************************************************)
(* What app/ingest/jobs.py promises to the handlers that call              *)
(* schedule_ingest: at most one ingest at a time, and every schedule is    *)
(* followed by an ingest that starts after it, so that the ingest sees the *)
(* rows the caller committed first.  An ingest may also run without having *)
(* been asked for since the previous one: nothing forbids extra work.      *)
(***************************************************************************)
CONSTANTS
    BR,     \* battle reports
    NoBr    \* no battle report is being ingested

VARIABLES
    want,   \* the reports with a schedule that no ingest has started after
    active  \* the report being ingested, or NoBr

qvars == <<want, active>>

Init == want = {} /\ active = NoBr

Request(b) ==
    /\ want' = want \union {b}
    /\ UNCHANGED active

\* The lock goes from one holder to the next: an ingest ends, starts, or both.
HandOver(n) ==
    /\ active' = n
    /\ want' = want \ {n}

\* The process dies: nothing runs, and the in-memory requests are forgotten.
Lose == want' = {} /\ active' = NoBr

\* The next process asks again for whatever it finds unfinished.
Recover(S) ==
    /\ want = {} /\ active = NoBr
    /\ want' = S
    /\ UNCHANGED active

Next ==
    \/ \E b \in BR : Request(b)
    \/ \E n \in BR \union {NoBr} : HandOver(n)
    \/ Lose
    \/ \E S \in SUBSET BR : Recover(S)

Spec == Init /\ [][Next]_qvars
=============================================================================
