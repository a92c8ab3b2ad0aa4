---------------------------- MODULE ScanHistory ----------------------------
(***************************************************************************)
(* What the scan history promises its readers (the HTTP API, the web UI    *)
(* and the next daemon start): for every job id the snapshot that          *)
(* scanhistory.Store.LoadLatest returns, and whether a replay succeeds at  *)
(* all.  This is the abstract specification ScanDaemon implements; it says *)
(* nothing of workers, queues, locks or restarts.                          *)
(***************************************************************************)
CONSTANT Jobs

VARIABLES
    latest,     \* [Jobs -> state of the last snapshot, "absent" if none]
    readable    \* LoadLatest succeeds

vars == <<latest, readable>>

Outcomes == {"succeeded", "failed"}
Open     == {"pending", "running"}

Init == /\ latest = [j \in Jobs |-> "absent"]
        /\ readable = TRUE

\* A readable history gains the snapshot s of job j.
Extend(j, s) == /\ readable
                /\ latest' = [latest EXCEPT ![j] = s]
                /\ UNCHANGED readable

Register(j)  == latest[j] = "absent" /\ Extend(j, "pending")
Begin(j)     == latest[j] = "pending" /\ Extend(j, "running")
Finish(j)    == latest[j] = "running" /\ \E s \in Outcomes : Extend(j, s)
Cancel(j)    == latest[j] \in Open \cup {"absent"} /\ Extend(j, "canceled")

\* A shutdown records "canceled" for a job whose first snapshot is still on
\* its way: the "pending" line lands second, and the job looks open until
\* the next start cancels it again.
LatePending(j) == latest[j] = "canceled" /\ Extend(j, "pending")

\* A partial or an oversized line makes every later replay fail.
LoseHistory == readable' = FALSE /\ UNCHANGED latest

Next == \/ \E j \in Jobs : Register(j) \/ Begin(j) \/ Finish(j)
                           \/ Cancel(j) \/ LatePending(j)
        \/ LoseHistory

Spec == Init /\ [][Next]_vars
=============================================================================
