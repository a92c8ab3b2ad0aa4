----------------------------- MODULE ScanDaemon -----------------------------
(***************************************************************************)
(* The scan daemon: internal/daemon/daemon.go (bounded queue, worker pool  *)
(* and job lifecycle), internal/scanhistory/store.go (the append-only      *)
(* journal every transition is written to) and the process around them in  *)
(* cmd/aaa/daemon.go (replay at start, shutdown, restart by systemd).      *)
(*                                                                         *)
(* A step is what runs between two points where another goroutine, a       *)
(* crash or a failing disk can be seen: each Manager.mu section is one     *)
(* action and each Store.Record (serialised by Store.mu) is another.       *)
(*                                                                         *)
(* The journal is kept as what LoadLatest makes of it: the last snapshot   *)
(* of each job id and the shape of the end of the file.                    *)
(***************************************************************************)
EXTENDS Naturals, Sequences, FiniteSets

CONSTANTS
    Jobs,         \* job ids newJobID may draw; 128 random bits, never reused
    NoJob,        \* "no job in hand"
    Submitters,   \* goroutines that call Submit: HTTP handlers, drop watcher
    Workers,      \* goroutines of the pool
    QueueDepth,   \* capacity of Manager.queue
    MaxFaults,    \* bound: how many Record calls may fail
    MaxCrashes    \* bound: how often the process may be killed

ASSUME SetsAssumption    == IsFiniteSet(Jobs) /\ NoJob \notin Jobs
ASSUME PoolAssumption    == Workers # {} /\ QueueDepth \in Nat \ {0}
ASSUME BoundsAssumption  == MaxFaults \in Nat /\ MaxCrashes \in Nat

VARIABLES
    jobs,         \* Manager.jobs: state of each job in memory
    queue,        \* Manager.queue
    errors,       \* Manager.errors (capacity 1) holds an error
    spc, sjob,    \* submitters: next step of Submit and its job
    wpc, wjob,    \* workers: next step of worker/execute and its job
    phase,        \* where the process is, see Phases
    toCancel,     \* the "canceled" slice cancelPending has yet to record
    toRecover,    \* interrupted jobs RecoverInterrupted has yet to record
    runErr,       \* Run's (then the process's) result is an error
    latest,       \* journal: last snapshot of each job
    tail,         \* journal: "clean", "open" (last line lacks its newline)
                  \* or "torn" (a malformed or oversized line: replay fails)
    issued,       \* history: ids drawn so far
    accepted,     \* history: jobs whose Submit returned nil
    failed,       \* history: a Record of this process returned an error
    faults, crashes

memory  == <<jobs, queue, errors>>
submit  == <<spc, sjob>>
pool    == <<wpc, wjob>>
process == <<phase, toCancel, toRecover, runErr>>
journal == <<latest, tail>>
ids     == <<issued, accepted>>
vars    == <<memory, submit, pool, process, journal, ids,
             failed, faults, crashes>>

States == {"pending", "running", "succeeded", "failed", "canceled"}
Known  == States \cup {"absent"}
Open   == {"pending", "running"}

\* down: no process.  recovering: RecoverInterrupted.  up: Run is in its
\* select.  stopping: workerCtx is done, Run waits for the workers.
\* canceling: cancelPending.  finished: Run has returned.
Phases  == {"down", "recovering", "up", "stopping", "canceling", "finished"}
Serving == {"up", "stopping", "canceling", "finished"}

SubmitSteps == {"idle", "recordPending", "withdraw", "enqueue", "recordReject"}
WorkerSteps == {"idle", "recordRunning", "scan", "recordEnd", "exited"}

-----------------------------------------------------------------------------
(* The journal.                                                            *)

\* A whole line reaches the file.  After an unterminated line it merges with
\* that line into one malformed record; after a malformed one no replay will
\* read it.
WriteLine(j, s) ==
    IF tail = "clean"
    THEN latest' = [latest EXCEPT ![j] = s] /\ UNCHANGED tail
    ELSE tail' = "torn" /\ UNCHANGED latest

\* All of a line but its newline: readable until something is appended.
WriteUnterminated(j, s) ==
    IF tail = "clean"
    THEN latest' = [latest EXCEPT ![j] = s] /\ tail' = "open"
    ELSE tail' = "torn" /\ UNCHANGED latest

WritePart == tail' = "torn" /\ UNCHANGED latest

\* A scan result of more than the 16 MiB a replay reads as one line.
WriteTooLong(s) == s = "succeeded" /\ WritePart

\* Store.Record returns nil: written and synced.
RecordOK(j, s) == /\ WriteLine(j, s) \/ WriteTooLong(s)
                  /\ UNCHANGED <<failed, faults>>

\* Store.Record returns an error: the open failed, the write stopped short,
\* or the sync or close failed with the line in the file.
RecordError(j, s) ==
    /\ faults < MaxFaults
    /\ faults' = faults + 1
    /\ failed' = TRUE
    /\ \/ UNCHANGED journal
       \/ WriteLine(j, s)
       \/ WriteUnterminated(j, s)
       \/ WritePart

Init ==
    /\ jobs = [j \in Jobs |-> "absent"]
    /\ queue = <<>>
    /\ errors = FALSE
    /\ spc = [p \in Submitters |-> "idle"]
    /\ sjob = [p \in Submitters |-> NoJob]
    /\ wpc = [w \in Workers |-> "idle"]
    /\ wjob = [w \in Workers |-> NoJob]
    /\ phase = "down"
    /\ toCancel = {} /\ toRecover = {}
    /\ runErr = FALSE
    /\ latest = [j \in Jobs |-> "absent"]
    /\ tail = "clean"
    /\ issued = {} /\ accepted = {}
    /\ failed = FALSE
    /\ faults = 0 /\ crashes = 0

-----------------------------------------------------------------------------
(* Submit.                                                                 *)

\* The job enters Manager.jobs before it is journaled.
SubmitRegister(p) ==
    /\ phase \in Serving
    /\ spc[p] = "idle"
    /\ \E j \in Jobs \ issued :
         /\ issued' = issued \cup {j}
         /\ jobs' = [jobs EXCEPT ![j] = "pending"]
         /\ sjob' = [sjob EXCEPT ![p] = j]
    /\ spc' = [spc EXCEPT ![p] = "recordPending"]
    /\ UNCHANGED <<queue, errors, pool, process, journal, accepted,
                   failed, faults, crashes>>

\* Mutant: the error of the first record is dropped.
SubmitIgnoresError(p) ==
    /\ spc[p] = "recordPending"
    /\ RecordOK(sjob[p], "pending") \/ RecordError(sjob[p], "pending")
    /\ spc' = [spc EXCEPT ![p] = "enqueue"]
    /\ UNCHANGED <<memory, sjob, pool, process, ids, crashes>>

\* m.record(job).  Its error goes to the caller only: no reportError here.
SubmitRecordPending(p) ==
    /\ spc[p] = "recordPending"
    /\ \/ /\ RecordOK(sjob[p], "pending")
          /\ spc' = [spc EXCEPT ![p] = "enqueue"]
       \/ /\ RecordError(sjob[p], "pending")
          /\ spc' = [spc EXCEPT ![p] = "withdraw"]
    /\ UNCHANGED <<memory, sjob, pool, process, ids, crashes>>

\* delete(m.jobs, id), and Submit returns the error.
SubmitWithdraw(p) ==
    /\ spc[p] = "withdraw"
    /\ jobs' = [jobs EXCEPT ![sjob[p]] = "absent"]
    /\ spc' = [spc EXCEPT ![p] = "idle"]
    /\ sjob' = [sjob EXCEPT ![p] = NoJob]
    /\ UNCHANGED <<queue, errors, pool, process, journal, ids,
                   failed, faults, crashes>>

\* Enqueue sjob[p] and return it to the caller.
Enqueue(p) ==
    /\ spc[p] = "enqueue"
    /\ queue' = Append(queue, sjob[p])
    /\ accepted' = accepted \cup {sjob[p]}
    /\ spc' = [spc EXCEPT ![p] = "idle"]
    /\ sjob' = [sjob EXCEPT ![p] = NoJob]
    /\ UNCHANGED <<jobs, errors, pool, process, journal, issued,
                   failed, faults, crashes>>

\* Mutant: the queue accepts one id more than its capacity.
SubmitOverfills(p) == Len(queue) <= QueueDepth /\ Enqueue(p)

\* case m.queue <- id.
SubmitEnqueue(p) == Len(queue) < QueueDepth /\ Enqueue(p)

\* default: the job is canceled in memory ...
SubmitReject(p) ==
    /\ spc[p] = "enqueue"
    /\ Len(queue) = QueueDepth
    /\ jobs' = [jobs EXCEPT ![sjob[p]] = "canceled"]
    /\ spc' = [spc EXCEPT ![p] = "recordReject"]
    /\ UNCHANGED <<queue, errors, sjob, pool, process, journal, ids,
                   failed, faults, crashes>>

\* ... and in the journal; here an error is reported to Run.
SubmitRecordReject(p) ==
    /\ spc[p] = "recordReject"
    /\ \/ RecordOK(sjob[p], "canceled") /\ UNCHANGED errors
       \/ RecordError(sjob[p], "canceled") /\ errors' = TRUE
    /\ spc' = [spc EXCEPT ![p] = "idle"]
    /\ sjob' = [sjob EXCEPT ![p] = NoJob]
    /\ UNCHANGED <<jobs, queue, pool, process, ids, crashes>>

-----------------------------------------------------------------------------
(* The workers.                                                            *)

\* Mutant: the state in Manager.jobs is left at "pending".
WorkerTakeUnmarked(w) ==
    /\ phase \in {"up", "stopping"}
    /\ wpc[w] = "idle"
    /\ queue # <<>>
    /\ queue' = Tail(queue)
    /\ wpc' = [wpc EXCEPT ![w] = "recordRunning"]
    /\ wjob' = [wjob EXCEPT ![w] = Head(queue)]
    /\ UNCHANGED <<jobs, errors, submit, process, journal, ids,
                   failed, faults, crashes>>

\* case id := <-m.queue, and the first critical section of execute.  A select
\* with a done context may still pick this case.
WorkerTake(w) ==
    /\ phase \in {"up", "stopping"}
    /\ wpc[w] = "idle"
    /\ queue # <<>>
    /\ queue' = Tail(queue)
    /\ IF jobs[Head(queue)] = "pending"
       THEN /\ jobs' = [jobs EXCEPT ![Head(queue)] = "running"]
            /\ wpc' = [wpc EXCEPT ![w] = "recordRunning"]
            /\ wjob' = [wjob EXCEPT ![w] = Head(queue)]
       ELSE UNCHANGED <<jobs, pool>>
    /\ UNCHANGED <<errors, submit, process, journal, ids,
                   failed, faults, crashes>>

\* Mutant: execute scans although the start is not on disk.
WorkerScansUnrecorded(w) ==
    /\ wpc[w] = "recordRunning"
    /\ \/ RecordOK(wjob[w], "running") /\ UNCHANGED errors
       \/ RecordError(wjob[w], "running") /\ errors' = TRUE
    /\ wpc' = [wpc EXCEPT ![w] = "scan"]
    /\ UNCHANGED <<jobs, queue, submit, wjob, process, ids, crashes>>

\* Mutant: the error is not reported to Run.
WorkerHidesError(w) ==
    /\ wpc[w] = "recordRunning"
    /\ \/ /\ RecordOK(wjob[w], "running")
          /\ wpc' = [wpc EXCEPT ![w] = "scan"]
          /\ UNCHANGED wjob
       \/ /\ RecordError(wjob[w], "running")
          /\ wpc' = [wpc EXCEPT ![w] = "idle"]
          /\ wjob' = [wjob EXCEPT ![w] = NoJob]
    /\ UNCHANGED <<memory, submit, process, ids, crashes>>

\* m.record of the running job; on error execute reports it and returns, with
\* the job still "running" in memory.
WorkerRecordRunning(w) ==
    /\ wpc[w] = "recordRunning"
    /\ \/ /\ RecordOK(wjob[w], "running")
          /\ wpc' = [wpc EXCEPT ![w] = "scan"]
          /\ UNCHANGED <<errors, wjob>>
       \/ /\ RecordError(wjob[w], "running")
          /\ errors' = TRUE
          /\ wpc' = [wpc EXCEPT ![w] = "idle"]
          /\ wjob' = [wjob EXCEPT ![w] = NoJob]
    /\ UNCHANGED <<jobs, queue, submit, process, ids, crashes>>

\* m.scan, and the second critical section of execute.
WorkerScan(w) ==
    /\ wpc[w] = "scan"
    /\ \E s \in {"succeeded", "failed"} :
         jobs' = [jobs EXCEPT ![wjob[w]] = s]
    /\ wpc' = [wpc EXCEPT ![w] = "recordEnd"]
    /\ UNCHANGED <<queue, errors, submit, wjob, process, journal, ids,
                   failed, faults, crashes>>

WorkerRecordEnd(w) ==
    /\ wpc[w] = "recordEnd"
    /\ \/ RecordOK(wjob[w], jobs[wjob[w]]) /\ UNCHANGED errors
       \/ RecordError(wjob[w], jobs[wjob[w]]) /\ errors' = TRUE
    /\ wpc' = [wpc EXCEPT ![w] = "idle"]
    /\ wjob' = [wjob EXCEPT ![w] = NoJob]
    /\ UNCHANGED <<jobs, queue, submit, process, ids, crashes>>

Exited(w) ==
    /\ wpc[w] = "idle"
    /\ wpc' = [wpc EXCEPT ![w] = "exited"]
    /\ UNCHANGED <<memory, submit, wjob, process, journal, ids,
                   failed, faults, crashes>>

\* Mutant: Run receives an error and does not call cancel.
WorkerExitOnSignal(w) == phase = "stopping" /\ ~runErr /\ Exited(w)

\* case <-ctx.Done().
WorkerExit(w) == phase = "stopping" /\ Exited(w)

-----------------------------------------------------------------------------
(* Run, and the process around it.                                         *)

\* ctx is done: a signal, or the drop watcher or the HTTP server has ended.
StopRequested ==
    /\ phase = "up"
    /\ phase' = "stopping"
    /\ UNCHANGED <<memory, submit, pool, toCancel, toRecover, runErr, journal,
                   ids, failed, faults, crashes>>

\* case runErr = <-m.errors: cancel().
StopOnError ==
    /\ phase = "up"
    /\ errors
    /\ errors' = FALSE
    /\ runErr' = TRUE
    /\ phase' = "stopping"
    /\ UNCHANGED <<jobs, queue, submit, pool, toCancel, toRecover, journal,
                   ids, failed, faults, crashes>>

CancelJobs(J) ==
    /\ phase = "stopping"
    /\ \A w \in Workers : wpc[w] = "exited"
    /\ toCancel' = J
    /\ jobs' = [j \in Jobs |-> IF j \in J THEN "canceled" ELSE jobs[j]]
    /\ phase' = "canceling"
    /\ UNCHANGED <<queue, errors, submit, pool, toRecover, runErr, journal,
                   ids, failed, faults, crashes>>

\* Mutant: every job of the map is canceled, whatever its state.
CancelEverything == CancelJobs({j \in Jobs : jobs[j] # "absent"})

\* wg.Wait, and the critical section of cancelPending.
CancelPending == CancelJobs({j \in Jobs : jobs[j] = "pending"})

\* One turn of cancelPending's second loop, without the lock.  Nobody reads
\* the errors channel any more.
RecordCanceled ==
    /\ phase = "canceling"
    /\ \E j \in toCancel :
         /\ toCancel' = toCancel \ {j}
         /\ \/ RecordOK(j, "canceled") /\ UNCHANGED errors
            \/ RecordError(j, "canceled") /\ errors' = TRUE
    /\ UNCHANGED <<jobs, queue, submit, pool, phase, toRecover, runErr, ids,
                   crashes>>

RunReturns ==
    /\ phase = "canceling"
    /\ toCancel = {}
    /\ phase' = "finished"
    /\ UNCHANGED <<memory, submit, pool, toCancel, toRecover, runErr, journal,
                   ids, failed, faults, crashes>>

\* All that lives in the process is gone.
Vanish ==
    /\ phase' = "down"
    /\ jobs' = [j \in Jobs |-> "absent"]
    /\ queue' = <<>>
    /\ errors' = FALSE
    /\ spc' = [p \in Submitters |-> "idle"]
    /\ sjob' = [p \in Submitters |-> NoJob]
    /\ wpc' = [w \in Workers |-> "idle"]
    /\ wjob' = [w \in Workers |-> NoJob]
    /\ toCancel' = {} /\ toRecover' = {}

\* main returns or exits 1: managerDone was received.  Submit calls still in
\* flight when server.Shutdown timed out end with the process.
Exit ==
    /\ phase = "finished"
    /\ Vanish
    /\ UNCHANGED <<runErr, journal, ids, failed, faults, crashes>>

\* The snapshots a goroutine may be writing at this moment.
InFlight ==
    {<<sjob[p], "pending">>  : p \in {q \in Submitters : spc[q] = "recordPending"}} \cup
    {<<sjob[p], "canceled">> : p \in {q \in Submitters : spc[q] = "recordReject"}} \cup
    {<<wjob[w], "running">>  : w \in {v \in Workers : wpc[v] = "recordRunning"}} \cup
    {<<wjob[w], jobs[wjob[w]]>> : w \in {v \in Workers : wpc[v] = "recordEnd"}} \cup
    {<<j, "canceled">> : j \in toCancel \cup toRecover}

\* Power loss or kill.  The line being written is lost, cut short, or there.
Crash ==
    /\ phase # "down"
    /\ crashes < MaxCrashes
    /\ crashes' = crashes + 1
    /\ \/ UNCHANGED journal
       \/ \E l \in InFlight : \/ WriteLine(l[1], l[2])
                              \/ WriteUnterminated(l[1], l[2])
                              \/ WritePart
    /\ Vanish
    /\ runErr' = FALSE
    /\ failed' = FALSE
    /\ UNCHANGED <<ids, faults>>

\* systemd starts the daemon and RecoverInterrupted loads the journal.
Recover(interrupted) ==
    /\ phase = "down"
    /\ tail # "torn"
    /\ phase' = "recovering"
    /\ toRecover' = {j \in Jobs : latest[j] \in interrupted}
    /\ runErr' = FALSE
    /\ failed' = FALSE
    /\ UNCHANGED <<memory, submit, pool, toCancel, journal, ids,
                   faults, crashes>>

\* Mutant: only running jobs count as interrupted.
StartKeepsPending == Recover({"running"})

Start == Recover(Open)

\* LoadLatest fails: the process exits 1, at this and at every later start.
StartRefused ==
    /\ phase = "down"
    /\ tail = "torn"
    /\ runErr' = TRUE
    /\ UNCHANGED <<memory, submit, pool, phase, toCancel, toRecover, journal,
                   ids, failed, faults, crashes>>

RecoverOne ==
    /\ phase = "recovering"
    /\ \E j \in toRecover :
         \/ /\ RecordOK(j, "canceled")
            /\ toRecover' = toRecover \ {j}
            /\ UNCHANGED <<phase, runErr>>
         \/ /\ RecordError(j, "canceled")   \* os.Exit(1)
            /\ toRecover' = {}
            /\ phase' = "down"
            /\ runErr' = TRUE
    /\ UNCHANGED <<memory, submit, pool, toCancel, ids, crashes>>

\* NewWithRecorder, and the goroutines of Run, the watcher and the server.
Serve ==
    /\ phase = "recovering"
    /\ toRecover = {}
    /\ phase' = "up"
    /\ UNCHANGED <<memory, submit, pool, toCancel, toRecover, runErr, journal,
                   ids, failed, faults, crashes>>

-----------------------------------------------------------------------------
SubmitStep(p) == \/ SubmitRecordPending(p) \/ SubmitWithdraw(p)
                 \/ SubmitEnqueue(p) \/ SubmitReject(p) \/ SubmitRecordReject(p)

WorkerStep(w) == \/ WorkerTake(w) \/ WorkerRecordRunning(w) \/ WorkerScan(w)
                 \/ WorkerRecordEnd(w) \/ WorkerExit(w)

ManagerStep == StopOnError \/ CancelPending \/ RecordCanceled \/ RunReturns \/ Exit

StartStep == Start \/ StartRefused \/ RecoverOne \/ Serve

Next == \/ \E p \in Submitters : SubmitRegister(p) \/ SubmitStep(p)
        \/ \E w \in Workers : WorkerStep(w)
        \/ ManagerStep
        \/ StartStep
        \/ StopRequested
        \/ Crash

Spec == Init /\ [][Next]_vars

\* Goroutines are scheduled and a scan returns; systemd (or the next boot)
\* starts a daemon that is down.  Nobody has to submit, stop or crash.
Fairness == /\ \A p \in Submitters : WF_vars(SubmitStep(p))
            /\ \A w \in Workers : WF_vars(WorkerStep(w))
            /\ WF_vars(ManagerStep)
            /\ WF_vars(StartStep)

FairSpec == Spec /\ Fairness

-----------------------------------------------------------------------------
(* Properties.                                                             *)

Closed == {"succeeded", "failed", "canceled"}

TypeOK ==
    /\ jobs \in [Jobs -> Known]
    /\ queue \in Seq(Jobs) /\ Len(queue) <= QueueDepth
    /\ errors \in BOOLEAN
    /\ spc \in [Submitters -> SubmitSteps]
    /\ sjob \in [Submitters -> Jobs \cup {NoJob}]
    /\ wpc \in [Workers -> WorkerSteps]
    /\ wjob \in [Workers -> Jobs \cup {NoJob}]
    /\ phase \in Phases
    /\ toCancel \subseteq Jobs /\ toRecover \subseteq Jobs
    /\ runErr \in BOOLEAN
    /\ latest \in [Jobs -> Known]
    /\ tail \in {"clean", "open", "torn"}
    /\ issued \subseteq Jobs /\ accepted \subseteq Jobs
    /\ failed \in BOOLEAN
    /\ faults \in 0..MaxFaults /\ crashes \in 0..MaxCrashes

\* The in-memory states a journaled state allows: memory is changed first,
\* the line follows.
Reached(s) == CASE s \in {"absent", "pending"} -> Known
                [] s = "running" -> {"running", "succeeded", "failed"}
                [] OTHER -> {s}

\* The journal never shows a job further than the running daemon has taken it
\* (Submit, execute and cancelPending all change Manager.jobs, then record),
\* whichever of their lines come late.
HistoryNeverAhead ==
    \A j \in Jobs : jobs[j] # "absent" => jobs[j] \in Reached(latest[j])

\* A scan runs only when its start is in the journal (M9.1: "running
\* immediately before invoking the existing scanner"), so that no scan goes
\* unnoticed by a restart; unless the journal is already beyond replay.
ScanIsJournaledFirst ==
    \A w \in Workers :
        wpc[w] = "scan" => latest[wjob[w]] = "running" \/ tail = "torn"

\* A job whose Submit succeeded is in the history for good, across crashes,
\* failed writes, shutdowns and restarts, as long as the file can be replayed.
AcceptedIsDurable ==
    \A j \in accepted : latest[j] # "absent" \/ tail = "torn"

\* The same, without the escape: "The daemon must not silently claim durable
\* history when persistence has failed" (M9_1_SPEC.md).
AcceptedIsReplayable ==
    \A j \in accepted : latest[j] # "absent"

InHand(j) == \/ \E p \in Submitters : sjob[p] = j
             \/ \E w \in Workers : wjob[w] = j
             \/ \E i \in 1..Len(queue) : queue[i] = j

\* While the daemon serves and no record has failed, a job the history shows
\* as pending or running is really held by a submitter, the queue or a worker:
\* clients never wait for a scan nobody will do.
NoOrphanInHistory ==
    \A j \in Jobs :
        phase = "up" /\ ~failed /\ tail # "torn" /\ latest[j] \in Open
            => InHand(j)

\* The replayed history moves only as ScanHistory allows: an outcome is final,
\* nothing runs that was not registered, nothing ends that did not run.
History == INSTANCE ScanHistory WITH readable <- tail # "torn"
HistoryRefined == History!Spec

\* Every job whose Submit succeeded is eventually closed in the history and
\* stays so, by a worker, by cancelPending or by RecoverInterrupted, unless
\* the journal can no longer be replayed.
AcceptedIsSettled ==
    \A j \in Jobs :
        j \in accepted ~> [](latest[j] \in Closed \/ tail = "torn")

\* Once told to stop, or after a reported journal error, the process ends:
\* the workers leave the queue and cancelPending does not wait for anybody.
ShutdownCompletes == phase = "stopping" ~> phase = "down"
=============================================================================
