-------------------------- MODULE ScanDaemonProofs --------------------------
(***************************************************************************)
(* The safety properties of the scan daemon for any number of jobs,        *)
(* submitters and workers, any queue depth, and any number of failed       *)
(* writes and crashes; and, in the second half, of the scan each of its    *)
(* workers runs, for any submitted file, any disk and any limits.          *)
(***************************************************************************)
EXTENDS ScanDaemon, Scanner, FiniteSetTheorems, NaturalsInduction,
        WellFoundedInduction, TLAPS

-----------------------------------------------------------------------------
(* The inductive invariant.                                                *)

\* A goroutine holds a job exactly while it works on one.
HandsOK ==
    /\ \A p \in Submitters : sjob[p] = NoJob <=> spc[p] = "idle"
    /\ \A w \in Workers : wjob[w] = NoJob <=> wpc[w] \in {"idle", "exited"}

TypeInv == TypeOK /\ HandsOK

\* What a submitter holds: an id of its own, not yet offered to a worker.
SubmitterInv ==
    \A p \in Submitters :
        /\ sjob[p] # NoJob =>
             /\ sjob[p] \in issued
             /\ jobs[sjob[p]] \in {"pending", "canceled"}
             /\ \A q \in Submitters : sjob[q] = sjob[p] => q = p
             /\ \A i \in 1..Len(queue) : queue[i] # sjob[p]
        /\ spc[p] = "recordReject" => jobs[sjob[p]] = "canceled"
        /\ spc[p] \in {"enqueue", "recordReject"} =>
             latest[sjob[p]] # "absent" \/ tail = "torn"

\* What a worker holds: a job only it advances.
WorkerInv ==
    \A w \in Workers :
        /\ wjob[w] # NoJob => \A v \in Workers : wjob[v] = wjob[w] => v = w
        /\ wpc[w] \in {"recordRunning", "scan"} => jobs[wjob[w]] = "running"
        /\ wpc[w] = "recordEnd" => jobs[wjob[w]] \in {"succeeded", "failed"}

IssuedInv ==
    /\ \A j \in Jobs : jobs[j] # "absent" \/ latest[j] # "absent" => j \in issued
    /\ \A i \in 1..Len(queue) : queue[i] \in issued

\* What each phase leaves behind.
PhaseInv ==
    /\ phase \in {"down", "recovering"} =>
         /\ jobs = [j \in Jobs |-> "absent"]
         /\ sjob = [p \in Submitters |-> NoJob]
         /\ wjob = [w \in Workers |-> NoJob]
    /\ phase \in {"canceling", "finished"} =>
         \A w \in Workers : wpc[w] = "exited"
    /\ phase # "canceling" => toCancel = {}
    /\ \A j \in toCancel : jobs[j] \in {"canceled", "absent"} /\ j \in issued
    /\ toRecover \subseteq issued

IInv == /\ TypeInv
        /\ SubmitterInv
        /\ WorkerInv
        /\ IssuedInv
        /\ PhaseInv
        /\ HistoryNeverAhead
        /\ ScanIsJournaledFirst
        /\ AcceptedIsDurable

-----------------------------------------------------------------------------
(* The journal under one record.                                           *)

\* What a record may do to the journal, whether it succeeds or not: nothing,
\* or one new last snapshot; a malformed line stays.
Recorded(j, s) ==
    /\ latest' \in {latest, [latest EXCEPT ![j] = s]}
    /\ tail' \in {"clean", "open", "torn"}
    /\ tail = "torn" => tail' = "torn"

LEMMA RecordEffect ==
    ASSUME TypeOK, NEW j \in Jobs, NEW s \in Known,
           RecordOK(j, s) \/ RecordError(j, s)
    PROVE  /\ Recorded(j, s)
           /\ latest' \in [Jobs -> Known]
           /\ tail' \in {"clean", "open", "torn"}
           /\ failed' \in BOOLEAN
           /\ faults' \in 0..MaxFaults
<1>1. \/ latest' = latest
      \/ latest' = [latest EXCEPT ![j] = s]
  BY DEF RecordOK, RecordError, WriteLine, WriteTooLong, WriteUnterminated, WritePart, journal
<1>2. /\ tail' \in {"clean", "open", "torn"}
      /\ tail = "torn" => tail' = "torn"
  BY DEF TypeOK, RecordOK, RecordError, WriteLine, WriteTooLong, WriteUnterminated, WritePart, journal
<1>3. failed' \in BOOLEAN /\ faults' \in 0..MaxFaults
  <2>1. CASE RecordOK(j, s)
    BY <2>1 DEF TypeOK, RecordOK
  <2>2. CASE RecordError(j, s)
    <3>1. faults < MaxFaults /\ faults' = faults + 1 /\ failed' = TRUE
      BY <2>2 DEF RecordError
    <3>2. faults \in Nat /\ MaxFaults \in Nat
      BY BoundsAssumption DEF TypeOK
    <3>3. QED
      BY <3>1, <3>2
  <2>3. QED
    BY <2>1, <2>2
<1>4. latest' \in [Jobs -> Known]
  BY <1>1 DEF TypeOK
<1>5. QED
  BY <1>1, <1>2, <1>3, <1>4 DEF Recorded

\* A record that succeeds is in the journal, or the journal is malformed.
LEMMA RecordOKEffect ==
    ASSUME TypeOK, NEW j \in Jobs, NEW s \in Known, RecordOK(j, s)
    PROVE  latest'[j] = s \/ tail' = "torn"
  BY DEF TypeOK, RecordOK, WriteLine, WriteTooLong, WritePart

-----------------------------------------------------------------------------
(* Type correctness.                                                       *)

LEMMA InitTypeInv == Init => TypeInv
<1> SUFFICES ASSUME Init PROVE TypeInv
  OBVIOUS
<1>1. queue \in Seq(Jobs) /\ Len(queue) <= QueueDepth
  BY PoolAssumption DEF Init
<1>2. /\ jobs \in [Jobs -> Known] /\ latest \in [Jobs -> Known]
      /\ spc \in [Submitters -> SubmitSteps] /\ wpc \in [Workers -> WorkerSteps]
      /\ sjob \in [Submitters -> Jobs \cup {NoJob}]
      /\ wjob \in [Workers -> Jobs \cup {NoJob}]
  BY DEF Init, Known, SubmitSteps, WorkerSteps
<1>3. HandsOK
  BY DEF Init, HandsOK
<1>4. faults \in 0..MaxFaults /\ crashes \in 0..MaxCrashes
  BY BoundsAssumption DEF Init
<1>5. /\ toCancel \subseteq Jobs /\ toRecover \subseteq Jobs
      /\ issued \subseteq Jobs /\ accepted \subseteq Jobs
      /\ errors \in BOOLEAN /\ runErr \in BOOLEAN /\ failed \in BOOLEAN
      /\ phase \in Phases /\ tail \in {"clean", "open", "torn"}
  BY DEF Init, Phases
<1>6. QED
  BY <1>1, <1>2, <1>3, <1>4, <1>5 DEF TypeInv, TypeOK

\* With the process gone all that is left of it is well typed.
LEMMA VanishTypeInv ==
    ASSUME Vanish
    PROVE  /\ jobs' \in [Jobs -> Known]
           /\ queue' \in Seq(Jobs) /\ Len(queue') <= QueueDepth
           /\ errors' \in BOOLEAN
           /\ spc' \in [Submitters -> SubmitSteps]
           /\ sjob' \in [Submitters -> Jobs \cup {NoJob}]
           /\ wpc' \in [Workers -> WorkerSteps]
           /\ wjob' \in [Workers -> Jobs \cup {NoJob}]
           /\ phase' \in Phases
           /\ toCancel' = {} /\ toRecover' = {}
           /\ HandsOK'
<1>1. queue' \in Seq(Jobs) /\ Len(queue') <= QueueDepth
  BY PoolAssumption DEF Vanish
<1>2. HandsOK'
  BY DEF Vanish, HandsOK
<1>3. QED
  BY <1>1, <1>2 DEF Vanish, Known, States, SubmitSteps, WorkerSteps, Phases

\* Every step keeps every variable in its type and every hand consistent.
LEMMA TypeInvStep == TypeInv /\ [Next]_vars => TypeInv'
<1> SUFFICES ASSUME TypeInv, [Next]_vars PROVE TypeInv'
  OBVIOUS
<1> USE SetsAssumption DEF TypeInv, TypeOK, HandsOK, States, Known, SubmitSteps, WorkerSteps,
        Phases, memory, submit, pool, process, journal, ids
<1>1. ASSUME NEW p \in Submitters, SubmitRegister(p) PROVE TypeInv'
  BY <1>1, PoolAssumption DEF SubmitRegister
<1>2. ASSUME NEW p \in Submitters, SubmitRecordPending(p) PROVE TypeInv'
  <2>1. sjob[p] \in Jobs /\ "pending" \in Known
    BY <1>2 DEF SubmitRecordPending
  <2>2. RecordOK(sjob[p], "pending") \/ RecordError(sjob[p], "pending")
    BY <1>2 DEF SubmitRecordPending
  <2>3. QED
    BY <1>2, <2>1, <2>2, RecordEffect DEF SubmitRecordPending
<1>3. ASSUME NEW p \in Submitters, SubmitWithdraw(p) PROVE TypeInv'
  BY <1>3, PoolAssumption DEF SubmitWithdraw
<1>4. ASSUME NEW p \in Submitters, SubmitEnqueue(p) PROVE TypeInv'
  <2>1. sjob[p] \in Jobs
    BY <1>4 DEF SubmitEnqueue, Enqueue
  <2>2. queue' \in Seq(Jobs) /\ Len(queue') = Len(queue) + 1
    BY <1>4, <2>1 DEF SubmitEnqueue, Enqueue
  <2>3. Len(queue') <= QueueDepth
    BY <1>4, <2>2, PoolAssumption DEF SubmitEnqueue
  <2>4. accepted' \subseteq Jobs
    BY <1>4, <2>1 DEF SubmitEnqueue, Enqueue
  <2>5. QED
    BY <1>4, <2>2, <2>3, <2>4 DEF SubmitEnqueue, Enqueue
<1>5. ASSUME NEW p \in Submitters, SubmitReject(p) PROVE TypeInv'
  BY <1>5, PoolAssumption DEF SubmitReject
<1>6. ASSUME NEW p \in Submitters, SubmitRecordReject(p) PROVE TypeInv'
  <2>1. sjob[p] \in Jobs /\ "canceled" \in Known
    BY <1>6 DEF SubmitRecordReject
  <2>2. RecordOK(sjob[p], "canceled") \/ RecordError(sjob[p], "canceled")
    BY <1>6 DEF SubmitRecordReject
  <2>3. QED
    BY <1>6, <2>1, <2>2, RecordEffect DEF SubmitRecordReject
<1>7. ASSUME NEW w \in Workers, WorkerTake(w) PROVE TypeInv'
  <2>1. Head(queue) \in Jobs /\ queue' \in Seq(Jobs) /\ Len(queue') <= QueueDepth
    BY <1>7, PoolAssumption DEF WorkerTake
  <2>2. CASE jobs[Head(queue)] = "pending"
    <3>1. /\ wpc' = [wpc EXCEPT ![w] = "recordRunning"]
          /\ wjob' = [wjob EXCEPT ![w] = Head(queue)]
          /\ UNCHANGED <<spc, sjob>>
      BY <1>7, <2>2 DEF WorkerTake
    <3>2. wjob' \in [Workers -> Jobs \cup {NoJob}] /\ wpc' \in [Workers -> WorkerSteps]
      BY <2>1, <3>1
    <3>3. HandsOK'
      BY <2>1, <3>1
    <3>4. QED
      BY <1>7, <2>1, <2>2, <3>2, <3>3 DEF WorkerTake
  <2>3. CASE jobs[Head(queue)] # "pending"
    BY <1>7, <2>1, <2>3 DEF WorkerTake
  <2>4. QED
    BY <2>2, <2>3
<1>8. ASSUME NEW w \in Workers, WorkerRecordRunning(w) PROVE TypeInv'
  <2>1. wjob[w] \in Jobs /\ "running" \in Known
    BY <1>8 DEF WorkerRecordRunning
  <2>2. RecordOK(wjob[w], "running") \/ RecordError(wjob[w], "running")
    BY <1>8 DEF WorkerRecordRunning
  <2>3. CASE wpc'[w] = "scan"
    BY <1>8, <2>1, <2>2, <2>3, RecordEffect DEF WorkerRecordRunning
  <2>4. CASE wpc' = [wpc EXCEPT ![w] = "idle"] /\ wjob' = [wjob EXCEPT ![w] = NoJob]
    BY <1>8, <2>1, <2>2, <2>4, RecordEffect DEF WorkerRecordRunning
  <2>5. QED
    BY <1>8, <2>3, <2>4 DEF WorkerRecordRunning
<1>9. ASSUME NEW w \in Workers, WorkerScan(w) PROVE TypeInv'
  BY <1>9, PoolAssumption DEF WorkerScan
<1>10. ASSUME NEW w \in Workers, WorkerRecordEnd(w) PROVE TypeInv'
  <2>1. wjob[w] \in Jobs /\ jobs[wjob[w]] \in Known
    BY <1>10 DEF WorkerRecordEnd
  <2>2. RecordOK(wjob[w], jobs[wjob[w]]) \/ RecordError(wjob[w], jobs[wjob[w]])
    BY <1>10 DEF WorkerRecordEnd
  <2>3. QED
    BY <1>10, <2>1, <2>2, RecordEffect DEF WorkerRecordEnd
<1>11. ASSUME NEW w \in Workers, WorkerExit(w) PROVE TypeInv'
  BY <1>11, PoolAssumption DEF WorkerExit, Exited
<1>12. ASSUME StopRequested PROVE TypeInv'
  BY <1>12, PoolAssumption DEF StopRequested
<1>13. ASSUME StopOnError PROVE TypeInv'
  BY <1>13, PoolAssumption DEF StopOnError
<1>14. ASSUME CancelPending PROVE TypeInv'
  BY <1>14, PoolAssumption DEF CancelPending, CancelJobs
<1>15. ASSUME RecordCanceled PROVE TypeInv'
  <2>1. PICK j \in toCancel : RecordOK(j, "canceled") \/ RecordError(j, "canceled")
    BY <1>15 DEF RecordCanceled
  <2>2. QED
    BY <1>15, <2>1, RecordEffect DEF RecordCanceled
<1>16. ASSUME RunReturns PROVE TypeInv'
  BY <1>16, PoolAssumption DEF RunReturns
<1>17. ASSUME Exit PROVE TypeInv'
  BY <1>17, VanishTypeInv DEF Exit
<1>18. ASSUME Crash PROVE TypeInv'
  <2>1. /\ latest' \in [Jobs -> Known]
        /\ tail' \in {"clean", "open", "torn"}
    BY <1>18 DEF Crash, InFlight, WriteLine, WriteUnterminated, WritePart
  <2>2. crashes' \in 0..MaxCrashes
    <3>1. crashes \in Nat /\ MaxCrashes \in Nat
      BY BoundsAssumption
    <3>2. crashes < MaxCrashes /\ crashes' = crashes + 1
      BY <1>18 DEF Crash
    <3>3. QED
      BY <3>1, <3>2
  <2>3. /\ runErr' \in BOOLEAN /\ failed' \in BOOLEAN /\ faults' \in 0..MaxFaults
        /\ issued' \subseteq Jobs /\ accepted' \subseteq Jobs
    BY <1>18 DEF Crash
  <2>4. Vanish
    BY <1>18 DEF Crash
  <2>5. QED
    BY <2>1, <2>2, <2>3, <2>4, VanishTypeInv
<1>19. ASSUME Start PROVE TypeInv'
  BY <1>19, PoolAssumption DEF Start, Recover
<1>20. ASSUME StartRefused PROVE TypeInv'
  BY <1>20, PoolAssumption DEF StartRefused
<1>21. ASSUME RecoverOne PROVE TypeInv'
  <2>1. PICK j \in toRecover : RecordOK(j, "canceled") \/ RecordError(j, "canceled")
    BY <1>21 DEF RecoverOne
  <2>2. QED
    BY <1>21, <2>1, RecordEffect DEF RecoverOne
<1>22. ASSUME Serve PROVE TypeInv'
  BY <1>22, PoolAssumption DEF Serve
<1>23. CASE UNCHANGED vars
  BY <1>23, PoolAssumption DEF vars
<1>24. QED
  BY <1>1, <1>2, <1>3, <1>4, <1>5, <1>6, <1>7, <1>8, <1>9, <1>10, <1>11, <1>12, <1>13, <1>14, <1>15, <1>16, <1>17, <1>18, <1>19, <1>20, <1>21, <1>22, <1>23
  DEF Next, SubmitStep, WorkerStep, ManagerStep, StartStep

\* Every variable keeps its type in every behaviour of the daemon.
THEOREM TypeCorrect == Spec => []TypeOK
<1>1. TypeInv => TypeOK
  BY DEF TypeInv
<1>2. QED
  BY InitTypeInv, TypeInvStep, <1>1, PTL DEF Spec

-----------------------------------------------------------------------------
(* The inductive invariant is preserved, one conjunct at a time.           *)

\* A submitter in the middle of Submit.
LEMMA SubmitterFacts ==
    ASSUME IInv, NEW p \in Submitters, spc[p] # "idle"
    PROVE  /\ sjob[p] \in Jobs /\ sjob[p] \in issued
           /\ jobs[sjob[p]] \in {"pending", "canceled"}
           /\ \A q \in Submitters : sjob[q] = sjob[p] => q = p
           /\ \A i \in 1..Len(queue) : queue[i] # sjob[p]
           /\ \A w \in Workers : wjob[w] # sjob[p]
<1>1. sjob[p] \in Jobs /\ sjob[p] # NoJob
  BY DEF IInv, TypeInv, TypeOK, HandsOK
<1>2. jobs[sjob[p]] \in {"pending", "canceled"}
  BY <1>1 DEF IInv, SubmitterInv
<1>3. ASSUME NEW w \in Workers PROVE wjob[w] # sjob[p]
  <2>1. CASE wpc[w] \in {"idle", "exited"}
    BY <2>1, <1>1 DEF IInv, TypeInv, HandsOK
  <2>2. CASE wpc[w] \notin {"idle", "exited"}
    BY <2>2, <1>2 DEF IInv, WorkerInv, TypeInv, TypeOK, WorkerSteps
  <2>3. QED
    BY <2>1, <2>2
<1>4. QED
  BY <1>1, <1>2, <1>3 DEF IInv, SubmitterInv

\* A worker in the middle of execute.
LEMMA WorkerFacts ==
    ASSUME IInv, NEW w \in Workers, wpc[w] \notin {"idle", "exited"}
    PROVE  /\ wjob[w] \in Jobs /\ wjob[w] \in issued
           /\ jobs[wjob[w]] \in {"running", "succeeded", "failed"}
           /\ \A v \in Workers : wjob[v] = wjob[w] => v = w
           /\ \A p \in Submitters : sjob[p] # wjob[w]
           /\ phase \in {"up", "stopping"}
<1>1. wjob[w] \in Jobs /\ wjob[w] # NoJob
  BY DEF IInv, TypeInv, TypeOK, HandsOK
<1>2. jobs[wjob[w]] \in {"running", "succeeded", "failed"}
  BY DEF IInv, WorkerInv, TypeInv, TypeOK, WorkerSteps
<1>3. ASSUME NEW p \in Submitters PROVE sjob[p] # wjob[w]
  BY <1>1, <1>2 DEF IInv, SubmitterInv
<1>4. phase \in {"up", "stopping"}
  BY <1>1 DEF IInv, PhaseInv, TypeInv, TypeOK, Phases
<1>5. wjob[w] \in issued
  BY <1>1, <1>2 DEF IInv, IssuedInv
<1>6. QED
  BY <1>1, <1>2, <1>3, <1>4, <1>5 DEF IInv, WorkerInv

\* A record that claims no more than memory has reached keeps the journal
\* behind memory.
LEMMA RecordKeepsHistory ==
    ASSUME TypeOK, HistoryNeverAhead, NEW j \in Jobs, NEW s \in States,
           Recorded(j, s), jobs' = jobs,
           jobs[j] = "absent" \/ jobs[j] \in Reached(s)
    PROVE  HistoryNeverAhead'
<1>1. SUFFICES ASSUME NEW k \in Jobs, jobs[k] # "absent"
               PROVE  jobs[k] \in Reached(latest'[k])
  BY DEF HistoryNeverAhead
<1>2. latest'[k] = latest[k] \/ (k = j /\ latest'[k] = s)
  BY DEF Recorded, TypeOK
<1>3. jobs[k] \in Reached(latest[k])
  BY <1>1 DEF HistoryNeverAhead
<1>4. CASE latest'[k] = latest[k]
  BY <1>3, <1>4
<1>5. CASE k = j /\ latest'[k] = s
  BY <1>1, <1>5
<1>6. QED
  BY <1>2, <1>4, <1>5

\* Memory may move to any state the journaled one allows.
LEMMA AdvanceKeepsHistory ==
    ASSUME TypeOK, HistoryNeverAhead, NEW j \in Jobs, NEW s \in Known,
           jobs' = [jobs EXCEPT ![j] = s], latest' = latest,
           s = "absent" \/ s \in Reached(latest[j])
    PROVE  HistoryNeverAhead'
  BY DEF HistoryNeverAhead, TypeOK

LEMMA RecordKeepsDurable ==
    ASSUME TypeOK, AcceptedIsDurable, NEW j \in Jobs, NEW s \in States,
           Recorded(j, s), accepted' = accepted
    PROVE  AcceptedIsDurable'
  BY DEF AcceptedIsDurable, Recorded, TypeOK, States

LEMMA RecordKeepsScans ==
    ASSUME TypeOK, ScanIsJournaledFirst, NEW j \in Jobs, NEW s \in States,
           Recorded(j, s),
           \A w \in Workers : wpc'[w] = "scan" => wpc[w] = "scan" /\ wjob'[w] = wjob[w]
                                                  /\ wjob[w] \in Jobs /\ wjob[w] # j
    PROVE  ScanIsJournaledFirst'
  BY DEF ScanIsJournaledFirst, Recorded, TypeOK

\* The line a crash may leave is that of a job drawn before.
LEMMA CrashEffect ==
    ASSUME IInv, Crash
    PROVE  \/ UNCHANGED journal
           \/ \E j \in Jobs \cap issued, s \in States : Recorded(j, s)
<1>1. ASSUME NEW l \in InFlight
      PROVE  l[1] \in Jobs \cap issued /\ l[2] \in States
  <2>1. CASE \E p \in Submitters : spc[p] # "idle" /\ l[1] = sjob[p]
                                   /\ l[2] \in {"pending", "canceled"}
    BY <2>1, SubmitterFacts DEF States
  <2>2. CASE \E w \in Workers : wpc[w] = "recordRunning" /\ l[1] = wjob[w]
                                /\ l[2] = "running"
    BY <2>2, WorkerFacts DEF States
  <2>3. CASE \E w \in Workers : wpc[w] = "recordEnd" /\ l[1] = wjob[w]
                                /\ l[2] = jobs[wjob[w]]
    BY <2>3, WorkerFacts DEF States
  <2>4. CASE l[1] \in toCancel \cup toRecover /\ l[2] = "canceled"
    BY <2>4 DEF IInv, TypeInv, TypeOK, PhaseInv, States
  <2>5. QED
    BY <2>1, <2>2, <2>3, <2>4 DEF InFlight
<1>2. CASE UNCHANGED journal
  BY <1>2
<1>3. CASE \E l \in InFlight : \/ WriteLine(l[1], l[2])
                               \/ WriteUnterminated(l[1], l[2])
                               \/ WritePart
  <2>1. PICK l \in InFlight : \/ WriteLine(l[1], l[2])
                              \/ WriteUnterminated(l[1], l[2])
                              \/ WritePart
    BY <1>3
  <2>2. Recorded(l[1], l[2])
    BY <2>1 DEF WriteLine, WriteUnterminated, WritePart, Recorded, IInv, TypeInv, TypeOK
  <2>3. QED
    BY <1>1, <2>2
<1>4. QED
  BY <1>2, <1>3 DEF Crash

\* A submitter keeps its id to itself until it is queued.
LEMMA SubmitterInvStep == IInv /\ [Next]_vars => SubmitterInv'
<1> SUFFICES ASSUME IInv, [Next]_vars PROVE SubmitterInv'
  OBVIOUS
<1> USE SetsAssumption DEF IInv, TypeInv, TypeOK, HandsOK, SubmitterInv, memory, submit, pool, process, journal, ids
<1>1. ASSUME NEW p \in Submitters, SubmitRegister(p) PROVE SubmitterInv'
  <2>1. PICK j \in Jobs \ issued :
          /\ issued' = issued \cup {j}
          /\ jobs' = [jobs EXCEPT ![j] = "pending"]
          /\ sjob' = [sjob EXCEPT ![p] = j]
    BY <1>1 DEF SubmitRegister
  <2>2. /\ \A q \in Submitters : sjob[q] # j
        /\ \A i \in 1..Len(queue) : queue[i] # j
    BY <2>1 DEF IssuedInv
  <2>3. spc' = [spc EXCEPT ![p] = "recordPending"] /\ UNCHANGED <<queue, journal>>
    BY <1>1 DEF SubmitRegister
  <2>4. QED
    BY <2>1, <2>2, <2>3
<1>2. ASSUME NEW p \in Submitters, SubmitRecordPending(p) PROVE SubmitterInv'
  <2>1. sjob[p] \in Jobs /\ "pending" \in Known
    BY <1>2 DEF SubmitRecordPending, Known, States
  <2>2. Recorded(sjob[p], "pending")
    BY <1>2, <2>1, RecordEffect DEF SubmitRecordPending
  <2>3. spc'[p] = "enqueue" => latest'[sjob[p]] # "absent" \/ tail' = "torn"
    BY <1>2, <2>1, RecordOKEffect DEF SubmitRecordPending
  <2>4. \A q \in Submitters : q # p => spc'[q] = spc[q]
    BY <1>2 DEF SubmitRecordPending
  <2>5. spc'[p] \in {"enqueue", "withdraw"} /\ UNCHANGED <<jobs, queue, sjob, issued>>
    BY <1>2 DEF SubmitRecordPending
  <2>6. QED
    BY <2>1, <2>2, <2>3, <2>4, <2>5, <1>2 DEF Recorded, SubmitRecordPending
<1>3. ASSUME NEW p \in Submitters, SubmitWithdraw(p) PROVE SubmitterInv'
  <2>1. /\ jobs' = [jobs EXCEPT ![sjob[p]] = "absent"]
        /\ spc' = [spc EXCEPT ![p] = "idle"]
        /\ sjob' = [sjob EXCEPT ![p] = NoJob]
        /\ UNCHANGED <<queue, journal, issued>>
    BY <1>3 DEF SubmitWithdraw
  <2>2. \A q \in Submitters : sjob[q] = sjob[p] => q = p
    BY <1>3, SubmitterFacts DEF SubmitWithdraw
  <2>3. QED
    BY <2>1, <2>2
<1>4. ASSUME NEW p \in Submitters, SubmitEnqueue(p) PROVE SubmitterInv'
  BY <1>4 DEF SubmitEnqueue, Enqueue
<1>5. ASSUME NEW p \in Submitters, SubmitReject(p) PROVE SubmitterInv'
  BY <1>5 DEF SubmitReject
<1>6. ASSUME NEW p \in Submitters, SubmitRecordReject(p) PROVE SubmitterInv'
  <2>1. sjob[p] \in Jobs /\ "canceled" \in Known
    BY <1>6 DEF SubmitRecordReject, Known, States
  <2>2. Recorded(sjob[p], "canceled")
    BY <1>6, <2>1, RecordEffect DEF SubmitRecordReject
  <2>3. QED
    BY <1>6, <2>1, <2>2 DEF SubmitRecordReject, Recorded
<1>7. ASSUME NEW w \in Workers, WorkerTake(w) PROVE SubmitterInv'
  <2>1. /\ queue \in Seq(Jobs) /\ queue # <<>> /\ queue' = Tail(queue)
        /\ UNCHANGED <<spc, sjob, latest, tail, issued>>
        /\ \A j \in Jobs : j # Head(queue) => jobs'[j] = jobs[j]
    BY <1>7 DEF WorkerTake
  <2>2. /\ 1 \in 1..Len(queue) /\ Head(queue) = queue[1]
        /\ \A i \in 1..Len(queue') : i + 1 \in 1..Len(queue) /\ queue'[i] = queue[i + 1]
    BY <2>1
  <2>3. \A p \in Submitters : sjob[p] # NoJob =>
          sjob[p] \in Jobs /\ jobs'[sjob[p]] = jobs[sjob[p]]
    BY <2>1, <2>2
  <2>4. QED
    BY <2>1, <2>2, <2>3
<1>8. ASSUME NEW w \in Workers, WorkerRecordRunning(w) PROVE SubmitterInv'
  <2>1. wjob[w] \in Jobs /\ "running" \in Known
    BY <1>8 DEF WorkerRecordRunning, Known, States
  <2>2. Recorded(wjob[w], "running")
    BY <1>8, <2>1, RecordEffect DEF WorkerRecordRunning
  <2>3. QED
    BY <1>8, <2>1, <2>2 DEF WorkerRecordRunning, Recorded
<1>9. ASSUME NEW w \in Workers, WorkerScan(w) PROVE SubmitterInv'
  <2>1. \A p \in Submitters : sjob[p] # wjob[w]
    BY <1>9, WorkerFacts DEF WorkerScan
  <2>2. PICK s \in {"succeeded", "failed"} : jobs' = [jobs EXCEPT ![wjob[w]] = s]
    BY <1>9 DEF WorkerScan
  <2>3. UNCHANGED <<queue, submit, journal, issued>>
    BY <1>9 DEF WorkerScan
  <2>4. QED
    BY <2>1, <2>2, <2>3
<1>10. ASSUME NEW w \in Workers, WorkerRecordEnd(w) PROVE SubmitterInv'
  <2>1. wjob[w] \in Jobs /\ jobs[wjob[w]] \in Known
    BY <1>10 DEF WorkerRecordEnd, Known, States
  <2>2. Recorded(wjob[w], jobs[wjob[w]])
    BY <1>10, <2>1, RecordEffect DEF WorkerRecordEnd
  <2>3. QED
    BY <1>10, <2>1, <2>2 DEF WorkerRecordEnd, Recorded
<1>11. ASSUME NEW w \in Workers, WorkerExit(w) PROVE SubmitterInv'
  BY <1>11 DEF WorkerExit, Exited
<1>12. ASSUME StopRequested PROVE SubmitterInv'
  BY <1>12 DEF StopRequested
<1>13. ASSUME StopOnError PROVE SubmitterInv'
  BY <1>13 DEF StopOnError
<1>14. ASSUME CancelPending PROVE SubmitterInv'
  BY <1>14 DEF CancelPending, CancelJobs
<1>15. ASSUME RecordCanceled PROVE SubmitterInv'
  <2>1. PICK j \in toCancel : RecordOK(j, "canceled") \/ RecordError(j, "canceled")
    BY <1>15 DEF RecordCanceled
  <2>2. Recorded(j, "canceled")
    BY <2>1, RecordEffect DEF Known, States
  <2>3. QED
    BY <1>15, <2>2 DEF RecordCanceled, Recorded
<1>16. ASSUME RunReturns PROVE SubmitterInv'
  BY <1>16 DEF RunReturns
<1>17. ASSUME Exit PROVE SubmitterInv'
  BY <1>17 DEF Exit, Vanish
<1>18. ASSUME Crash PROVE SubmitterInv'
  BY <1>18 DEF Crash, Vanish
<1>19. ASSUME Start PROVE SubmitterInv'
  BY <1>19 DEF Start, Recover
<1>20. ASSUME StartRefused PROVE SubmitterInv'
  BY <1>20 DEF StartRefused
<1>21. ASSUME RecoverOne PROVE SubmitterInv'
  <2>1. PICK j \in toRecover : RecordOK(j, "canceled") \/ RecordError(j, "canceled")
    BY <1>21 DEF RecoverOne
  <2>2. Recorded(j, "canceled")
    BY <2>1, RecordEffect DEF Known, States
  <2>3. QED
    BY <1>21, <2>2 DEF RecoverOne, Recorded
<1>22. ASSUME Serve PROVE SubmitterInv'
  BY <1>22 DEF Serve
<1>23. CASE UNCHANGED vars
  BY <1>23 DEF vars
<1>24. QED
  BY <1>1, <1>2, <1>3, <1>4, <1>5, <1>6, <1>7, <1>8, <1>9, <1>10, <1>11, <1>12, <1>13, <1>14, <1>15, <1>16, <1>17, <1>18, <1>19, <1>20, <1>21, <1>22, <1>23
  DEF Next, SubmitStep, WorkerStep, ManagerStep, StartStep

\* A worker's job is advanced by nobody else.
LEMMA WorkerInvStep == IInv /\ [Next]_vars => WorkerInv'
<1> SUFFICES ASSUME IInv, [Next]_vars PROVE WorkerInv'
  OBVIOUS
<1> USE SetsAssumption DEF IInv, TypeInv, TypeOK, HandsOK, WorkerInv, memory, submit, pool, process, journal, ids
<1>1. ASSUME NEW p \in Submitters, SubmitRegister(p) PROVE WorkerInv'
  <2>1. PICK j \in Jobs \ issued : jobs' = [jobs EXCEPT ![j] = "pending"]
    BY <1>1 DEF SubmitRegister
  <2>2. \A w \in Workers : wpc[w] \notin {"idle", "exited"} => wjob[w] \in Jobs /\ wjob[w] # j
    BY <2>1, WorkerFacts
  <2>3. UNCHANGED pool
    BY <1>1 DEF SubmitRegister
  <2>4. QED
    BY <2>1, <2>2, <2>3
<1>2. ASSUME NEW p \in Submitters, SubmitRecordPending(p) PROVE WorkerInv'
  BY <1>2 DEF SubmitRecordPending
<1>3. ASSUME NEW p \in Submitters, SubmitWithdraw(p) PROVE WorkerInv'
  <2>1. jobs' = [jobs EXCEPT ![sjob[p]] = "absent"] /\ UNCHANGED pool
    BY <1>3 DEF SubmitWithdraw
  <2>2. \A w \in Workers : wjob[w] # sjob[p]
    BY <1>3, SubmitterFacts DEF SubmitWithdraw
  <2>3. QED
    BY <2>1, <2>2
<1>4. ASSUME NEW p \in Submitters, SubmitEnqueue(p) PROVE WorkerInv'
  BY <1>4 DEF SubmitEnqueue, Enqueue
<1>5. ASSUME NEW p \in Submitters, SubmitReject(p) PROVE WorkerInv'
  <2>1. jobs' = [jobs EXCEPT ![sjob[p]] = "canceled"] /\ UNCHANGED pool
    BY <1>5 DEF SubmitReject
  <2>2. \A w \in Workers : wjob[w] # sjob[p]
    BY <1>5, SubmitterFacts DEF SubmitReject
  <2>3. QED
    BY <2>1, <2>2
<1>6. ASSUME NEW p \in Submitters, SubmitRecordReject(p) PROVE WorkerInv'
  BY <1>6 DEF SubmitRecordReject
<1>7. ASSUME NEW w \in Workers, WorkerTake(w) PROVE WorkerInv'
  <2>1. CASE jobs[Head(queue)] # "pending"
    BY <1>7, <2>1 DEF WorkerTake
  <2>2. CASE jobs[Head(queue)] = "pending"
    <3>1. Head(queue) \in Jobs
      BY <1>7 DEF WorkerTake
    <3>2. \A v \in Workers : wjob[v] # Head(queue)
      BY <2>2, <3>1, WorkerFacts
    <3>3. /\ jobs' = [jobs EXCEPT ![Head(queue)] = "running"]
          /\ wpc' = [wpc EXCEPT ![w] = "recordRunning"]
          /\ wjob' = [wjob EXCEPT ![w] = Head(queue)]
      BY <1>7, <2>2 DEF WorkerTake
    <3>4. QED
      BY <3>1, <3>2, <3>3
  <2>3. QED
    BY <2>1, <2>2
<1>8. ASSUME NEW w \in Workers, WorkerRecordRunning(w) PROVE WorkerInv'
  BY <1>8 DEF WorkerRecordRunning
<1>9. ASSUME NEW w \in Workers, WorkerScan(w) PROVE WorkerInv'
  BY <1>9 DEF WorkerScan
<1>10. ASSUME NEW w \in Workers, WorkerRecordEnd(w) PROVE WorkerInv'
  BY <1>10 DEF WorkerRecordEnd
<1>11. ASSUME NEW w \in Workers, WorkerExit(w) PROVE WorkerInv'
  BY <1>11 DEF WorkerExit, Exited
<1>12. ASSUME StopRequested PROVE WorkerInv'
  BY <1>12 DEF StopRequested
<1>13. ASSUME StopOnError PROVE WorkerInv'
  BY <1>13 DEF StopOnError
<1>14. ASSUME CancelPending PROVE WorkerInv'
  BY <1>14 DEF CancelPending, CancelJobs
<1>15. ASSUME RecordCanceled PROVE WorkerInv'
  BY <1>15 DEF RecordCanceled
<1>16. ASSUME RunReturns PROVE WorkerInv'
  BY <1>16 DEF RunReturns
<1>17. ASSUME Exit PROVE WorkerInv'
  BY <1>17 DEF Exit, Vanish
<1>18. ASSUME Crash PROVE WorkerInv'
  BY <1>18 DEF Crash, Vanish
<1>19. ASSUME Start PROVE WorkerInv'
  BY <1>19 DEF Start, Recover
<1>20. ASSUME StartRefused PROVE WorkerInv'
  BY <1>20 DEF StartRefused
<1>21. ASSUME RecoverOne PROVE WorkerInv'
  BY <1>21 DEF RecoverOne
<1>22. ASSUME Serve PROVE WorkerInv'
  BY <1>22 DEF Serve
<1>23. CASE UNCHANGED vars
  BY <1>23 DEF vars
<1>24. QED
  BY <1>1, <1>2, <1>3, <1>4, <1>5, <1>6, <1>7, <1>8, <1>9, <1>10, <1>11, <1>12, <1>13, <1>14, <1>15, <1>16, <1>17, <1>18, <1>19, <1>20, <1>21, <1>22, <1>23
  DEF Next, SubmitStep, WorkerStep, ManagerStep, StartStep

\* Only ids that were drawn appear anywhere.
LEMMA IssuedInvStep == IInv /\ [Next]_vars => IssuedInv'
<1> SUFFICES ASSUME IInv, [Next]_vars PROVE IssuedInv'
  OBVIOUS
<1> USE SetsAssumption DEF IInv, TypeInv, TypeOK, HandsOK, IssuedInv, memory, submit, pool, process, journal, ids
<1>1. ASSUME NEW p \in Submitters, SubmitRegister(p) PROVE IssuedInv'
  BY <1>1 DEF SubmitRegister
<1>2. ASSUME NEW p \in Submitters, SubmitRecordPending(p) PROVE IssuedInv'
  <2>1. sjob[p] \in Jobs /\ sjob[p] \in issued /\ "pending" \in Known
    BY <1>2, SubmitterFacts DEF SubmitRecordPending, Known, States
  <2>2. Recorded(sjob[p], "pending")
    BY <1>2, <2>1, RecordEffect DEF SubmitRecordPending
  <2>3. UNCHANGED <<jobs, queue, issued>>
    BY <1>2 DEF SubmitRecordPending
  <2>4. QED
    BY <2>1, <2>2, <2>3 DEF Recorded
<1>3. ASSUME NEW p \in Submitters, SubmitWithdraw(p) PROVE IssuedInv'
  BY <1>3 DEF SubmitWithdraw
<1>4. ASSUME NEW p \in Submitters, SubmitEnqueue(p) PROVE IssuedInv'
  <2>1. sjob[p] \in Jobs /\ sjob[p] \in issued
    BY <1>4, SubmitterFacts DEF SubmitEnqueue, Enqueue
  <2>2. queue' = Append(queue, sjob[p]) /\ UNCHANGED <<jobs, latest, issued>>
    BY <1>4 DEF SubmitEnqueue, Enqueue
  <2>3. QED
    BY <2>1, <2>2
<1>5. ASSUME NEW p \in Submitters, SubmitReject(p) PROVE IssuedInv'
  <2>1. sjob[p] \in Jobs /\ sjob[p] \in issued
    BY <1>5, SubmitterFacts DEF SubmitReject
  <2>2. QED
    BY <1>5, <2>1 DEF SubmitReject
<1>6. ASSUME NEW p \in Submitters, SubmitRecordReject(p) PROVE IssuedInv'
  <2>1. sjob[p] \in Jobs /\ sjob[p] \in issued /\ "canceled" \in Known
    BY <1>6, SubmitterFacts DEF SubmitRecordReject, Known, States
  <2>2. Recorded(sjob[p], "canceled")
    BY <1>6, <2>1, RecordEffect DEF SubmitRecordReject
  <2>3. UNCHANGED <<jobs, queue, issued>>
    BY <1>6 DEF SubmitRecordReject
  <2>4. QED
    BY <2>1, <2>2, <2>3 DEF Recorded
<1>7. ASSUME NEW w \in Workers, WorkerTake(w) PROVE IssuedInv'
  BY <1>7 DEF WorkerTake
<1>8. ASSUME NEW w \in Workers, WorkerRecordRunning(w) PROVE IssuedInv'
  <2>1. wjob[w] \in Jobs /\ wjob[w] \in issued /\ "running" \in Known
    BY <1>8, WorkerFacts DEF WorkerRecordRunning, Known, States
  <2>2. Recorded(wjob[w], "running")
    BY <1>8, <2>1, RecordEffect DEF WorkerRecordRunning
  <2>3. UNCHANGED <<jobs, queue, issued>>
    BY <1>8 DEF WorkerRecordRunning
  <2>4. QED
    BY <2>1, <2>2, <2>3 DEF Recorded
<1>9. ASSUME NEW w \in Workers, WorkerScan(w) PROVE IssuedInv'
  <2>1. wjob[w] \in Jobs /\ wjob[w] \in issued
    BY <1>9, WorkerFacts DEF WorkerScan
  <2>2. QED
    BY <1>9, <2>1 DEF WorkerScan
<1>10. ASSUME NEW w \in Workers, WorkerRecordEnd(w) PROVE IssuedInv'
  <2>1. wjob[w] \in Jobs /\ wjob[w] \in issued /\ jobs[wjob[w]] \in Known
    BY <1>10, WorkerFacts DEF WorkerRecordEnd, Known, States
  <2>2. Recorded(wjob[w], jobs[wjob[w]])
    BY <1>10, <2>1, RecordEffect DEF WorkerRecordEnd
  <2>3. UNCHANGED <<jobs, queue, issued>>
    BY <1>10 DEF WorkerRecordEnd
  <2>4. QED
    BY <2>1, <2>2, <2>3 DEF Recorded
<1>11. ASSUME NEW w \in Workers, WorkerExit(w) PROVE IssuedInv'
  BY <1>11 DEF WorkerExit, Exited
<1>12. ASSUME StopRequested PROVE IssuedInv'
  BY <1>12 DEF StopRequested
<1>13. ASSUME StopOnError PROVE IssuedInv'
  BY <1>13 DEF StopOnError
<1>14. ASSUME CancelPending PROVE IssuedInv'
  BY <1>14 DEF CancelPending, CancelJobs
<1>15. ASSUME RecordCanceled PROVE IssuedInv'
  <2>1. PICK j \in toCancel : RecordOK(j, "canceled") \/ RecordError(j, "canceled")
    BY <1>15 DEF RecordCanceled
  <2>2. Recorded(j, "canceled") /\ j \in issued
    BY <2>1, RecordEffect DEF Known, States, PhaseInv
  <2>3. UNCHANGED <<jobs, queue, issued>>
    BY <1>15 DEF RecordCanceled
  <2>4. QED
    BY <2>2, <2>3 DEF Recorded
<1>16. ASSUME RunReturns PROVE IssuedInv'
  BY <1>16 DEF RunReturns
<1>17. ASSUME Exit PROVE IssuedInv'
  BY <1>17 DEF Exit, Vanish
<1>18. ASSUME Crash PROVE IssuedInv'
  <2>1. /\ jobs' = [j \in Jobs |-> "absent"] /\ queue' = <<>>
        /\ issued' = issued
    BY <1>18 DEF Crash, Vanish
  <2>2. \A j \in Jobs : latest'[j] # "absent" => j \in issued
    BY <1>18, CrashEffect DEF Recorded
  <2>3. QED
    BY <2>1, <2>2
<1>19. ASSUME Start PROVE IssuedInv'
  BY <1>19 DEF Start, Recover
<1>20. ASSUME StartRefused PROVE IssuedInv'
  BY <1>20 DEF StartRefused
<1>21. ASSUME RecoverOne PROVE IssuedInv'
  <2>1. PICK j \in toRecover : RecordOK(j, "canceled") \/ RecordError(j, "canceled")
    BY <1>21 DEF RecoverOne
  <2>2. Recorded(j, "canceled") /\ j \in issued
    BY <2>1, RecordEffect DEF Known, States, PhaseInv
  <2>3. UNCHANGED <<jobs, queue, issued>>
    BY <1>21 DEF RecoverOne
  <2>4. QED
    BY <2>2, <2>3 DEF Recorded
<1>22. ASSUME Serve PROVE IssuedInv'
  BY <1>22 DEF Serve
<1>23. CASE UNCHANGED vars
  BY <1>23 DEF vars
<1>24. QED
  BY <1>1, <1>2, <1>3, <1>4, <1>5, <1>6, <1>7, <1>8, <1>9, <1>10, <1>11, <1>12, <1>13, <1>14, <1>15, <1>16, <1>17, <1>18, <1>19, <1>20, <1>21, <1>22, <1>23
  DEF Next, SubmitStep, WorkerStep, ManagerStep, StartStep

\* Each phase starts from what the one before leaves behind.
LEMMA PhaseInvStep == IInv /\ [Next]_vars => PhaseInv'
<1> SUFFICES ASSUME IInv, [Next]_vars PROVE PhaseInv'
  OBVIOUS
<1> USE SetsAssumption DEF IInv, TypeInv, TypeOK, HandsOK, PhaseInv, memory, submit, pool, process, journal, ids
<1>1. ASSUME NEW p \in Submitters, SubmitRegister(p) PROVE PhaseInv'
  <2>1. PICK j \in Jobs \ issued :
          /\ issued' = issued \cup {j}
          /\ jobs' = [jobs EXCEPT ![j] = "pending"]
    BY <1>1 DEF SubmitRegister
  <2>2. \A k \in toCancel : k # j
    BY <2>1
  <2>3. phase \notin {"down", "recovering"} /\ UNCHANGED <<phase, toCancel, toRecover, wpc, wjob>>
    BY <1>1 DEF SubmitRegister, Serving
  <2>4. QED
    BY <2>1, <2>2, <2>3
<1>2. ASSUME NEW p \in Submitters, SubmitRecordPending(p) PROVE PhaseInv'
  BY <1>2 DEF SubmitRecordPending
<1>3. ASSUME NEW p \in Submitters, SubmitWithdraw(p) PROVE PhaseInv'
  BY <1>3 DEF SubmitWithdraw
<1>4. ASSUME NEW p \in Submitters, SubmitEnqueue(p) PROVE PhaseInv'
  BY <1>4 DEF SubmitEnqueue, Enqueue
<1>5. ASSUME NEW p \in Submitters, SubmitReject(p) PROVE PhaseInv'
  BY <1>5 DEF SubmitReject
<1>6. ASSUME NEW p \in Submitters, SubmitRecordReject(p) PROVE PhaseInv'
  BY <1>6 DEF SubmitRecordReject
<1>7. ASSUME NEW w \in Workers, WorkerTake(w) PROVE PhaseInv'
  BY <1>7 DEF WorkerTake
<1>8. ASSUME NEW w \in Workers, WorkerRecordRunning(w) PROVE PhaseInv'
  BY <1>8 DEF WorkerRecordRunning
<1>9. ASSUME NEW w \in Workers, WorkerScan(w) PROVE PhaseInv'
  BY <1>9 DEF WorkerScan
<1>10. ASSUME NEW w \in Workers, WorkerRecordEnd(w) PROVE PhaseInv'
  BY <1>10 DEF WorkerRecordEnd
<1>11. ASSUME NEW w \in Workers, WorkerExit(w) PROVE PhaseInv'
  BY <1>11 DEF WorkerExit, Exited
<1>12. ASSUME StopRequested PROVE PhaseInv'
  BY <1>12 DEF StopRequested
<1>13. ASSUME StopOnError PROVE PhaseInv'
  BY <1>13 DEF StopOnError
<1>14. ASSUME CancelPending PROVE PhaseInv'
  <2>1. /\ phase' = "canceling" /\ UNCHANGED <<pool, toRecover, issued>>
        /\ \A w \in Workers : wpc[w] = "exited"
        /\ toCancel' = {j \in Jobs : jobs[j] = "pending"}
        /\ \A j \in toCancel' : jobs'[j] = "canceled"
    BY <1>14 DEF CancelPending, CancelJobs
  <2>2. toCancel' \subseteq issued
    BY <2>1 DEF IssuedInv
  <2>3. QED
    BY <2>1, <2>2
<1>15. ASSUME RecordCanceled PROVE PhaseInv'
  BY <1>15 DEF RecordCanceled
<1>16. ASSUME RunReturns PROVE PhaseInv'
  BY <1>16 DEF RunReturns
<1>17. ASSUME Exit PROVE PhaseInv'
  BY <1>17 DEF Exit, Vanish
<1>18. ASSUME Crash PROVE PhaseInv'
  BY <1>18 DEF Crash, Vanish
<1>19. ASSUME Start PROVE PhaseInv'
  <2>1. toRecover' \subseteq issued
    BY <1>19 DEF Start, Recover, IssuedInv, Open
  <2>2. QED
    BY <1>19, <2>1 DEF Start, Recover
<1>20. ASSUME StartRefused PROVE PhaseInv'
  BY <1>20 DEF StartRefused
<1>21. ASSUME RecoverOne PROVE PhaseInv'
  BY <1>21 DEF RecoverOne
<1>22. ASSUME Serve PROVE PhaseInv'
  BY <1>22 DEF Serve
<1>23. CASE UNCHANGED vars
  BY <1>23 DEF vars
<1>24. QED
  BY <1>1, <1>2, <1>3, <1>4, <1>5, <1>6, <1>7, <1>8, <1>9, <1>10, <1>11, <1>12, <1>13, <1>14, <1>15, <1>16, <1>17, <1>18, <1>19, <1>20, <1>21, <1>22, <1>23
  DEF Next, SubmitStep, WorkerStep, ManagerStep, StartStep

\* Memory first, then the journal.
LEMMA HistoryNeverAheadStep == IInv /\ [Next]_vars => HistoryNeverAhead'
<1> SUFFICES ASSUME IInv, [Next]_vars PROVE HistoryNeverAhead'
  OBVIOUS
<1> USE SetsAssumption DEF IInv, TypeInv, TypeOK, HandsOK, States, Known,
        HistoryNeverAhead, memory, submit, pool, process, journal, ids
<1>1. ASSUME NEW p \in Submitters, SubmitRegister(p) PROVE HistoryNeverAhead'
  <2>1. PICK j \in Jobs \ issued : jobs' = [jobs EXCEPT ![j] = "pending"]
    BY <1>1 DEF SubmitRegister
  <2>2. "pending" \in Reached(latest[j])
    BY <2>1 DEF IssuedInv, Reached
  <2>3. QED
    BY <1>1, <2>1, <2>2, AdvanceKeepsHistory DEF SubmitRegister
<1>2. ASSUME NEW p \in Submitters, SubmitRecordPending(p) PROVE HistoryNeverAhead'
  <2>1. sjob[p] \in Jobs /\ "pending" \in States
    BY <1>2, SubmitterFacts DEF SubmitRecordPending
  <2>2. Recorded(sjob[p], "pending")
    BY <1>2, <2>1, RecordEffect DEF SubmitRecordPending
  <2>3. jobs[sjob[p]] \in Reached("pending")
    BY <1>2, <2>1, SubmitterFacts DEF SubmitRecordPending, Reached
  <2>4. QED
    BY <1>2, <2>1, <2>2, <2>3, RecordKeepsHistory DEF SubmitRecordPending
<1>3. ASSUME NEW p \in Submitters, SubmitWithdraw(p) PROVE HistoryNeverAhead'
  BY <1>3 DEF SubmitWithdraw
<1>4. ASSUME NEW p \in Submitters, SubmitEnqueue(p) PROVE HistoryNeverAhead'
  BY <1>4 DEF SubmitEnqueue, Enqueue
<1>5. ASSUME NEW p \in Submitters, SubmitReject(p) PROVE HistoryNeverAhead'
  <2>1. sjob[p] \in Jobs /\ jobs[sjob[p]] \in {"pending", "canceled"}
    BY <1>5, SubmitterFacts DEF SubmitReject
  <2>2. "canceled" \in Reached(latest[sjob[p]])
    BY <2>1 DEF Reached
  <2>3. QED
    BY <1>5, <2>1, <2>2, AdvanceKeepsHistory DEF SubmitReject
<1>6. ASSUME NEW p \in Submitters, SubmitRecordReject(p) PROVE HistoryNeverAhead'
  <2>1. sjob[p] \in Jobs /\ "canceled" \in States
    BY <1>6, SubmitterFacts DEF SubmitRecordReject
  <2>2. Recorded(sjob[p], "canceled")
    BY <1>6, <2>1, RecordEffect DEF SubmitRecordReject
  <2>3. jobs[sjob[p]] \in Reached("canceled")
    BY <1>6, <2>1, SubmitterFacts DEF SubmitRecordReject, Reached, SubmitterInv
  <2>4. QED
    BY <1>6, <2>1, <2>2, <2>3, RecordKeepsHistory DEF SubmitRecordReject
<1>7. ASSUME NEW w \in Workers, WorkerTake(w) PROVE HistoryNeverAhead'
  <2>1. CASE jobs[Head(queue)] # "pending"
    BY <1>7, <2>1 DEF WorkerTake
  <2>2. CASE jobs[Head(queue)] = "pending"
    <3>1. Head(queue) \in Jobs
      BY <1>7 DEF WorkerTake
    <3>2. "running" \in Reached(latest[Head(queue)])
      BY <2>2, <3>1 DEF Reached
    <3>3. QED
      BY <1>7, <2>2, <3>1, <3>2, AdvanceKeepsHistory DEF WorkerTake
  <2>3. QED
    BY <2>1, <2>2
<1>8. ASSUME NEW w \in Workers, WorkerRecordRunning(w) PROVE HistoryNeverAhead'
  <2>1. wjob[w] \in Jobs /\ "running" \in States
    BY <1>8, WorkerFacts DEF WorkerRecordRunning
  <2>2. Recorded(wjob[w], "running")
    BY <1>8, <2>1, RecordEffect DEF WorkerRecordRunning
  <2>3. jobs[wjob[w]] \in Reached("running")
    BY <1>8, <2>1, WorkerFacts DEF WorkerRecordRunning, Reached, WorkerInv
  <2>4. QED
    BY <1>8, <2>1, <2>2, <2>3, RecordKeepsHistory DEF WorkerRecordRunning
<1>9. ASSUME NEW w \in Workers, WorkerScan(w) PROVE HistoryNeverAhead'
  <2>1. wjob[w] \in Jobs /\ jobs[wjob[w]] = "running"
    BY <1>9, WorkerFacts DEF WorkerScan, WorkerInv
  <2>2. PICK s \in {"succeeded", "failed"} : jobs' = [jobs EXCEPT ![wjob[w]] = s]
    BY <1>9 DEF WorkerScan
  <2>3. s \in Reached(latest[wjob[w]])
    BY <2>1 DEF Reached
  <2>4. QED
    BY <1>9, <2>1, <2>2, <2>3, AdvanceKeepsHistory DEF WorkerScan
<1>10. ASSUME NEW w \in Workers, WorkerRecordEnd(w) PROVE HistoryNeverAhead'
  <2>1. wjob[w] \in Jobs /\ jobs[wjob[w]] \in States
    BY <1>10, WorkerFacts DEF WorkerRecordEnd
  <2>2. Recorded(wjob[w], jobs[wjob[w]])
    BY <1>10, <2>1, RecordEffect DEF WorkerRecordEnd
  <2>3. jobs[wjob[w]] \in Reached(jobs[wjob[w]])
    BY <1>10, <2>1, WorkerFacts DEF WorkerRecordEnd, Reached, WorkerInv
  <2>4. QED
    BY <1>10, <2>1, <2>2, <2>3, RecordKeepsHistory DEF WorkerRecordEnd
<1>11. ASSUME NEW w \in Workers, WorkerExit(w) PROVE HistoryNeverAhead'
  BY <1>11 DEF WorkerExit, Exited
<1>12. ASSUME StopRequested PROVE HistoryNeverAhead'
  BY <1>12 DEF StopRequested
<1>13. ASSUME StopOnError PROVE HistoryNeverAhead'
  BY <1>13 DEF StopOnError
<1>14. ASSUME CancelPending PROVE HistoryNeverAhead'
  <2>1. SUFFICES ASSUME NEW j \in Jobs, jobs'[j] # "absent"
                 PROVE  jobs'[j] \in Reached(latest[j])
    BY <1>14 DEF CancelPending, CancelJobs
  <2>2. jobs'[j] = jobs[j] \/ (jobs[j] = "pending" /\ jobs'[j] = "canceled")
    BY <1>14 DEF CancelPending, CancelJobs
  <2>3. QED
    BY <2>1, <2>2 DEF Reached
<1>15. ASSUME RecordCanceled PROVE HistoryNeverAhead'
  <2>1. PICK j \in toCancel : RecordOK(j, "canceled") \/ RecordError(j, "canceled")
    BY <1>15 DEF RecordCanceled
  <2>2. j \in Jobs /\ Recorded(j, "canceled")
    BY <2>1, RecordEffect
  <2>3. jobs[j] = "absent" \/ jobs[j] \in Reached("canceled")
    BY <1>15, <2>2 DEF RecordCanceled, Reached, PhaseInv
  <2>4. QED
    BY <1>15, <2>2, <2>3, RecordKeepsHistory DEF RecordCanceled
<1>16. ASSUME RunReturns PROVE HistoryNeverAhead'
  BY <1>16 DEF RunReturns
<1>17. ASSUME Exit PROVE HistoryNeverAhead'
  BY <1>17 DEF Exit, Vanish
<1>18. ASSUME Crash PROVE HistoryNeverAhead'
  BY <1>18 DEF Crash, Vanish
<1>19. ASSUME Start PROVE HistoryNeverAhead'
  BY <1>19 DEF Start, Recover
<1>20. ASSUME StartRefused PROVE HistoryNeverAhead'
  BY <1>20 DEF StartRefused
<1>21. ASSUME RecoverOne PROVE HistoryNeverAhead'
  <2>1. PICK j \in toRecover : RecordOK(j, "canceled") \/ RecordError(j, "canceled")
    BY <1>21 DEF RecoverOne
  <2>2. j \in Jobs /\ Recorded(j, "canceled")
    BY <2>1, RecordEffect
  <2>3. jobs[j] = "absent" \/ jobs[j] \in Reached("canceled")
    BY <1>21, <2>2 DEF RecoverOne, Reached, PhaseInv
  <2>4. QED
    BY <1>21, <2>2, <2>3, RecordKeepsHistory DEF RecoverOne
<1>22. ASSUME Serve PROVE HistoryNeverAhead'
  BY <1>22 DEF Serve
<1>23. CASE UNCHANGED vars
  BY <1>23 DEF vars
<1>24. QED
  BY <1>1, <1>2, <1>3, <1>4, <1>5, <1>6, <1>7, <1>8, <1>9, <1>10, <1>11, <1>12, <1>13, <1>14, <1>15, <1>16, <1>17, <1>18, <1>19, <1>20, <1>21, <1>22, <1>23
  DEF Next, SubmitStep, WorkerStep, ManagerStep, StartStep

\* A scan in progress stays journaled as running.
LEMMA ScanIsJournaledFirstStep == IInv /\ [Next]_vars => ScanIsJournaledFirst'
<1> SUFFICES ASSUME IInv, [Next]_vars PROVE ScanIsJournaledFirst'
  OBVIOUS
<1> USE SetsAssumption DEF IInv, TypeInv, TypeOK, HandsOK, States, Known,
        ScanIsJournaledFirst, memory, submit, pool, process, journal, ids
<1>1. ASSUME NEW p \in Submitters, SubmitRegister(p) PROVE ScanIsJournaledFirst'
  BY <1>1 DEF SubmitRegister
<1>2. ASSUME NEW p \in Submitters, SubmitRecordPending(p) PROVE ScanIsJournaledFirst'
  <2>1. sjob[p] \in Jobs /\ "pending" \in States
    BY <1>2, SubmitterFacts DEF SubmitRecordPending
  <2>2. Recorded(sjob[p], "pending")
    BY <1>2, <2>1, RecordEffect DEF SubmitRecordPending
  <2>3. \A v \in Workers : wpc[v] = "scan" => wjob[v] \in Jobs /\ wjob[v] # sjob[p]
    BY <1>2, SubmitterFacts, WorkerFacts DEF SubmitRecordPending
  <2>4. QED
    BY <1>2, <2>1, <2>2, <2>3, RecordKeepsScans DEF SubmitRecordPending
<1>3. ASSUME NEW p \in Submitters, SubmitWithdraw(p) PROVE ScanIsJournaledFirst'
  BY <1>3 DEF SubmitWithdraw
<1>4. ASSUME NEW p \in Submitters, SubmitEnqueue(p) PROVE ScanIsJournaledFirst'
  BY <1>4 DEF SubmitEnqueue, Enqueue
<1>5. ASSUME NEW p \in Submitters, SubmitReject(p) PROVE ScanIsJournaledFirst'
  BY <1>5 DEF SubmitReject
<1>6. ASSUME NEW p \in Submitters, SubmitRecordReject(p) PROVE ScanIsJournaledFirst'
  <2>1. sjob[p] \in Jobs /\ "canceled" \in States
    BY <1>6, SubmitterFacts DEF SubmitRecordReject
  <2>2. Recorded(sjob[p], "canceled")
    BY <1>6, <2>1, RecordEffect DEF SubmitRecordReject
  <2>3. \A v \in Workers : wpc[v] = "scan" => wjob[v] \in Jobs /\ wjob[v] # sjob[p]
    BY <1>6, SubmitterFacts, WorkerFacts DEF SubmitRecordReject
  <2>4. QED
    BY <1>6, <2>1, <2>2, <2>3, RecordKeepsScans DEF SubmitRecordReject
<1>7. ASSUME NEW w \in Workers, WorkerTake(w) PROVE ScanIsJournaledFirst'
  BY <1>7 DEF WorkerTake
<1>8. ASSUME NEW w \in Workers, WorkerRecordRunning(w) PROVE ScanIsJournaledFirst'
  <2>1. /\ wjob[w] \in Jobs /\ wpc[w] = "recordRunning"
        /\ \A v \in Workers : wjob[v] = wjob[w] => v = w
    BY <1>8, WorkerFacts DEF WorkerRecordRunning
  <2>2. Recorded(wjob[w], "running")
    BY <1>8, <2>1, RecordEffect DEF WorkerRecordRunning
  <2>3. CASE wpc' = [wpc EXCEPT ![w] = "idle"] /\ wjob' = [wjob EXCEPT ![w] = NoJob]
    <3>1. \A v \in Workers : wpc'[v] = "scan" => wpc[v] = "scan" /\ wjob'[v] = wjob[v]
                                /\ wjob[v] \in Jobs /\ wjob[v] # wjob[w]
      BY <2>1, <2>3, WorkerFacts
    <3>2. QED
      BY <2>1, <2>2, <3>1, RecordKeepsScans
  <2>4. CASE RecordOK(wjob[w], "running") /\ wpc' = [wpc EXCEPT ![w] = "scan"] /\ wjob' = wjob
    <3>1. latest'[wjob[w]] = "running" \/ tail' = "torn"
      BY <2>1, <2>4, RecordOKEffect
    <3>2. \A v \in Workers : v # w /\ wpc[v] = "scan" => wjob[v] \in Jobs /\ wjob[v] # wjob[w]
      BY <2>1, WorkerFacts
    <3>3. QED
      BY <2>1, <2>2, <2>4, <3>1, <3>2 DEF Recorded
  <2>5. QED
    BY <1>8, <2>3, <2>4 DEF WorkerRecordRunning
<1>9. ASSUME NEW w \in Workers, WorkerScan(w) PROVE ScanIsJournaledFirst'
  BY <1>9 DEF WorkerScan
<1>10. ASSUME NEW w \in Workers, WorkerRecordEnd(w) PROVE ScanIsJournaledFirst'
  <2>1. wjob[w] \in Jobs /\ jobs[wjob[w]] \in States
    BY <1>10, WorkerFacts DEF WorkerRecordEnd
  <2>2. Recorded(wjob[w], jobs[wjob[w]])
    BY <1>10, <2>1, RecordEffect DEF WorkerRecordEnd
  <2>3. \A v \in Workers : wpc[v] = "scan" => wjob[v] \in Jobs /\ wjob[v] # wjob[w]
    BY <1>10, WorkerFacts, WorkerFacts DEF WorkerRecordEnd
  <2>4. QED
    BY <1>10, <2>1, <2>2, <2>3, RecordKeepsScans DEF WorkerRecordEnd
<1>11. ASSUME NEW w \in Workers, WorkerExit(w) PROVE ScanIsJournaledFirst'
  BY <1>11 DEF WorkerExit, Exited
<1>12. ASSUME StopRequested PROVE ScanIsJournaledFirst'
  BY <1>12 DEF StopRequested
<1>13. ASSUME StopOnError PROVE ScanIsJournaledFirst'
  BY <1>13 DEF StopOnError
<1>14. ASSUME CancelPending PROVE ScanIsJournaledFirst'
  BY <1>14 DEF CancelPending, CancelJobs
<1>15. ASSUME RecordCanceled PROVE ScanIsJournaledFirst'
  <2>1. \A w \in Workers : wpc[w] \in {"idle", "exited"}
    BY <1>15 DEF RecordCanceled, PhaseInv
  <2>2. UNCHANGED wpc
    BY <1>15 DEF RecordCanceled
  <2>3. QED
    BY <2>1, <2>2
<1>16. ASSUME RunReturns PROVE ScanIsJournaledFirst'
  BY <1>16 DEF RunReturns
<1>17. ASSUME Exit PROVE ScanIsJournaledFirst'
  BY <1>17 DEF Exit, Vanish
<1>18. ASSUME Crash PROVE ScanIsJournaledFirst'
  BY <1>18 DEF Crash, Vanish
<1>19. ASSUME Start PROVE ScanIsJournaledFirst'
  BY <1>19 DEF Start, Recover
<1>20. ASSUME StartRefused PROVE ScanIsJournaledFirst'
  BY <1>20 DEF StartRefused
<1>21. ASSUME RecoverOne PROVE ScanIsJournaledFirst'
  <2>1. \A w \in Workers : wpc[w] \in {"idle", "exited"}
    BY <1>21 DEF RecoverOne, PhaseInv
  <2>2. UNCHANGED wpc
    BY <1>21 DEF RecoverOne
  <2>3. QED
    BY <2>1, <2>2
<1>22. ASSUME Serve PROVE ScanIsJournaledFirst'
  BY <1>22 DEF Serve
<1>23. CASE UNCHANGED vars
  BY <1>23 DEF vars
<1>24. QED
  BY <1>1, <1>2, <1>3, <1>4, <1>5, <1>6, <1>7, <1>8, <1>9, <1>10, <1>11, <1>12, <1>13, <1>14, <1>15, <1>16, <1>17, <1>18, <1>19, <1>20, <1>21, <1>22, <1>23
  DEF Next, SubmitStep, WorkerStep, ManagerStep, StartStep

\* A snapshot is replaced, never removed.
LEMMA AcceptedIsDurableStep == IInv /\ [Next]_vars => AcceptedIsDurable'
<1> SUFFICES ASSUME IInv, [Next]_vars PROVE AcceptedIsDurable'
  OBVIOUS
<1> USE SetsAssumption DEF IInv, TypeInv, TypeOK, HandsOK, States, Known,
        AcceptedIsDurable, memory, submit, pool, process, journal, ids
<1>1. ASSUME NEW p \in Submitters, SubmitRegister(p) PROVE AcceptedIsDurable'
  BY <1>1 DEF SubmitRegister
<1>2. ASSUME NEW p \in Submitters, SubmitRecordPending(p) PROVE AcceptedIsDurable'
  <2>1. sjob[p] \in Jobs /\ "pending" \in Known
    BY <1>2 DEF SubmitRecordPending, Known, States
  <2>2. Recorded(sjob[p], "pending")
    BY <1>2, <2>1, RecordEffect DEF SubmitRecordPending
  <2>3. QED
    BY <1>2, <2>1, <2>2 DEF SubmitRecordPending, Recorded
<1>3. ASSUME NEW p \in Submitters, SubmitWithdraw(p) PROVE AcceptedIsDurable'
  BY <1>3 DEF SubmitWithdraw
<1>4. ASSUME NEW p \in Submitters, SubmitEnqueue(p) PROVE AcceptedIsDurable'
  <2>1. latest[sjob[p]] # "absent" \/ tail = "torn"
    BY <1>4 DEF SubmitEnqueue, Enqueue, SubmitterInv
  <2>2. QED
    BY <1>4, <2>1 DEF SubmitEnqueue, Enqueue
<1>5. ASSUME NEW p \in Submitters, SubmitReject(p) PROVE AcceptedIsDurable'
  BY <1>5 DEF SubmitReject
<1>6. ASSUME NEW p \in Submitters, SubmitRecordReject(p) PROVE AcceptedIsDurable'
  <2>1. sjob[p] \in Jobs /\ "canceled" \in Known
    BY <1>6 DEF SubmitRecordReject, Known, States
  <2>2. Recorded(sjob[p], "canceled")
    BY <1>6, <2>1, RecordEffect DEF SubmitRecordReject
  <2>3. QED
    BY <1>6, <2>1, <2>2 DEF SubmitRecordReject, Recorded
<1>7. ASSUME NEW w \in Workers, WorkerTake(w) PROVE AcceptedIsDurable'
  BY <1>7 DEF WorkerTake
<1>8. ASSUME NEW w \in Workers, WorkerRecordRunning(w) PROVE AcceptedIsDurable'
  <2>1. wjob[w] \in Jobs /\ "running" \in Known
    BY <1>8 DEF WorkerRecordRunning, Known, States
  <2>2. Recorded(wjob[w], "running")
    BY <1>8, <2>1, RecordEffect DEF WorkerRecordRunning
  <2>3. QED
    BY <1>8, <2>1, <2>2 DEF WorkerRecordRunning, Recorded
<1>9. ASSUME NEW w \in Workers, WorkerScan(w) PROVE AcceptedIsDurable'
  BY <1>9 DEF WorkerScan
<1>10. ASSUME NEW w \in Workers, WorkerRecordEnd(w) PROVE AcceptedIsDurable'
  <2>1. wjob[w] \in Jobs /\ jobs[wjob[w]] \in States
    BY <1>10, WorkerFacts DEF WorkerRecordEnd
  <2>2. Recorded(wjob[w], jobs[wjob[w]])
    BY <1>10, <2>1, RecordEffect DEF WorkerRecordEnd
  <2>3. QED
    BY <1>10, <2>1, <2>2, RecordKeepsDurable DEF WorkerRecordEnd
<1>11. ASSUME NEW w \in Workers, WorkerExit(w) PROVE AcceptedIsDurable'
  BY <1>11 DEF WorkerExit, Exited
<1>12. ASSUME StopRequested PROVE AcceptedIsDurable'
  BY <1>12 DEF StopRequested
<1>13. ASSUME StopOnError PROVE AcceptedIsDurable'
  BY <1>13 DEF StopOnError
<1>14. ASSUME CancelPending PROVE AcceptedIsDurable'
  BY <1>14 DEF CancelPending, CancelJobs
<1>15. ASSUME RecordCanceled PROVE AcceptedIsDurable'
  <2>1. PICK j \in toCancel : RecordOK(j, "canceled") \/ RecordError(j, "canceled")
    BY <1>15 DEF RecordCanceled
  <2>2. Recorded(j, "canceled")
    BY <2>1, RecordEffect DEF Known, States
  <2>3. QED
    BY <1>15, <2>2 DEF RecordCanceled, Recorded
<1>16. ASSUME RunReturns PROVE AcceptedIsDurable'
  BY <1>16 DEF RunReturns
<1>17. ASSUME Exit PROVE AcceptedIsDurable'
  BY <1>17 DEF Exit, Vanish
<1>18. ASSUME Crash PROVE AcceptedIsDurable'
  <2>1. accepted' = accepted
    BY <1>18 DEF Crash
  <2>2. QED
    BY <1>18, <2>1, CrashEffect, RecordKeepsDurable DEF Crash
<1>19. ASSUME Start PROVE AcceptedIsDurable'
  BY <1>19 DEF Start, Recover
<1>20. ASSUME StartRefused PROVE AcceptedIsDurable'
  BY <1>20 DEF StartRefused
<1>21. ASSUME RecoverOne PROVE AcceptedIsDurable'
  <2>1. PICK j \in toRecover : RecordOK(j, "canceled") \/ RecordError(j, "canceled")
    BY <1>21 DEF RecoverOne
  <2>2. Recorded(j, "canceled")
    BY <2>1, RecordEffect DEF Known, States
  <2>3. QED
    BY <1>21, <2>2 DEF RecoverOne, Recorded
<1>22. ASSUME Serve PROVE AcceptedIsDurable'
  BY <1>22 DEF Serve
<1>23. CASE UNCHANGED vars
  BY <1>23 DEF vars
<1>24. QED
  BY <1>1, <1>2, <1>3, <1>4, <1>5, <1>6, <1>7, <1>8, <1>9, <1>10, <1>11, <1>12, <1>13, <1>14, <1>15, <1>16, <1>17, <1>18, <1>19, <1>20, <1>21, <1>22, <1>23
  DEF Next, SubmitStep, WorkerStep, ManagerStep, StartStep

-----------------------------------------------------------------------------
(* The theorems.                                                           *)

LEMMA InitIInv == Init => IInv
<1> SUFFICES ASSUME Init PROVE IInv
  OBVIOUS
<1>1. TypeInv
  BY InitTypeInv
<1>2. SubmitterInv /\ WorkerInv
  BY SetsAssumption DEF Init, SubmitterInv, WorkerInv
<1>3. IssuedInv /\ PhaseInv
  BY DEF Init, IssuedInv, PhaseInv
<1>4. HistoryNeverAhead /\ ScanIsJournaledFirst /\ AcceptedIsDurable
  BY DEF Init, HistoryNeverAhead, ScanIsJournaledFirst, AcceptedIsDurable
<1>5. QED
  BY <1>1, <1>2, <1>3, <1>4 DEF IInv

LEMMA IInvStep == IInv /\ [Next]_vars => IInv'
<1> SUFFICES ASSUME IInv, [Next]_vars PROVE IInv'
  OBVIOUS
<1>1. TypeInv'
  BY TypeInvStep DEF IInv
<1>2. QED
  BY <1>1, SubmitterInvStep, WorkerInvStep, IssuedInvStep, PhaseInvStep,
     HistoryNeverAheadStep, ScanIsJournaledFirstStep, AcceptedIsDurableStep
  DEF IInv

\* The journal never shows a job further than the running daemon has taken
\* it: Manager.jobs changes first, the record follows.
THEOREM JournalFollowsMemory == Spec => []HistoryNeverAhead
<1>1. IInv => HistoryNeverAhead
  BY DEF IInv
<1>2. QED
  BY InitIInv, IInvStep, <1>1, PTL DEF Spec

\* No scan runs whose start is not in a journal that can be replayed.
THEOREM ScansAreJournaled == Spec => []ScanIsJournaledFirst
<1>1. IInv => ScanIsJournaledFirst
  BY DEF IInv
<1>2. QED
  BY InitIInv, IInvStep, <1>1, PTL DEF Spec

\* A job whose Submit returned nil stays in a journal that can be replayed.
THEOREM SubmissionsAreDurable == Spec => []AcceptedIsDurable
<1>1. IInv => AcceptedIsDurable
  BY DEF IInv
<1>2. QED
  BY InitIInv, IInvStep, <1>1, PTL DEF Spec

-----------------------------------------------------------------------------
(* What the replayed history promises.                                     *)

\* What the journal shows of a job whose next line is on its way.
LinesInv ==
    /\ \A p \in Submitters :
         spc[p] = "recordPending" => latest[sjob[p]] \in {"absent", "canceled"}
    /\ \A w \in Workers :
         wpc[w] = "recordRunning" => latest[wjob[w]] = "pending" \/ tail = "torn"
    /\ \A w \in Workers :
         wpc[w] = "recordEnd" => latest[wjob[w]] = "running" \/ tail = "torn"

\* What it shows of the jobs a shutdown or a start is about to close.
ClosingInv ==
    /\ \A j \in toCancel : latest[j] \in {"absent", "pending", "canceled"}
    /\ \A j \in toRecover : latest[j] \in Open
    /\ phase # "recovering" => toRecover = {}

QueuedInv == \A i \in 1..Len(queue) : queue[i] \in accepted

HistInv == LinesInv /\ ClosingInv /\ QueuedInv

\* The line of one goroutine leaves what the others are about to add to.
LEMMA RecordKeepsLines ==
    ASSUME IInv, LinesInv, NEW j \in Jobs, NEW s \in States, Recorded(j, s),
           \A p \in Submitters : spc'[p] = "recordPending" =>
             spc[p] = "recordPending" /\ sjob'[p] = sjob[p]
               /\ (sjob[p] # j \/ s = "canceled"),
           \A w \in Workers : wpc'[w] \in {"recordRunning", "recordEnd"} =>
             wpc'[w] = wpc[w] /\ wjob'[w] = wjob[w] /\ wjob[w] # j
    PROVE  LinesInv'
<1>1. latest' = latest \/ latest' = [latest EXCEPT ![j] = s]
  BY DEF Recorded
<1>2. \A k \in Jobs : latest'[k] = latest[k] \/ (k = j /\ latest'[k] = s)
  BY <1>1 DEF IInv, TypeInv, TypeOK
<1>3. tail = "torn" => tail' = "torn"
  BY DEF Recorded
<1>4. ASSUME NEW p \in Submitters, spc'[p] = "recordPending"
      PROVE  latest'[sjob'[p]] \in {"absent", "canceled"}
  <2>1. sjob[p] \in Jobs
    BY <1>4, SubmitterFacts
  <2>2. QED
    BY <1>2, <1>4, <2>1 DEF LinesInv
<1>5. ASSUME NEW w \in Workers, wpc'[w] \in {"recordRunning", "recordEnd"}
      PROVE  wpc'[w] = wpc[w] /\ wjob'[w] = wjob[w] /\ latest'[wjob[w]] = latest[wjob[w]]
  <2>1. wjob[w] \in Jobs
    BY <1>5, WorkerFacts
  <2>2. QED
    BY <1>2, <1>5, <2>1
<1>6. QED
  BY <1>3, <1>4, <1>5 DEF LinesInv

\* A line that is on its way extends what the journal shows by one step.
LEMMA LinesInvStep == IInv /\ HistInv /\ [Next]_vars => LinesInv'
<1> SUFFICES ASSUME IInv, HistInv, [Next]_vars PROVE LinesInv'
  OBVIOUS
<1> USE SetsAssumption DEF IInv, TypeInv, TypeOK, HandsOK, States, Known, HistInv, LinesInv,
        memory, submit, pool, process, journal, ids
<1>1. ASSUME NEW p \in Submitters, SubmitRegister(p) PROVE LinesInv'
  <2>1. PICK j \in Jobs \ issued : sjob' = [sjob EXCEPT ![p] = j]
    BY <1>1 DEF SubmitRegister
  <2>2. latest[j] = "absent"
    BY <2>1 DEF IssuedInv
  <2>3. QED
    BY <1>1, <2>1, <2>2 DEF SubmitRegister
<1>2. ASSUME NEW p \in Submitters, SubmitRecordPending(p) PROVE LinesInv'
  <2>1. sjob[p] \in Jobs /\ "pending" \in States
    BY <1>2, SubmitterFacts DEF SubmitRecordPending
  <2>2. Recorded(sjob[p], "pending")
    BY <1>2, <2>1, RecordEffect DEF SubmitRecordPending
  <2>3. \A q \in Submitters : spc'[q] = "recordPending" =>
          spc[q] = "recordPending" /\ sjob'[q] = sjob[q] /\ sjob[q] # sjob[p]
    BY <1>2, SubmitterFacts DEF SubmitRecordPending
  <2>4. \A v \in Workers : wpc'[v] = wpc[v] /\ wjob'[v] = wjob[v] /\ wjob[v] # sjob[p]
    BY <1>2, SubmitterFacts DEF SubmitRecordPending
  <2>5. QED
    BY <2>1, <2>2, <2>3, <2>4, RecordKeepsLines
<1>3. ASSUME NEW p \in Submitters, SubmitWithdraw(p) PROVE LinesInv'
  BY <1>3 DEF SubmitWithdraw
<1>4. ASSUME NEW p \in Submitters, SubmitEnqueue(p) PROVE LinesInv'
  BY <1>4 DEF SubmitEnqueue, Enqueue
<1>5. ASSUME NEW p \in Submitters, SubmitReject(p) PROVE LinesInv'
  BY <1>5 DEF SubmitReject
<1>6. ASSUME NEW p \in Submitters, SubmitRecordReject(p) PROVE LinesInv'
  <2>1. sjob[p] \in Jobs /\ "canceled" \in States
    BY <1>6, SubmitterFacts DEF SubmitRecordReject
  <2>2. Recorded(sjob[p], "canceled")
    BY <1>6, <2>1, RecordEffect DEF SubmitRecordReject
  <2>3. \A q \in Submitters : spc'[q] = "recordPending" =>
          spc[q] = "recordPending" /\ sjob'[q] = sjob[q] /\ sjob[q] # sjob[p]
    BY <1>6, SubmitterFacts DEF SubmitRecordReject
  <2>4. \A v \in Workers : wpc'[v] = wpc[v] /\ wjob'[v] = wjob[v] /\ wjob[v] # sjob[p]
    BY <1>6, SubmitterFacts DEF SubmitRecordReject
  <2>5. QED
    BY <2>1, <2>2, <2>3, <2>4, RecordKeepsLines
<1>7. ASSUME NEW w \in Workers, WorkerTake(w) PROVE LinesInv'
  <2>1. CASE jobs[Head(queue)] # "pending"
    BY <1>7, <2>1 DEF WorkerTake
  <2>2. CASE jobs[Head(queue)] = "pending"
    <3>1. Head(queue) \in Jobs /\ Head(queue) \in accepted
      BY <1>7 DEF WorkerTake, QueuedInv
    <3>2. latest[Head(queue)] = "pending" \/ tail = "torn"
      BY <2>2, <3>1 DEF HistoryNeverAhead, AcceptedIsDurable, Reached
    <3>3. /\ wpc' = [wpc EXCEPT ![w] = "recordRunning"]
          /\ wjob' = [wjob EXCEPT ![w] = Head(queue)]
          /\ UNCHANGED <<spc, sjob, latest, tail>>
      BY <1>7, <2>2 DEF WorkerTake
    <3>4. QED
      BY <3>1, <3>2, <3>3
  <2>3. QED
    BY <2>1, <2>2
<1>8. ASSUME NEW w \in Workers, WorkerRecordRunning(w) PROVE LinesInv'
  <2>1. wjob[w] \in Jobs /\ "running" \in States
    BY <1>8, WorkerFacts DEF WorkerRecordRunning
  <2>2. Recorded(wjob[w], "running")
    BY <1>8, <2>1, RecordEffect DEF WorkerRecordRunning
  <2>3. \A q \in Submitters : spc'[q] = spc[q] /\ sjob'[q] = sjob[q] /\ sjob[q] # wjob[w]
    BY <1>8, WorkerFacts DEF WorkerRecordRunning
  <2>4. \A v \in Workers : wpc'[v] \in {"recordRunning", "recordEnd"} =>
          wpc'[v] = wpc[v] /\ wjob'[v] = wjob[v] /\ wjob[v] # wjob[w]
    BY <1>8, WorkerFacts DEF WorkerRecordRunning
  <2>5. QED
    BY <2>1, <2>2, <2>3, <2>4, RecordKeepsLines
<1>9. ASSUME NEW w \in Workers, WorkerScan(w) PROVE LinesInv'
  <2>1. latest[wjob[w]] = "running" \/ tail = "torn"
    BY <1>9 DEF WorkerScan, ScanIsJournaledFirst
  <2>2. QED
    BY <1>9, <2>1 DEF WorkerScan
<1>10. ASSUME NEW w \in Workers, WorkerRecordEnd(w) PROVE LinesInv'
  <2>1. wjob[w] \in Jobs /\ jobs[wjob[w]] \in States
    BY <1>10, WorkerFacts DEF WorkerRecordEnd
  <2>2. Recorded(wjob[w], jobs[wjob[w]])
    BY <1>10, <2>1, RecordEffect DEF WorkerRecordEnd
  <2>3. \A q \in Submitters : spc'[q] = spc[q] /\ sjob'[q] = sjob[q] /\ sjob[q] # wjob[w]
    BY <1>10, WorkerFacts DEF WorkerRecordEnd
  <2>4. \A v \in Workers : wpc'[v] \in {"recordRunning", "recordEnd"} =>
          wpc'[v] = wpc[v] /\ wjob'[v] = wjob[v] /\ wjob[v] # wjob[w]
    BY <1>10, WorkerFacts DEF WorkerRecordEnd
  <2>5. QED
    BY <2>1, <2>2, <2>3, <2>4, RecordKeepsLines
<1>11. ASSUME NEW w \in Workers, WorkerExit(w) PROVE LinesInv'
  BY <1>11 DEF WorkerExit, Exited
<1>12. ASSUME StopRequested PROVE LinesInv'
  BY <1>12 DEF StopRequested
<1>13. ASSUME StopOnError PROVE LinesInv'
  BY <1>13 DEF StopOnError
<1>14. ASSUME CancelPending PROVE LinesInv'
  BY <1>14 DEF CancelPending, CancelJobs
<1>15. ASSUME RecordCanceled PROVE LinesInv'
  <2>1. PICK j \in toCancel : RecordOK(j, "canceled") \/ RecordError(j, "canceled")
    BY <1>15 DEF RecordCanceled
  <2>2. j \in Jobs /\ Recorded(j, "canceled")
    BY <2>1, RecordEffect
  <2>3. \A v \in Workers : wpc[v] \notin {"recordRunning", "recordEnd"}
    BY <1>15, WorkerFacts DEF RecordCanceled
  <2>4. UNCHANGED <<spc, sjob, wpc, wjob>>
    BY <1>15 DEF RecordCanceled
  <2>5. QED
    BY <2>2, <2>3, <2>4, RecordKeepsLines
<1>16. ASSUME RunReturns PROVE LinesInv'
  BY <1>16 DEF RunReturns
<1>17. ASSUME Exit PROVE LinesInv'
  BY <1>17 DEF Exit, Vanish
<1>18. ASSUME Crash PROVE LinesInv'
  BY <1>18 DEF Crash, Vanish
<1>19. ASSUME Start PROVE LinesInv'
  BY <1>19 DEF Start, Recover
<1>20. ASSUME StartRefused PROVE LinesInv'
  BY <1>20 DEF StartRefused
<1>21. ASSUME RecoverOne PROVE LinesInv'
  <2>1. PICK j \in toRecover : RecordOK(j, "canceled") \/ RecordError(j, "canceled")
    BY <1>21 DEF RecoverOne
  <2>2. j \in Jobs /\ Recorded(j, "canceled")
    BY <2>1, RecordEffect
  <2>3. \A v \in Workers : wpc[v] \notin {"recordRunning", "recordEnd"}
    BY <1>21, WorkerFacts DEF RecoverOne
  <2>4. UNCHANGED <<spc, sjob, wpc, wjob>>
    BY <1>21 DEF RecoverOne
  <2>5. QED
    BY <2>2, <2>3, <2>4, RecordKeepsLines
<1>22. ASSUME Serve PROVE LinesInv'
  BY <1>22 DEF Serve
<1>23. CASE UNCHANGED vars
  BY <1>23 DEF vars
<1>24. QED
  BY <1>1, <1>2, <1>3, <1>4, <1>5, <1>6, <1>7, <1>8, <1>9, <1>10, <1>11, <1>12, <1>13, <1>14, <1>15, <1>16, <1>17, <1>18, <1>19, <1>20, <1>21, <1>22, <1>23
  DEF Next, SubmitStep, WorkerStep, ManagerStep, StartStep

\* A shutdown closes what never ran, a start what was open.
LEMMA ClosingInvStep == IInv /\ HistInv /\ [Next]_vars => ClosingInv'
<1> SUFFICES ASSUME IInv, HistInv, [Next]_vars PROVE ClosingInv'
  OBVIOUS
<1> USE SetsAssumption DEF IInv, TypeInv, TypeOK, HandsOK, States, Known, HistInv, ClosingInv,
        memory, submit, pool, process, journal, ids
<1>1. ASSUME NEW p \in Submitters, SubmitRegister(p) PROVE ClosingInv'
  BY <1>1 DEF SubmitRegister
<1>2. ASSUME NEW p \in Submitters, SubmitRecordPending(p) PROVE ClosingInv'
  <2>1. sjob[p] \in Jobs /\ "pending" \in States
    BY <1>2, SubmitterFacts DEF SubmitRecordPending
  <2>2. Recorded(sjob[p], "pending")
    BY <1>2, <2>1, RecordEffect DEF SubmitRecordPending
  <2>3. phase # "recovering" /\ toRecover = {}
    BY <1>2, <2>1 DEF SubmitRecordPending, PhaseInv
  <2>4. QED
    BY <1>2, <2>1, <2>2, <2>3 DEF SubmitRecordPending, Recorded
<1>3. ASSUME NEW p \in Submitters, SubmitWithdraw(p) PROVE ClosingInv'
  BY <1>3 DEF SubmitWithdraw
<1>4. ASSUME NEW p \in Submitters, SubmitEnqueue(p) PROVE ClosingInv'
  BY <1>4 DEF SubmitEnqueue, Enqueue
<1>5. ASSUME NEW p \in Submitters, SubmitReject(p) PROVE ClosingInv'
  BY <1>5 DEF SubmitReject
<1>6. ASSUME NEW p \in Submitters, SubmitRecordReject(p) PROVE ClosingInv'
  <2>1. sjob[p] \in Jobs /\ "canceled" \in States
    BY <1>6, SubmitterFacts DEF SubmitRecordReject
  <2>2. Recorded(sjob[p], "canceled")
    BY <1>6, <2>1, RecordEffect DEF SubmitRecordReject
  <2>3. phase # "recovering" /\ toRecover = {}
    BY <1>6, <2>1 DEF SubmitRecordReject, PhaseInv
  <2>4. QED
    BY <1>6, <2>1, <2>2, <2>3 DEF SubmitRecordReject, Recorded
<1>7. ASSUME NEW w \in Workers, WorkerTake(w) PROVE ClosingInv'
  BY <1>7 DEF WorkerTake
<1>8. ASSUME NEW w \in Workers, WorkerRecordRunning(w) PROVE ClosingInv'
  <2>1. wjob[w] \in Jobs /\ "running" \in States
    BY <1>8, WorkerFacts DEF WorkerRecordRunning
  <2>2. Recorded(wjob[w], "running")
    BY <1>8, <2>1, RecordEffect DEF WorkerRecordRunning
  <2>3. phase \in {"up", "stopping"} /\ toRecover = {} /\ toCancel = {}
    BY <1>8, WorkerFacts DEF WorkerRecordRunning, PhaseInv
  <2>4. QED
    BY <1>8, <2>3 DEF WorkerRecordRunning
<1>9. ASSUME NEW w \in Workers, WorkerScan(w) PROVE ClosingInv'
  BY <1>9 DEF WorkerScan
<1>10. ASSUME NEW w \in Workers, WorkerRecordEnd(w) PROVE ClosingInv'
  <2>1. wjob[w] \in Jobs /\ jobs[wjob[w]] \in States
    BY <1>10, WorkerFacts DEF WorkerRecordEnd
  <2>2. Recorded(wjob[w], jobs[wjob[w]])
    BY <1>10, <2>1, RecordEffect DEF WorkerRecordEnd
  <2>3. phase \in {"up", "stopping"} /\ toRecover = {} /\ toCancel = {}
    BY <1>10, WorkerFacts DEF WorkerRecordEnd, PhaseInv
  <2>4. QED
    BY <1>10, <2>3 DEF WorkerRecordEnd
<1>11. ASSUME NEW w \in Workers, WorkerExit(w) PROVE ClosingInv'
  BY <1>11 DEF WorkerExit, Exited
<1>12. ASSUME StopRequested PROVE ClosingInv'
  BY <1>12 DEF StopRequested
<1>13. ASSUME StopOnError PROVE ClosingInv'
  BY <1>13 DEF StopOnError
<1>14. ASSUME CancelPending PROVE ClosingInv'
  <2>1. /\ toCancel' = {j \in Jobs : jobs[j] = "pending"}
        /\ UNCHANGED <<latest, toRecover>>
        /\ phase = "stopping"
    BY <1>14 DEF CancelPending, CancelJobs
  <2>2. \A j \in toCancel' : latest[j] \in {"absent", "pending", "canceled"}
    BY <2>1 DEF HistoryNeverAhead, Reached
  <2>3. QED
    BY <2>1, <2>2
<1>15. ASSUME RecordCanceled PROVE ClosingInv'
  <2>1. PICK j \in toCancel : /\ toCancel' = toCancel \ {j}
                              /\ RecordOK(j, "canceled") \/ RecordError(j, "canceled")
    BY <1>15 DEF RecordCanceled
  <2>2. j \in Jobs /\ Recorded(j, "canceled")
    BY <2>1, RecordEffect
  <2>3. toRecover = {} /\ UNCHANGED <<phase, toRecover>>
    BY <1>15 DEF RecordCanceled
  <2>4. QED
    BY <2>1, <2>2, <2>3 DEF Recorded
<1>16. ASSUME RunReturns PROVE ClosingInv'
  BY <1>16 DEF RunReturns
<1>17. ASSUME Exit PROVE ClosingInv'
  BY <1>17 DEF Exit, Vanish
<1>18. ASSUME Crash PROVE ClosingInv'
  BY <1>18 DEF Crash, Vanish
<1>19. ASSUME Start PROVE ClosingInv'
  BY <1>19 DEF Start, Recover, Open, PhaseInv
<1>20. ASSUME StartRefused PROVE ClosingInv'
  BY <1>20 DEF StartRefused
<1>21. ASSUME RecoverOne PROVE ClosingInv'
  <2>1. PICK j \in toRecover : \/ /\ RecordOK(j, "canceled")
                                  /\ toRecover' = toRecover \ {j}
                                  /\ UNCHANGED phase
                               \/ RecordError(j, "canceled") /\ toRecover' = {}
    BY <1>21 DEF RecoverOne
  <2>2. j \in Jobs /\ Recorded(j, "canceled")
    BY <2>1, RecordEffect
  <2>3. toCancel' = {} /\ phase = "recovering"
    BY <1>21 DEF RecoverOne, PhaseInv
  <2>4. QED
    BY <2>1, <2>2, <2>3 DEF Recorded
<1>22. ASSUME Serve PROVE ClosingInv'
  BY <1>22 DEF Serve
<1>23. CASE UNCHANGED vars
  BY <1>23 DEF vars
<1>24. QED
  BY <1>1, <1>2, <1>3, <1>4, <1>5, <1>6, <1>7, <1>8, <1>9, <1>10, <1>11, <1>12, <1>13, <1>14, <1>15, <1>16, <1>17, <1>18, <1>19, <1>20, <1>21, <1>22, <1>23
  DEF Next, SubmitStep, WorkerStep, ManagerStep, StartStep

\* What is queued was accepted.
LEMMA QueuedInvStep == IInv /\ HistInv /\ [Next]_vars => QueuedInv'
<1> SUFFICES ASSUME IInv, HistInv, [Next]_vars PROVE QueuedInv'
  OBVIOUS
<1> USE DEF IInv, TypeInv, TypeOK, HistInv, QueuedInv,
        memory, submit, pool, process, journal, ids
<1>1. ASSUME NEW p \in Submitters, SubmitRegister(p) PROVE QueuedInv'
  BY <1>1 DEF SubmitRegister
<1>2. ASSUME NEW p \in Submitters, SubmitRecordPending(p) PROVE QueuedInv'
  BY <1>2 DEF SubmitRecordPending
<1>3. ASSUME NEW p \in Submitters, SubmitWithdraw(p) PROVE QueuedInv'
  BY <1>3 DEF SubmitWithdraw
<1>4. ASSUME NEW p \in Submitters, SubmitEnqueue(p) PROVE QueuedInv'
  <2>1. sjob[p] \in Jobs
    BY <1>4, SubmitterFacts DEF SubmitEnqueue, Enqueue
  <2>2. QED
    BY <1>4, <2>1 DEF SubmitEnqueue, Enqueue
<1>5. ASSUME NEW p \in Submitters, SubmitReject(p) PROVE QueuedInv'
  BY <1>5 DEF SubmitReject
<1>6. ASSUME NEW p \in Submitters, SubmitRecordReject(p) PROVE QueuedInv'
  BY <1>6 DEF SubmitRecordReject
<1>7. ASSUME NEW w \in Workers, WorkerTake(w) PROVE QueuedInv'
  BY <1>7 DEF WorkerTake
<1>8. ASSUME NEW w \in Workers, WorkerRecordRunning(w) PROVE QueuedInv'
  BY <1>8 DEF WorkerRecordRunning
<1>9. ASSUME NEW w \in Workers, WorkerScan(w) PROVE QueuedInv'
  BY <1>9 DEF WorkerScan
<1>10. ASSUME NEW w \in Workers, WorkerRecordEnd(w) PROVE QueuedInv'
  BY <1>10 DEF WorkerRecordEnd
<1>11. ASSUME NEW w \in Workers, WorkerExit(w) PROVE QueuedInv'
  BY <1>11 DEF WorkerExit, Exited
<1>12. ASSUME StopRequested PROVE QueuedInv'
  BY <1>12 DEF StopRequested
<1>13. ASSUME StopOnError PROVE QueuedInv'
  BY <1>13 DEF StopOnError
<1>14. ASSUME CancelPending PROVE QueuedInv'
  BY <1>14 DEF CancelPending, CancelJobs
<1>15. ASSUME RecordCanceled PROVE QueuedInv'
  BY <1>15 DEF RecordCanceled
<1>16. ASSUME RunReturns PROVE QueuedInv'
  BY <1>16 DEF RunReturns
<1>17. ASSUME Exit PROVE QueuedInv'
  BY <1>17 DEF Exit, Vanish
<1>18. ASSUME Crash PROVE QueuedInv'
  BY <1>18 DEF Crash, Vanish
<1>19. ASSUME Start PROVE QueuedInv'
  BY <1>19 DEF Start, Recover
<1>20. ASSUME StartRefused PROVE QueuedInv'
  BY <1>20 DEF StartRefused
<1>21. ASSUME RecoverOne PROVE QueuedInv'
  BY <1>21 DEF RecoverOne
<1>22. ASSUME Serve PROVE QueuedInv'
  BY <1>22 DEF Serve
<1>23. CASE UNCHANGED vars
  BY <1>23 DEF vars
<1>24. QED
  BY <1>1, <1>2, <1>3, <1>4, <1>5, <1>6, <1>7, <1>8, <1>9, <1>10, <1>11, <1>12, <1>13, <1>14, <1>15, <1>16, <1>17, <1>18, <1>19, <1>20, <1>21, <1>22, <1>23
  DEF Next, SubmitStep, WorkerStep, ManagerStep, StartStep


\* What one Record, or the crash that interrupts it, leaves in the journal: the
\* line, something that spoils the file, or nothing.
Appends(j, s) ==
    \/ latest' = latest /\ tail' \in {tail, "torn"}
    \/ /\ tail # "torn" /\ tail' # "torn"
       /\ latest' = [latest EXCEPT ![j] = s]

LEMMA RecordAppends ==
    ASSUME TypeOK, NEW j, NEW s, RecordOK(j, s) \/ RecordError(j, s)
    PROVE  Appends(j, s)
  BY DEF TypeOK, RecordOK, RecordError, WriteLine, WriteTooLong, WriteUnterminated, WritePart,
         Appends, journal

\* Every line of the journal is written by a goroutine that stands at a record.
LEMMA WriterInFlight ==
    ASSUME IInv, [Next]_vars
    PROVE  UNCHANGED journal \/ \E l \in InFlight : Appends(l[1], l[2])
<1> DEFINE Goal == UNCHANGED journal \/ \E l \in InFlight : Appends(l[1], l[2])
<1> SUFFICES Goal
  OBVIOUS
<1>0. TypeOK
  BY DEF IInv, TypeInv
<1>w. ASSUME NEW j, NEW s, <<j, s>> \in InFlight, RecordOK(j, s) \/ RecordError(j, s)
      PROVE  Goal
  <2>1. Appends(j, s)
    BY <1>0, <1>w, RecordAppends
  <2>2. QED
    BY <1>w, <2>1
<1>1. ASSUME NEW p \in Submitters, SubmitRegister(p) PROVE Goal
  BY <1>1 DEF SubmitRegister, journal
<1>2. ASSUME NEW p \in Submitters, SubmitRecordPending(p) PROVE Goal
  <2>1. <<sjob[p], "pending">> \in InFlight
    BY <1>2 DEF SubmitRecordPending, InFlight
  <2>2. RecordOK(sjob[p], "pending") \/ RecordError(sjob[p], "pending")
    BY <1>2 DEF SubmitRecordPending
  <2>3. QED
    BY <2>1, <2>2, <1>w
<1>3. ASSUME NEW p \in Submitters, SubmitWithdraw(p) PROVE Goal
  BY <1>3 DEF SubmitWithdraw, journal
<1>4. ASSUME NEW p \in Submitters, SubmitEnqueue(p) PROVE Goal
  BY <1>4 DEF SubmitEnqueue, Enqueue, journal
<1>5. ASSUME NEW p \in Submitters, SubmitReject(p) PROVE Goal
  BY <1>5 DEF SubmitReject, journal
<1>6. ASSUME NEW p \in Submitters, SubmitRecordReject(p) PROVE Goal
  <2>1. <<sjob[p], "canceled">> \in InFlight
    BY <1>6 DEF SubmitRecordReject, InFlight
  <2>2. RecordOK(sjob[p], "canceled") \/ RecordError(sjob[p], "canceled")
    BY <1>6 DEF SubmitRecordReject
  <2>3. QED
    BY <2>1, <2>2, <1>w
<1>7. ASSUME NEW w \in Workers, WorkerTake(w) PROVE Goal
  BY <1>7 DEF WorkerTake, journal
<1>8. ASSUME NEW w \in Workers, WorkerRecordRunning(w) PROVE Goal
  <2>1. <<wjob[w], "running">> \in InFlight
    BY <1>8 DEF WorkerRecordRunning, InFlight
  <2>2. RecordOK(wjob[w], "running") \/ RecordError(wjob[w], "running")
    BY <1>8 DEF WorkerRecordRunning
  <2>3. QED
    BY <2>1, <2>2, <1>w
<1>9. ASSUME NEW w \in Workers, WorkerScan(w) PROVE Goal
  BY <1>9 DEF WorkerScan, journal
<1>10. ASSUME NEW w \in Workers, WorkerRecordEnd(w) PROVE Goal
  <2>1. <<wjob[w], jobs[wjob[w]]>> \in InFlight
    BY <1>10 DEF WorkerRecordEnd, InFlight
  <2>2. RecordOK(wjob[w], jobs[wjob[w]]) \/ RecordError(wjob[w], jobs[wjob[w]])
    BY <1>10 DEF WorkerRecordEnd
  <2>3. QED
    BY <2>1, <2>2, <1>w
<1>11. ASSUME NEW w \in Workers, WorkerExit(w) PROVE Goal
  BY <1>11 DEF WorkerExit, Exited, journal
<1>12. ASSUME StopRequested PROVE Goal
  BY <1>12 DEF StopRequested, journal
<1>13. ASSUME StopOnError PROVE Goal
  BY <1>13 DEF StopOnError, journal
<1>14. ASSUME CancelPending PROVE Goal
  BY <1>14 DEF CancelPending, CancelJobs, journal
<1>15. ASSUME RecordCanceled PROVE Goal
  <2>1. PICK j \in toCancel : RecordOK(j, "canceled") \/ RecordError(j, "canceled")
    BY <1>15 DEF RecordCanceled
  <2>2. <<j, "canceled">> \in InFlight
    BY DEF InFlight
  <2>3. QED
    BY <2>1, <2>2, <1>w
<1>16. ASSUME RunReturns PROVE Goal
  BY <1>16 DEF RunReturns, journal
<1>17. ASSUME Exit PROVE Goal
  BY <1>17 DEF Exit, Vanish, journal
<1>18. ASSUME Crash PROVE Goal
  <2>1. CASE UNCHANGED journal
    BY <2>1
  <2>2. CASE \E l \in InFlight : \/ WriteLine(l[1], l[2])
                                 \/ WriteUnterminated(l[1], l[2])
                                 \/ WritePart
    BY <1>0, <2>2 DEF TypeOK, WriteLine, WriteUnterminated, WritePart, Appends
  <2>3. QED
    BY <1>18, <2>1, <2>2 DEF Crash
<1>19. ASSUME Start PROVE Goal
  BY <1>19 DEF Start, Recover, journal
<1>20. ASSUME StartRefused PROVE Goal
  BY <1>20 DEF StartRefused, journal
<1>21. ASSUME RecoverOne PROVE Goal
  <2>1. PICK j \in toRecover : RecordOK(j, "canceled") \/ RecordError(j, "canceled")
    BY <1>21 DEF RecoverOne
  <2>2. <<j, "canceled">> \in InFlight
    BY DEF InFlight
  <2>3. QED
    BY <2>1, <2>2, <1>w
<1>22. ASSUME Serve PROVE Goal
  BY <1>22 DEF Serve, journal
<1>23. CASE UNCHANGED vars
  BY <1>23 DEF vars
<1>24. QED
  BY <1>1, <1>2, <1>3, <1>4, <1>5, <1>6, <1>7, <1>8, <1>9, <1>10, <1>11, <1>12, <1>13, <1>14, <1>15, <1>16, <1>17, <1>18, <1>19, <1>20, <1>21, <1>22, <1>23
  DEF Next, SubmitStep, WorkerStep, ManagerStep, StartStep


\* The moves ScanHistory knows, and saying again what was said.
Legal(o, s) ==
    \/ s = "pending" /\ o \in {"absent", "canceled"}
    \/ s = "running" /\ o = "pending"
    \/ s \in {"succeeded", "failed"} /\ o = "running"
    \/ s = "canceled" /\ o \in {"absent", "pending", "running", "canceled"}

\* The line on its way is one the history allows, unless it can no longer be
\* read.
LEMMA InFlightIsLegal ==
    ASSUME IInv, HistInv, NEW l \in InFlight
    PROVE  l[1] \in Jobs /\ (Legal(latest[l[1]], l[2]) \/ tail = "torn")
<1>1. CASE \E p \in Submitters : spc[p] = "recordPending" /\ l = <<sjob[p], "pending">>
  BY <1>1, SubmitterFacts DEF HistInv, LinesInv, Legal
<1>2. CASE \E p \in Submitters : spc[p] = "recordReject" /\ l = <<sjob[p], "canceled">>
  <2>1. PICK p \in Submitters : spc[p] = "recordReject" /\ l = <<sjob[p], "canceled">>
    BY <1>2
  <2>2. sjob[p] \in Jobs /\ jobs[sjob[p]] = "canceled"
    BY <2>1, SubmitterFacts DEF IInv, SubmitterInv
  <2>3. latest[sjob[p]] \in {"absent", "pending", "canceled"}
    BY <2>2 DEF IInv, TypeInv, TypeOK, Known, States, HistoryNeverAhead, Reached
  <2>4. QED
    BY <2>1, <2>2, <2>3 DEF Legal
<1>3. CASE \E w \in Workers : wpc[w] = "recordRunning" /\ l = <<wjob[w], "running">>
  BY <1>3, WorkerFacts DEF HistInv, LinesInv, Legal
<1>4. CASE \E w \in Workers : wpc[w] = "recordEnd" /\ l = <<wjob[w], jobs[wjob[w]]>>
  BY <1>4, WorkerFacts DEF HistInv, LinesInv, Legal, IInv, WorkerInv
<1>5. CASE \E j \in toCancel \cup toRecover : l = <<j, "canceled">>
  BY <1>5 DEF HistInv, ClosingInv, Legal, IInv, TypeInv, TypeOK, Open
<1>6. QED
  BY <1>1, <1>2, <1>3, <1>4, <1>5 DEF InFlight

\* A legal line, or one that spoils the file, is a step of the history.
LEMMA LegalIsHistoryStep ==
    ASSUME TypeOK, NEW j \in Jobs, NEW s, Appends(j, s),
           Legal(latest[j], s) \/ tail = "torn"
    PROVE  [History!Next]_(History!vars)
<1> USE DEF History!Next, History!vars, History!Extend
<1>1. CASE latest' = latest /\ tail' \in {tail, "torn"}
  BY <1>1 DEF History!LoseHistory
<1>2. CASE /\ tail # "torn" /\ tail' # "torn"
           /\ latest' = [latest EXCEPT ![j] = s]
  <2>1. CASE s = "pending" /\ latest[j] \in {"absent", "canceled"}
    BY <1>2, <2>1 DEF History!Register, History!LatePending
  <2>2. CASE s = "running" /\ latest[j] = "pending"
    BY <1>2, <2>2 DEF History!Begin
  <2>3. CASE s \in {"succeeded", "failed"} /\ latest[j] = "running"
    BY <1>2, <2>3 DEF History!Finish, History!Outcomes
  <2>4. CASE s = "canceled" /\ latest[j] = "canceled"
    <3>1. latest' = latest
      BY <1>2, <2>4 DEF TypeOK
    <3>2. QED
      BY <1>2, <3>1
  <2>5. CASE s = "canceled" /\ latest[j] \in {"absent", "pending", "running"}
    BY <1>2, <2>5 DEF History!Cancel, History!Open
  <2>6. QED
    BY <1>2, <2>1, <2>2, <2>3, <2>4, <2>5 DEF Legal
<1>3. QED
  BY <1>1, <1>2 DEF Appends

LEMMA InitHistInv == Init => HistInv
<1> SUFFICES ASSUME Init PROVE HistInv
  OBVIOUS
<1>1. LinesInv
  BY DEF Init, LinesInv
<1>2. ClosingInv
  BY DEF Init, ClosingInv
<1>3. QueuedInv
  BY DEF Init, QueuedInv
<1>4. QED
  BY <1>1, <1>2, <1>3 DEF HistInv

LEMMA HistInvStep == IInv /\ HistInv /\ [Next]_vars => HistInv'
  BY LinesInvStep, ClosingInvStep, QueuedInvStep DEF HistInv

LEMMA HistoryStep == IInv /\ HistInv /\ [Next]_vars => [History!Next]_(History!vars)
<1> SUFFICES ASSUME IInv, HistInv, [Next]_vars PROVE [History!Next]_(History!vars)
  OBVIOUS
<1>1. CASE UNCHANGED journal
  BY <1>1 DEF journal, History!vars
<1>2. CASE \E l \in InFlight : Appends(l[1], l[2])
  <2>1. PICK l \in InFlight : Appends(l[1], l[2])
    BY <1>2
  <2>2. l[1] \in Jobs /\ (Legal(latest[l[1]], l[2]) \/ tail = "torn")
    BY InFlightIsLegal
  <2>3. TypeOK
    BY DEF IInv, TypeInv
  <2>4. QED
    BY <2>1, <2>2, <2>3, LegalIsHistoryStep
<1>3. QED
  BY <1>1, <1>2, WriterInFlight

\* The daemon implements the history its readers rely on: an outcome is final,
\* nothing runs that was not registered, nothing ends that did not run, and a
\* job comes back to "pending" only from a cancellation that overtook it.
THEOREM HistoryImplemented == Spec => HistoryRefined
<1>1. Init => History!Init
  BY DEF Init, History!Init
<1>2. IInv /\ HistInv /\ [Next]_vars => [History!Next]_(History!vars)
  BY HistoryStep
<1>3. Spec => [](IInv /\ HistInv)
  BY InitIInv, IInvStep, InitHistInv, HistInvStep, PTL DEF Spec
<1>4. QED
  BY <1>1, <1>2, <1>3, PTL DEF Spec, HistoryRefined, History!Spec

-----------------------------------------------------------------------------
(* Nobody waits for a scan that nobody will do.                            *)

\* RecoverInterrupted has every open job of the journal still before it.
RecoveryInv ==
    phase = "recovering" /\ tail # "torn" =>
        \A j \in Jobs : latest[j] \in Open => j \in toRecover

WithdrawInv == \A p \in Submitters : spc[p] = "withdraw" => failed

\* The queue holds each job once, and while the daemon is up only jobs that a
\* worker will take, or a submitter still has to put there.
WaitingInv ==
    /\ \A i, k \in 1..Len(queue) : queue[i] = queue[k] => i = k
    /\ phase \in {"down", "recovering"} => queue = <<>>
    /\ phase = "up" => \A i \in 1..Len(queue) : jobs[queue[i]] = "pending"

EnqueuedInv ==
    phase = "up" =>
        \A p \in Submitters :
            spc[p] \in {"recordPending", "withdraw", "enqueue"} => jobs[sjob[p]] = "pending"

OrphanInv == RecoveryInv /\ WithdrawInv /\ WaitingInv /\ EnqueuedInv /\ NoOrphanInHistory

LEMMA TailFacts ==
    ASSUME NEW S, NEW q \in Seq(S), q # <<>>
    PROVE  /\ 1 \in 1..Len(q) /\ Head(q) = q[1] /\ Head(q) \in S
           /\ Len(Tail(q)) = Len(q) - 1
           /\ \A i \in 1..Len(Tail(q)) : i + 1 \in 1..Len(q) /\ Tail(q)[i] = q[i + 1]
           /\ \A i \in 1..Len(q) : i = 1 \/ (i - 1 \in 1..Len(Tail(q)) /\ Tail(q)[i - 1] = q[i])
<1>1. Len(q) \in Nat /\ Len(q) # 0
  OBVIOUS
<1>2. Head(q) = q[1] /\ Head(q) \in S /\ Len(Tail(q)) = Len(q) - 1
  OBVIOUS
<1>3. ASSUME NEW i \in 1..Len(Tail(q)) PROVE Tail(q)[i] = q[i + 1]
  OBVIOUS
<1>4. QED
  BY <1>1, <1>2, <1>3

LEMMA AppendFacts ==
    ASSUME NEW S, NEW q \in Seq(S), NEW x \in S
    PROVE  /\ Len(Append(q, x)) = Len(q) + 1
           /\ Len(q) + 1 \in 1..Len(Append(q, x)) /\ Append(q, x)[Len(q) + 1] = x
           /\ \A i \in 1..Len(q) : i \in 1..Len(Append(q, x)) /\ Append(q, x)[i] = q[i]
           /\ \A i \in 1..Len(Append(q, x)) : i \in 1..Len(q) \/ i = Len(q) + 1
<1>1. Len(q) \in Nat /\ Len(Append(q, x)) = Len(q) + 1
  OBVIOUS
<1>2. Append(q, x)[Len(q) + 1] = x /\ \A i \in 1..Len(q) : Append(q, x)[i] = q[i]
  OBVIOUS
<1>3. QED
  BY <1>1, <1>2

\* A record that succeeds and leaves a readable file has added its line.
LEMMA RecordOKAdds ==
    ASSUME TypeOK, NEW j \in Jobs, NEW s, RecordOK(j, s), tail' # "torn"
    PROVE  /\ tail # "torn" /\ failed' = failed
           /\ latest'[j] = s
           /\ \A k \in Jobs : k # j => latest'[k] = latest[k]
  BY DEF TypeOK, RecordOK, WriteLine, WriteTooLong, WritePart

\* A start has taken all that is open into its list.
LEMMA RecoveryInvStep == IInv /\ OrphanInv /\ [Next]_vars => RecoveryInv'
<1> SUFFICES ASSUME IInv, OrphanInv, [Next]_vars PROVE RecoveryInv'
  OBVIOUS
<1> USE SetsAssumption DEF IInv, TypeInv, TypeOK, HandsOK, OrphanInv, RecoveryInv,
        memory, submit, pool, process, journal, ids
<1>1. ASSUME NEW p \in Submitters, SubmitRegister(p) PROVE RecoveryInv'
  BY <1>1 DEF SubmitRegister
<1>2. ASSUME NEW p \in Submitters, SubmitRecordPending(p) PROVE RecoveryInv'
  <2>1. phase # "recovering" /\ UNCHANGED phase
    BY <1>2 DEF SubmitRecordPending, PhaseInv
  <2>2. QED
    BY <2>1
<1>3. ASSUME NEW p \in Submitters, SubmitWithdraw(p) PROVE RecoveryInv'
  BY <1>3 DEF SubmitWithdraw
<1>4. ASSUME NEW p \in Submitters, SubmitEnqueue(p) PROVE RecoveryInv'
  BY <1>4 DEF SubmitEnqueue, Enqueue
<1>5. ASSUME NEW p \in Submitters, SubmitReject(p) PROVE RecoveryInv'
  BY <1>5 DEF SubmitReject
<1>6. ASSUME NEW p \in Submitters, SubmitRecordReject(p) PROVE RecoveryInv'
  <2>1. phase # "recovering" /\ UNCHANGED phase
    BY <1>6 DEF SubmitRecordReject, PhaseInv
  <2>2. QED
    BY <2>1
<1>7. ASSUME NEW w \in Workers, WorkerTake(w) PROVE RecoveryInv'
  BY <1>7 DEF WorkerTake
<1>8. ASSUME NEW w \in Workers, WorkerRecordRunning(w) PROVE RecoveryInv'
  <2>1. phase # "recovering" /\ UNCHANGED phase
    BY <1>8 DEF WorkerRecordRunning, PhaseInv
  <2>2. QED
    BY <2>1
<1>9. ASSUME NEW w \in Workers, WorkerScan(w) PROVE RecoveryInv'
  BY <1>9 DEF WorkerScan
<1>10. ASSUME NEW w \in Workers, WorkerRecordEnd(w) PROVE RecoveryInv'
  <2>1. phase # "recovering" /\ UNCHANGED phase
    BY <1>10 DEF WorkerRecordEnd, PhaseInv
  <2>2. QED
    BY <2>1
<1>11. ASSUME NEW w \in Workers, WorkerExit(w) PROVE RecoveryInv'
  BY <1>11 DEF WorkerExit, Exited
<1>12. ASSUME StopRequested PROVE RecoveryInv'
  BY <1>12 DEF StopRequested
<1>13. ASSUME StopOnError PROVE RecoveryInv'
  BY <1>13 DEF StopOnError
<1>14. ASSUME CancelPending PROVE RecoveryInv'
  BY <1>14 DEF CancelPending, CancelJobs
<1>15. ASSUME RecordCanceled PROVE RecoveryInv'
  <2>1. phase # "recovering" /\ UNCHANGED phase
    BY <1>15 DEF RecordCanceled, PhaseInv
  <2>2. QED
    BY <2>1
<1>16. ASSUME RunReturns PROVE RecoveryInv'
  BY <1>16 DEF RunReturns
<1>17. ASSUME Exit PROVE RecoveryInv'
  BY <1>17 DEF Exit, Vanish
<1>18. ASSUME Crash PROVE RecoveryInv'
  BY <1>18 DEF Crash, Vanish
<1>19. ASSUME Start PROVE RecoveryInv'
  BY <1>19 DEF Start, Recover, Open
<1>20. ASSUME StartRefused PROVE RecoveryInv'
  BY <1>20 DEF StartRefused
<1>21. ASSUME RecoverOne PROVE RecoveryInv'
  <2>1. CASE phase' = "down"
    BY <2>1
  <2>2. CASE phase' # "down"
    <3>1. PICK j \in toRecover : RecordOK(j, "canceled") /\ toRecover' = toRecover \ {j}
      BY <1>21, <2>2 DEF RecoverOne
    <3>2. tail' # "torn" =>
            /\ tail # "torn" /\ latest'[j] = "canceled"
            /\ \A k \in Jobs : k # j => latest'[k] = latest[k]
      BY <3>1, RecordOKAdds
    <3>3. UNCHANGED phase
      BY <1>21, <2>2 DEF RecoverOne
    <3>4. QED
      BY <3>1, <3>2, <3>3 DEF Open
  <2>3. QED
    BY <2>1, <2>2
<1>22. ASSUME Serve PROVE RecoveryInv'
  BY <1>22 DEF Serve
<1>23. CASE UNCHANGED vars
  BY <1>23 DEF vars
<1>24. QED
  BY <1>1, <1>2, <1>3, <1>4, <1>5, <1>6, <1>7, <1>8, <1>9, <1>10, <1>11, <1>12, <1>13, <1>14, <1>15, <1>16, <1>17, <1>18, <1>19, <1>20, <1>21, <1>22, <1>23
  DEF Next, SubmitStep, WorkerStep, ManagerStep, StartStep

\* Only a failed record withdraws a job.
LEMMA WithdrawInvStep == IInv /\ OrphanInv /\ [Next]_vars => WithdrawInv'
<1> SUFFICES ASSUME IInv, OrphanInv, [Next]_vars PROVE WithdrawInv'
  OBVIOUS
<1> USE SetsAssumption DEF IInv, TypeInv, TypeOK, HandsOK, OrphanInv, WithdrawInv,
        memory, submit, pool, process, journal, ids
<1>1. ASSUME NEW p \in Submitters, SubmitRegister(p) PROVE WithdrawInv'
  BY <1>1 DEF SubmitRegister
<1>2. ASSUME NEW p \in Submitters, SubmitRecordPending(p) PROVE WithdrawInv'
  BY <1>2 DEF SubmitRecordPending, RecordOK, RecordError
<1>3. ASSUME NEW p \in Submitters, SubmitWithdraw(p) PROVE WithdrawInv'
  BY <1>3 DEF SubmitWithdraw
<1>4. ASSUME NEW p \in Submitters, SubmitEnqueue(p) PROVE WithdrawInv'
  BY <1>4 DEF SubmitEnqueue, Enqueue
<1>5. ASSUME NEW p \in Submitters, SubmitReject(p) PROVE WithdrawInv'
  BY <1>5 DEF SubmitReject
<1>6. ASSUME NEW p \in Submitters, SubmitRecordReject(p) PROVE WithdrawInv'
  BY <1>6 DEF SubmitRecordReject, RecordOK, RecordError
<1>7. ASSUME NEW w \in Workers, WorkerTake(w) PROVE WithdrawInv'
  BY <1>7 DEF WorkerTake
<1>8. ASSUME NEW w \in Workers, WorkerRecordRunning(w) PROVE WithdrawInv'
  BY <1>8 DEF WorkerRecordRunning, RecordOK, RecordError
<1>9. ASSUME NEW w \in Workers, WorkerScan(w) PROVE WithdrawInv'
  BY <1>9 DEF WorkerScan
<1>10. ASSUME NEW w \in Workers, WorkerRecordEnd(w) PROVE WithdrawInv'
  BY <1>10 DEF WorkerRecordEnd, RecordOK, RecordError
<1>11. ASSUME NEW w \in Workers, WorkerExit(w) PROVE WithdrawInv'
  BY <1>11 DEF WorkerExit, Exited
<1>12. ASSUME StopRequested PROVE WithdrawInv'
  BY <1>12 DEF StopRequested
<1>13. ASSUME StopOnError PROVE WithdrawInv'
  BY <1>13 DEF StopOnError
<1>14. ASSUME CancelPending PROVE WithdrawInv'
  BY <1>14 DEF CancelPending, CancelJobs
<1>15. ASSUME RecordCanceled PROVE WithdrawInv'
  BY <1>15 DEF RecordCanceled, RecordOK, RecordError
<1>16. ASSUME RunReturns PROVE WithdrawInv'
  BY <1>16 DEF RunReturns
<1>17. ASSUME Exit PROVE WithdrawInv'
  BY <1>17 DEF Exit, Vanish
<1>18. ASSUME Crash PROVE WithdrawInv'
  BY <1>18 DEF Crash, Vanish
<1>19. ASSUME Start PROVE WithdrawInv'
  <2>1. \A p \in Submitters : spc'[p] = "idle"
    BY <1>19 DEF Start, Recover, PhaseInv
  <2>2. QED
    BY <2>1
<1>20. ASSUME StartRefused PROVE WithdrawInv'
  BY <1>20 DEF StartRefused
<1>21. ASSUME RecoverOne PROVE WithdrawInv'
  BY <1>21 DEF RecoverOne, RecordOK, RecordError
<1>22. ASSUME Serve PROVE WithdrawInv'
  BY <1>22 DEF Serve
<1>23. CASE UNCHANGED vars
  BY <1>23 DEF vars
<1>24. QED
  BY <1>1, <1>2, <1>3, <1>4, <1>5, <1>6, <1>7, <1>8, <1>9, <1>10, <1>11, <1>12, <1>13, <1>14, <1>15, <1>16, <1>17, <1>18, <1>19, <1>20, <1>21, <1>22, <1>23
  DEF Next, SubmitStep, WorkerStep, ManagerStep, StartStep

\* The queue stays free of doubles, and of jobs no worker will take.
LEMMA WaitingInvStep == IInv /\ OrphanInv /\ [Next]_vars => WaitingInv'
<1> SUFFICES ASSUME IInv, OrphanInv, [Next]_vars PROVE WaitingInv'
  OBVIOUS
<1> USE SetsAssumption DEF IInv, TypeInv, TypeOK, HandsOK, OrphanInv, WaitingInv,
        memory, submit, pool, process, journal, ids
<1>1. ASSUME NEW p \in Submitters, SubmitRegister(p) PROVE WaitingInv'
  <2>1. PICK j \in Jobs \ issued : jobs' = [jobs EXCEPT ![j] = "pending"]
    BY <1>1 DEF SubmitRegister
  <2>2. QED
    BY <1>1, <2>1 DEF SubmitRegister
<1>2. ASSUME NEW p \in Submitters, SubmitRecordPending(p) PROVE WaitingInv'
  BY <1>2 DEF SubmitRecordPending
<1>3. ASSUME NEW p \in Submitters, SubmitWithdraw(p) PROVE WaitingInv'
  <2>1. \A i \in 1..Len(queue) : queue[i] # sjob[p] /\ queue[i] \in Jobs
    BY <1>3, SubmitterFacts DEF SubmitWithdraw
  <2>2. QED
    BY <1>3, <2>1 DEF SubmitWithdraw
<1>4. ASSUME NEW p \in Submitters, SubmitEnqueue(p) PROVE WaitingInv'
  <2>1. /\ sjob[p] \in Jobs /\ \A i \in 1..Len(queue) : queue[i] # sjob[p]
        /\ jobs[sjob[p]] \in {"pending", "canceled"}
    BY <1>4, SubmitterFacts DEF SubmitEnqueue, Enqueue
  <2>2. queue' = Append(queue, sjob[p]) /\ UNCHANGED <<jobs, phase>>
    BY <1>4 DEF SubmitEnqueue, Enqueue
  <2>3. phase \notin {"down", "recovering"}
    BY <1>4, <2>1 DEF SubmitEnqueue, Enqueue, PhaseInv
  <2>4. phase = "up" => jobs[sjob[p]] = "pending"
    BY <1>4 DEF SubmitEnqueue, Enqueue, EnqueuedInv
  <2>5. \A i \in 1..Len(queue') : i \in 1..Len(queue) \/ (i = Len(queue) + 1 /\ queue'[i] = sjob[p])
    BY <2>1, <2>2, AppendFacts
  <2>6. \A i \in 1..Len(queue) : queue'[i] = queue[i]
    BY <2>1, <2>2, AppendFacts
  <2>7. ASSUME NEW i \in 1..Len(queue'), NEW k \in 1..Len(queue'), queue'[i] = queue'[k]
        PROVE  i = k
    <3>1. CASE i \in 1..Len(queue) /\ k \in 1..Len(queue)
      <4>1. queue[i] = queue[k]
        BY <2>6, <2>7, <3>1
      <4>2. QED
        BY <3>1, <4>1
    <3>2. CASE i \in 1..Len(queue) /\ k \notin 1..Len(queue)
      BY <2>1, <2>5, <2>6, <2>7, <3>2
    <3>3. CASE i \notin 1..Len(queue) /\ k \in 1..Len(queue)
      BY <2>1, <2>5, <2>6, <2>7, <3>3
    <3>4. CASE i \notin 1..Len(queue) /\ k \notin 1..Len(queue)
      BY <2>5, <3>4
    <3>5. QED
      BY <3>1, <3>2, <3>3, <3>4
  <2>8. QED
    BY <2>2, <2>3, <2>4, <2>5, <2>6, <2>7
<1>5. ASSUME NEW p \in Submitters, SubmitReject(p) PROVE WaitingInv'
  <2>1. \A i \in 1..Len(queue) : queue[i] # sjob[p] /\ queue[i] \in Jobs
    BY <1>5, SubmitterFacts DEF SubmitReject
  <2>2. QED
    BY <1>5, <2>1 DEF SubmitReject
<1>6. ASSUME NEW p \in Submitters, SubmitRecordReject(p) PROVE WaitingInv'
  BY <1>6 DEF SubmitRecordReject
<1>7. ASSUME NEW w \in Workers, WorkerTake(w) PROVE WaitingInv'
  <2>1. /\ queue # <<>> /\ queue' = Tail(queue) /\ UNCHANGED phase
        /\ phase \notin {"down", "recovering"}
        /\ jobs' \in {jobs, [jobs EXCEPT ![Head(queue)] = "running"]}
    BY <1>7 DEF WorkerTake
  <2>2. \A i \in 1..Len(queue') : /\ i + 1 \in 1..Len(queue) /\ queue'[i] = queue[i + 1]
                                  /\ queue'[i] # Head(queue)
    BY <2>1, TailFacts
  <2>3. \A i, k \in 1..Len(queue') : queue'[i] = queue'[k] => i = k
    BY <2>1, <2>2
  <2>4. \A i \in 1..Len(queue') : jobs'[queue'[i]] = jobs[queue[i + 1]]
    BY <2>1, <2>2
  <2>5. QED
    BY <2>1, <2>2, <2>3, <2>4
<1>8. ASSUME NEW w \in Workers, WorkerRecordRunning(w) PROVE WaitingInv'
  BY <1>8 DEF WorkerRecordRunning
<1>9. ASSUME NEW w \in Workers, WorkerScan(w) PROVE WaitingInv'
  <2>1. \A i \in 1..Len(queue) : queue[i] \in Jobs
    OBVIOUS
  <2>2. jobs[wjob[w]] = "running" /\ wjob[w] \in Jobs
    BY <1>9, WorkerFacts DEF WorkerScan, WorkerInv
  <2>3. PICK s \in {"succeeded", "failed"} : jobs' = [jobs EXCEPT ![wjob[w]] = s]
    BY <1>9 DEF WorkerScan
  <2>4. UNCHANGED <<queue, phase>>
    BY <1>9 DEF WorkerScan
  <2>5. QED
    BY <2>1, <2>2, <2>3, <2>4
<1>10. ASSUME NEW w \in Workers, WorkerRecordEnd(w) PROVE WaitingInv'
  BY <1>10 DEF WorkerRecordEnd
<1>11. ASSUME NEW w \in Workers, WorkerExit(w) PROVE WaitingInv'
  BY <1>11 DEF WorkerExit, Exited
<1>12. ASSUME StopRequested PROVE WaitingInv'
  BY <1>12 DEF StopRequested
<1>13. ASSUME StopOnError PROVE WaitingInv'
  BY <1>13 DEF StopOnError
<1>14. ASSUME CancelPending PROVE WaitingInv'
  BY <1>14 DEF CancelPending, CancelJobs
<1>15. ASSUME RecordCanceled PROVE WaitingInv'
  BY <1>15 DEF RecordCanceled
<1>16. ASSUME RunReturns PROVE WaitingInv'
  BY <1>16 DEF RunReturns
<1>17. ASSUME Exit PROVE WaitingInv'
  BY <1>17 DEF Exit, Vanish
<1>18. ASSUME Crash PROVE WaitingInv'
  BY <1>18 DEF Crash, Vanish
<1>19. ASSUME Start PROVE WaitingInv'
  BY <1>19 DEF Start, Recover
<1>20. ASSUME StartRefused PROVE WaitingInv'
  BY <1>20 DEF StartRefused
<1>21. ASSUME RecoverOne PROVE WaitingInv'
  BY <1>21 DEF RecoverOne
<1>22. ASSUME Serve PROVE WaitingInv'
  BY <1>22 DEF Serve
<1>23. CASE UNCHANGED vars
  BY <1>23 DEF vars
<1>24. QED
  BY <1>1, <1>2, <1>3, <1>4, <1>5, <1>6, <1>7, <1>8, <1>9, <1>10, <1>11, <1>12, <1>13, <1>14, <1>15, <1>16, <1>17, <1>18, <1>19, <1>20, <1>21, <1>22, <1>23
  DEF Next, SubmitStep, WorkerStep, ManagerStep, StartStep

\* Until cancelPending nobody else touches the job of a submitter.
LEMMA EnqueuedInvStep == IInv /\ OrphanInv /\ [Next]_vars => EnqueuedInv'
<1> SUFFICES ASSUME IInv, OrphanInv, [Next]_vars PROVE EnqueuedInv'
  OBVIOUS
<1> USE SetsAssumption DEF IInv, TypeInv, TypeOK, HandsOK, OrphanInv, EnqueuedInv,
        memory, submit, pool, process, journal, ids
<1>1. ASSUME NEW p \in Submitters, SubmitRegister(p) PROVE EnqueuedInv'
  <2>1. PICK j \in Jobs \ issued : /\ jobs' = [jobs EXCEPT ![j] = "pending"]
                                   /\ sjob' = [sjob EXCEPT ![p] = j]
    BY <1>1 DEF SubmitRegister
  <2>2. \A q \in Submitters : spc[q] # "idle" => sjob[q] \in Jobs
    BY SubmitterFacts
  <2>3. QED
    BY <1>1, <2>1, <2>2 DEF SubmitRegister
<1>2. ASSUME NEW p \in Submitters, SubmitRecordPending(p) PROVE EnqueuedInv'
  BY <1>2 DEF SubmitRecordPending
<1>3. ASSUME NEW p \in Submitters, SubmitWithdraw(p) PROVE EnqueuedInv'
  <2>1. \A q \in Submitters : q # p /\ spc[q] # "idle" => sjob[q] \in Jobs /\ sjob[q] # sjob[p]
    BY <1>3, SubmitterFacts DEF SubmitWithdraw
  <2>2. QED
    BY <1>3, <2>1 DEF SubmitWithdraw
<1>4. ASSUME NEW p \in Submitters, SubmitEnqueue(p) PROVE EnqueuedInv'
  BY <1>4 DEF SubmitEnqueue, Enqueue
<1>5. ASSUME NEW p \in Submitters, SubmitReject(p) PROVE EnqueuedInv'
  <2>1. \A q \in Submitters : q # p /\ spc[q] # "idle" => sjob[q] \in Jobs /\ sjob[q] # sjob[p]
    BY <1>5, SubmitterFacts DEF SubmitReject
  <2>2. QED
    BY <1>5, <2>1 DEF SubmitReject
<1>6. ASSUME NEW p \in Submitters, SubmitRecordReject(p) PROVE EnqueuedInv'
  BY <1>6 DEF SubmitRecordReject
<1>7. ASSUME NEW w \in Workers, WorkerTake(w) PROVE EnqueuedInv'
  <2>1. Head(queue) = queue[1] /\ 1 \in 1..Len(queue)
    BY <1>7, TailFacts DEF WorkerTake
  <2>2. \A q \in Submitters : spc[q] # "idle" => sjob[q] \in Jobs /\ sjob[q] # Head(queue)
    BY <2>1, SubmitterFacts
  <2>3. jobs' \in {jobs, [jobs EXCEPT ![Head(queue)] = "running"]} /\ UNCHANGED <<spc, sjob, phase>>
    BY <1>7 DEF WorkerTake
  <2>4. QED
    BY <2>2, <2>3
<1>8. ASSUME NEW w \in Workers, WorkerRecordRunning(w) PROVE EnqueuedInv'
  BY <1>8 DEF WorkerRecordRunning
<1>9. ASSUME NEW w \in Workers, WorkerScan(w) PROVE EnqueuedInv'
  <2>1. \A q \in Submitters : spc[q] # "idle" => sjob[q] \in Jobs /\ sjob[q] # wjob[w]
    BY SubmitterFacts
  <2>2. PICK s \in {"succeeded", "failed"} : jobs' = [jobs EXCEPT ![wjob[w]] = s]
    BY <1>9 DEF WorkerScan
  <2>3. QED
    BY <1>9, <2>1, <2>2 DEF WorkerScan
<1>10. ASSUME NEW w \in Workers, WorkerRecordEnd(w) PROVE EnqueuedInv'
  BY <1>10 DEF WorkerRecordEnd
<1>11. ASSUME NEW w \in Workers, WorkerExit(w) PROVE EnqueuedInv'
  BY <1>11 DEF WorkerExit, Exited
<1>12. ASSUME StopRequested PROVE EnqueuedInv'
  BY <1>12 DEF StopRequested
<1>13. ASSUME StopOnError PROVE EnqueuedInv'
  BY <1>13 DEF StopOnError
<1>14. ASSUME CancelPending PROVE EnqueuedInv'
  BY <1>14 DEF CancelPending, CancelJobs
<1>15. ASSUME RecordCanceled PROVE EnqueuedInv'
  BY <1>15 DEF RecordCanceled
<1>16. ASSUME RunReturns PROVE EnqueuedInv'
  BY <1>16 DEF RunReturns
<1>17. ASSUME Exit PROVE EnqueuedInv'
  BY <1>17 DEF Exit, Vanish
<1>18. ASSUME Crash PROVE EnqueuedInv'
  BY <1>18 DEF Crash, Vanish
<1>19. ASSUME Start PROVE EnqueuedInv'
  BY <1>19 DEF Start, Recover
<1>20. ASSUME StartRefused PROVE EnqueuedInv'
  BY <1>20 DEF StartRefused
<1>21. ASSUME RecoverOne PROVE EnqueuedInv'
  BY <1>21 DEF RecoverOne
<1>22. ASSUME Serve PROVE EnqueuedInv'
  <2>1. \A q \in Submitters : spc[q] = "idle"
    BY <1>22 DEF Serve, PhaseInv
  <2>2. QED
    BY <1>22, <2>1 DEF Serve
<1>23. CASE UNCHANGED vars
  BY <1>23 DEF vars
<1>24. QED
  BY <1>1, <1>2, <1>3, <1>4, <1>5, <1>6, <1>7, <1>8, <1>9, <1>10, <1>11, <1>12, <1>13, <1>14, <1>15, <1>16, <1>17, <1>18, <1>19, <1>20, <1>21, <1>22, <1>23
  DEF Next, SubmitStep, WorkerStep, ManagerStep, StartStep


\* A record that leaves its job in somebody's hand, or closes it, orphans
\* nothing; one that fails is known to have failed.
LEMMA RecordKeepsHands ==
    ASSUME TypeOK, NoOrphanInHistory, NEW j \in Jobs, NEW s,
           RecordOK(j, s) \/ RecordError(j, s), phase' = phase,
           RecordOK(j, s) => \A k \in Jobs : InHand(k) => InHand(k)' \/ (k = j /\ s \notin Open),
           RecordOK(j, s) => s \notin Open \/ InHand(j)'
    PROVE  NoOrphanInHistory'
<1>1. CASE RecordOK(j, s)
  <2>1. SUFFICES ASSUME NEW k \in Jobs, phase = "up", ~failed', tail' # "torn", latest'[k] \in Open
                 PROVE  InHand(k)'
    BY DEF NoOrphanInHistory
  <2>2. /\ tail # "torn" /\ failed' = failed
        /\ latest'[j] = s
        /\ \A i \in Jobs : i # j => latest'[i] = latest[i]
    BY <1>1, <2>1, RecordOKAdds
  <2>3. CASE k = j
    BY <1>1, <2>1, <2>2, <2>3
  <2>4. CASE k # j
    BY <1>1, <2>1, <2>2, <2>4 DEF NoOrphanInHistory
  <2>5. QED
    BY <2>3, <2>4
<1>2. CASE RecordError(j, s)
  BY <1>2 DEF RecordError, NoOrphanInHistory
<1>3. QED
  BY <1>1, <1>2

\* What changes no journal and lets no job fall orphans nothing.
LEMMA NothingFalls ==
    ASSUME NoOrphanInHistory, UNCHANGED journal, failed' = failed \/ failed',
           phase' = "up" => phase = "up",
           phase' = "up" /\ ~failed' => \A k \in Jobs : InHand(k) => InHand(k)'
    PROVE  NoOrphanInHistory'
  BY DEF NoOrphanInHistory, journal

\* A job leaves the queue only into the hand of a worker, and a hand only when
\* its last line is written.
LEMMA NoOrphanStep == IInv /\ OrphanInv /\ [Next]_vars => NoOrphanInHistory'
<1> SUFFICES ASSUME IInv, OrphanInv, [Next]_vars PROVE NoOrphanInHistory'
  OBVIOUS
<1> USE DEF IInv, TypeInv, memory, submit, pool, process, ids
<1>1. ASSUME NEW p \in Submitters, SubmitRegister(p) PROVE NoOrphanInHistory'
  <2>1. PICK j \in Jobs \ issued : sjob' = [sjob EXCEPT ![p] = j]
    BY <1>1 DEF SubmitRegister
  <2>2. UNCHANGED <<queue, wjob, phase, journal, failed>> /\ spc[p] = "idle"
    BY <1>1 DEF SubmitRegister
  <2>3. sjob \in [Submitters -> Jobs \cup {NoJob}] /\ sjob[p] = NoJob
    BY <2>2 DEF TypeOK, HandsOK
  <2>4. \A k \in Jobs : InHand(k) => InHand(k)'
    BY <2>1, <2>2, <2>3, SetsAssumption DEF InHand
  <2>5. QED
    BY <2>2, <2>4, NothingFalls DEF OrphanInv
<1>2. ASSUME NEW p \in Submitters, SubmitRecordPending(p) PROVE NoOrphanInHistory'
  <2>1. sjob[p] \in Jobs /\ (RecordOK(sjob[p], "pending") \/ RecordError(sjob[p], "pending"))
    BY <1>2, SubmitterFacts DEF SubmitRecordPending
  <2>2. UNCHANGED <<queue, sjob, wjob, phase>>
    BY <1>2 DEF SubmitRecordPending
  <2>3. InHand(sjob[p])' /\ \A k \in Jobs : InHand(k) => InHand(k)'
    BY <2>2 DEF InHand
  <2>4. QED
    BY <2>1, <2>2, <2>3, RecordKeepsHands DEF OrphanInv
<1>3. ASSUME NEW p \in Submitters, SubmitWithdraw(p) PROVE NoOrphanInHistory'
  <2>1. failed /\ failed' = failed
    BY <1>3 DEF SubmitWithdraw, OrphanInv, WithdrawInv
  <2>2. QED
    BY <2>1 DEF NoOrphanInHistory
<1>4. ASSUME NEW p \in Submitters, SubmitEnqueue(p) PROVE NoOrphanInHistory'
  <2>1. sjob[p] \in Jobs
    BY <1>4, SubmitterFacts DEF SubmitEnqueue, Enqueue
  <2>2. /\ queue' = Append(queue, sjob[p]) /\ sjob' = [sjob EXCEPT ![p] = NoJob]
        /\ UNCHANGED <<wjob, phase, journal, failed>>
    BY <1>4 DEF SubmitEnqueue, Enqueue
  <2>3. queue \in Seq(Jobs) /\ sjob \in [Submitters -> Jobs \cup {NoJob}]
    BY DEF TypeOK
  <2>4. /\ \A i \in 1..Len(queue) : i \in 1..Len(queue') /\ queue'[i] = queue[i]
        /\ Len(queue) + 1 \in 1..Len(queue') /\ queue'[Len(queue) + 1] = sjob[p]
    BY <2>1, <2>2, <2>3, AppendFacts
  <2>5. \A k \in Jobs : InHand(k) => InHand(k)'
    <3>1. SUFFICES ASSUME NEW k \in Jobs, InHand(k) PROVE InHand(k)'
      OBVIOUS
    <3>2. CASE \E w \in Workers : wjob[w] = k
      BY <2>2, <3>2 DEF InHand
    <3>3. CASE \E i \in 1..Len(queue) : queue[i] = k
      BY <2>4, <3>3 DEF InHand
    <3>4. CASE \E q \in Submitters : sjob[q] = k
      <4>1. PICK q \in Submitters : sjob[q] = k
        BY <3>4
      <4>2. CASE q = p
        BY <2>4, <4>1, <4>2 DEF InHand
      <4>3. CASE q # p
        BY <2>2, <2>3, <4>1, <4>3 DEF InHand
      <4>4. QED
        BY <4>2, <4>3
    <3>5. QED
      BY <3>1, <3>2, <3>3, <3>4 DEF InHand
  <2>6. QED
    BY <2>2, <2>5, NothingFalls DEF OrphanInv
<1>5. ASSUME NEW p \in Submitters, SubmitReject(p) PROVE NoOrphanInHistory'
  <2>1. /\ UNCHANGED <<journal, failed, sjob, wjob, queue>>
        /\ phase' = "up" => phase = "up"
    BY <1>5 DEF SubmitReject
  <2>2. \A k \in Jobs : InHand(k) => InHand(k)'
    BY <2>1 DEF InHand
  <2>3. QED
    BY <2>1, <2>2, NothingFalls DEF OrphanInv
<1>6. ASSUME NEW p \in Submitters, SubmitRecordReject(p) PROVE NoOrphanInHistory'
  <2>1. sjob[p] \in Jobs /\ (RecordOK(sjob[p], "canceled") \/ RecordError(sjob[p], "canceled"))
    BY <1>6, SubmitterFacts DEF SubmitRecordReject
  <2>2. UNCHANGED <<queue, wjob, phase>> /\ sjob' = [sjob EXCEPT ![p] = NoJob]
    BY <1>6 DEF SubmitRecordReject
  <2>3. \A k \in Jobs : InHand(k) => InHand(k)' \/ k = sjob[p]
    BY <2>2 DEF InHand, TypeOK
  <2>4. QED
    BY <2>1, <2>2, <2>3, RecordKeepsHands DEF OrphanInv, Open
<1>7. ASSUME NEW w \in Workers, WorkerTake(w) PROVE NoOrphanInHistory'
  <2>1. CASE phase # "up"
    BY <1>7, <2>1 DEF WorkerTake, NoOrphanInHistory
  <2>2. CASE phase = "up"
    <3>1. queue \in Seq(Jobs) /\ queue # <<>> /\ wjob \in [Workers -> Jobs \cup {NoJob}]
      BY <1>7 DEF WorkerTake, TypeOK
    <3>2. 1 \in 1..Len(queue) /\ Head(queue) = queue[1]
      BY <3>1, TailFacts
    <3>3. jobs[Head(queue)] = "pending"
      BY <2>2, <3>2 DEF OrphanInv, WaitingInv
    <3>4. /\ queue' = Tail(queue) /\ wjob' = [wjob EXCEPT ![w] = Head(queue)]
          /\ UNCHANGED <<sjob, phase, journal, failed>>
          /\ wpc[w] = "idle"
      BY <1>7, <3>3 DEF WorkerTake
    <3>5. wjob[w] = NoJob
      BY <3>4 DEF HandsOK
    <3>6. \A k \in Jobs : InHand(k) => InHand(k)'
      <4>1. SUFFICES ASSUME NEW k \in Jobs, InHand(k) PROVE InHand(k)'
        OBVIOUS
      <4>2. CASE \E q \in Submitters : sjob[q] = k
        BY <3>4, <4>2 DEF InHand
      <4>3. CASE \E v \in Workers : wjob[v] = k
        BY <3>1, <3>4, <3>5, <4>3, SetsAssumption DEF InHand
      <4>4. CASE \E i \in 1..Len(queue) : queue[i] = k
        <5>1. PICK i \in 1..Len(queue) : queue[i] = k
          BY <4>4
        <5>2. CASE i = 1
          BY <3>1, <3>2, <3>4, <5>1, <5>2 DEF InHand
        <5>3. CASE i # 1
          <6>1. i - 1 \in 1..Len(queue') /\ queue'[i - 1] = k
            BY <3>1, <3>4, <5>1, <5>3, TailFacts
          <6>2. QED
            BY <6>1 DEF InHand
        <5>4. QED
          BY <5>2, <5>3
      <4>5. QED
        BY <4>1, <4>2, <4>3, <4>4 DEF InHand
    <3>7. QED
      BY <3>4, <3>6, NothingFalls DEF OrphanInv
  <2>3. QED
    BY <2>1, <2>2
<1>8. ASSUME NEW w \in Workers, WorkerRecordRunning(w) PROVE NoOrphanInHistory'
  <2>1. wjob[w] \in Jobs /\ (RecordOK(wjob[w], "running") \/ RecordError(wjob[w], "running"))
    BY <1>8, WorkerFacts DEF WorkerRecordRunning
  <2>2. CASE RecordError(wjob[w], "running")
    BY <2>2 DEF RecordError, NoOrphanInHistory
  <2>3. CASE ~RecordError(wjob[w], "running")
    <3>1. UNCHANGED <<queue, sjob, wjob, phase>>
      BY <1>8, <2>3 DEF WorkerRecordRunning
    <3>2. InHand(wjob[w])' /\ \A k \in Jobs : InHand(k) => InHand(k)'
      BY <3>1 DEF InHand
    <3>3. QED
      BY <2>1, <3>1, <3>2, RecordKeepsHands DEF OrphanInv
  <2>4. QED
    BY <2>2, <2>3
<1>9. ASSUME NEW w \in Workers, WorkerScan(w) PROVE NoOrphanInHistory'
  <2>1. /\ UNCHANGED <<journal, failed, sjob, wjob, queue>>
        /\ phase' = "up" => phase = "up"
    BY <1>9 DEF WorkerScan
  <2>2. \A k \in Jobs : InHand(k) => InHand(k)'
    BY <2>1 DEF InHand
  <2>3. QED
    BY <2>1, <2>2, NothingFalls DEF OrphanInv
<1>10. ASSUME NEW w \in Workers, WorkerRecordEnd(w) PROVE NoOrphanInHistory'
  <2>1. /\ wjob[w] \in Jobs /\ jobs[wjob[w]] \notin Open
        /\ RecordOK(wjob[w], jobs[wjob[w]]) \/ RecordError(wjob[w], jobs[wjob[w]])
    BY <1>10, WorkerFacts DEF WorkerRecordEnd, WorkerInv, Open
  <2>2. UNCHANGED <<queue, sjob, phase>> /\ wjob' = [wjob EXCEPT ![w] = NoJob]
    BY <1>10 DEF WorkerRecordEnd
  <2>3. \A k \in Jobs : InHand(k) => InHand(k)' \/ k = wjob[w]
    BY <2>2 DEF InHand, TypeOK
  <2>4. QED
    BY <2>1, <2>2, <2>3, RecordKeepsHands DEF OrphanInv
<1>11. ASSUME NEW w \in Workers, WorkerExit(w) PROVE NoOrphanInHistory'
  <2>1. /\ UNCHANGED <<journal, failed, sjob, wjob, queue>>
        /\ phase' = "up" => phase = "up"
    BY <1>11 DEF WorkerExit, Exited
  <2>2. \A k \in Jobs : InHand(k) => InHand(k)'
    BY <2>1 DEF InHand
  <2>3. QED
    BY <2>1, <2>2, NothingFalls DEF OrphanInv
<1>12. ASSUME StopRequested PROVE NoOrphanInHistory'
  <2>1. phase' # "up"
    BY <1>12 DEF StopRequested
  <2>2. QED
    BY <2>1 DEF NoOrphanInHistory
<1>13. ASSUME StopOnError PROVE NoOrphanInHistory'
  <2>1. phase' # "up"
    BY <1>13 DEF StopOnError
  <2>2. QED
    BY <2>1 DEF NoOrphanInHistory
<1>14. ASSUME CancelPending PROVE NoOrphanInHistory'
  <2>1. phase' # "up"
    BY <1>14 DEF CancelPending, CancelJobs
  <2>2. QED
    BY <2>1 DEF NoOrphanInHistory
<1>15. ASSUME RecordCanceled PROVE NoOrphanInHistory'
  <2>1. phase' # "up"
    BY <1>15 DEF RecordCanceled
  <2>2. QED
    BY <2>1 DEF NoOrphanInHistory
<1>16. ASSUME RunReturns PROVE NoOrphanInHistory'
  <2>1. phase' # "up"
    BY <1>16 DEF RunReturns
  <2>2. QED
    BY <2>1 DEF NoOrphanInHistory
<1>17. ASSUME Exit PROVE NoOrphanInHistory'
  <2>1. phase' # "up"
    BY <1>17 DEF Exit, Vanish
  <2>2. QED
    BY <2>1 DEF NoOrphanInHistory
<1>18. ASSUME Crash PROVE NoOrphanInHistory'
  <2>1. phase' # "up"
    BY <1>18 DEF Crash, Vanish
  <2>2. QED
    BY <2>1 DEF NoOrphanInHistory
<1>19. ASSUME Start PROVE NoOrphanInHistory'
  <2>1. phase' # "up"
    BY <1>19 DEF Start, Recover
  <2>2. QED
    BY <2>1 DEF NoOrphanInHistory
<1>20. ASSUME StartRefused PROVE NoOrphanInHistory'
  <2>1. /\ UNCHANGED <<journal, failed, sjob, wjob, queue>>
        /\ phase' = "up" => phase = "up"
    BY <1>20 DEF StartRefused
  <2>2. \A k \in Jobs : InHand(k) => InHand(k)'
    BY <2>1 DEF InHand
  <2>3. QED
    BY <2>1, <2>2, NothingFalls DEF OrphanInv
<1>21. ASSUME RecoverOne PROVE NoOrphanInHistory'
  <2>1. phase' # "up"
    BY <1>21 DEF RecoverOne
  <2>2. QED
    BY <2>1 DEF NoOrphanInHistory
<1>22. ASSUME Serve PROVE NoOrphanInHistory'
  <2>1. tail' # "torn" => \A j \in Jobs : latest'[j] \notin Open
    BY <1>22 DEF Serve, OrphanInv, RecoveryInv, journal
  <2>2. QED
    BY <2>1 DEF NoOrphanInHistory
<1>23. CASE UNCHANGED vars
  BY <1>23 DEF vars, NoOrphanInHistory, InHand, journal, OrphanInv
<1>24. QED
  BY <1>1, <1>2, <1>3, <1>4, <1>5, <1>6, <1>7, <1>8, <1>9, <1>10, <1>11, <1>12, <1>13, <1>14, <1>15, <1>16, <1>17, <1>18, <1>19, <1>20, <1>21, <1>22, <1>23
  DEF Next, SubmitStep, WorkerStep, ManagerStep, StartStep


LEMMA InitOrphanInv == Init => OrphanInv
<1> SUFFICES ASSUME Init PROVE OrphanInv
  OBVIOUS
<1>1. RecoveryInv /\ NoOrphanInHistory
  BY DEF Init, RecoveryInv, NoOrphanInHistory
<1>2. WithdrawInv /\ EnqueuedInv
  BY DEF Init, WithdrawInv, EnqueuedInv
<1>3. WaitingInv
  BY DEF Init, WaitingInv
<1>4. QED
  BY <1>1, <1>2, <1>3 DEF OrphanInv

LEMMA OrphanInvStep == IInv /\ OrphanInv /\ [Next]_vars => OrphanInv'
  BY RecoveryInvStep, WithdrawInvStep, WaitingInvStep, EnqueuedInvStep, NoOrphanStep
  DEF OrphanInv

\* While the daemon serves and every record has succeeded, a job the history
\* shows as pending or running is held by a submitter, the queue or a worker.
THEOREM OpenJobsAreHeld == Spec => []NoOrphanInHistory
<1>1. OrphanInv => NoOrphanInHistory
  BY DEF OrphanInv
<1>2. QED
  BY InitIInv, IInvStep, InitOrphanInv, OrphanInvStep, <1>1, PTL DEF Spec

-----------------------------------------------------------------------------
(* A listing without a warning is the whole disk.                              *)

\* A walk of a disk never changes it.
DiskOK == \A b \in Blocks : Block(b).slots \in Seq(Nat) /\ Block(b).next \in Nat

FrameType == [depth : Nat, slots : Seq(Nat), current : Nat, chain : SUBSET Nat]
EntryType == [block : Blocks, type : {"directory", "file"}, complete : BOOLEAN]

\* The blocks that are listed, that a directory under way has still to look at,
\* and the file whose extensions are followed.
InFrame(f, b) == b = f.current \/ \E i \in DOMAIN f.slots : f.slots[i] = b
PendingIn(fs, b) == \E k \in DOMAIN fs : InFrame(fs[k], b)
Followed(b) == file # <<>> /\ b = file.header
Pending(b) == PendingIn(frames, b) \/ Followed(b)
Shown(b) == \E i \in DOMAIN entries : entries[i].block = b

WalkTyped ==
  /\ frames \in Seq(FrameType)
  /\ entries \in Seq(EntryType)
  /\ file # <<>> => /\ file.header \in Blocks /\ Block(file.header).secondary = "file"
                    /\ file = [header |-> file.header, current |-> file.current,
                               seen |-> file.seen, got |-> file.got]

\* The walk looks at nothing the pointers do not lead to, and short of a warning
\* what it has seen leads only to what it lists or has still to look at.
Sees(b) == Pending(b) \/ Shown(b)
Covers == /\ \A b \in Listed(disk.root) : Sees(b)
          /\ \A b \in Blocks : Shown(b) \/ Followed(b) => \A c \in Leads(b) : Sees(c)
          /\ \A i \in DOMAIN entries : entries[i].complete
WalkOK == /\ WalkTyped
          /\ \A b \in Blocks : Sees(b) => b \in Reachable
          /\ ~warned => Covers

WalkInv == /\ DiskOK
           /\ IF pc = "walk" THEN WalkOK ELSE WalkInit

-----------------------------------------------------------------------------
\* The blocks of a stack of frames.
LEMMA PushedFrame ==
  ASSUME NEW s \in Seq(FrameType), NEW e \in FrameType
  PROVE  /\ <<e>> \o s \in Seq(FrameType)
         /\ \A b : PendingIn(<<e>> \o s, b) <=> InFrame(e, b) \/ PendingIn(s, b)
<1> DEFINE t == <<e>> \o s
<1>1. t \in Seq(FrameType) /\ Len(t) = Len(s) + 1 /\ t[1] = e
  OBVIOUS
<1>2. \A k \in 1..Len(s) : t[k + 1] = s[k]
  OBVIOUS
<1>3. DOMAIN t = 1..Len(s) + 1 /\ DOMAIN s = 1..Len(s) /\ Len(s) \in Nat
  BY <1>1
<1> HIDE DEF t
<1>4. ASSUME NEW b PROVE PendingIn(t, b) <=> InFrame(e, b) \/ PendingIn(s, b)
  <2>1. ASSUME PendingIn(t, b) PROVE InFrame(e, b) \/ PendingIn(s, b)
    <3>1. PICK k \in 1..Len(s) + 1 : InFrame(t[k], b)
      BY <2>1, <1>3 DEF PendingIn
    <3>2. CASE k = 1
      BY <3>1, <3>2, <1>1
    <3>3. CASE k # 1
      <4>1. k - 1 \in 1..Len(s) /\ k = (k - 1) + 1
        BY <3>3, <1>3
      <4>2. t[k] = s[k - 1]
        BY <4>1, <1>2
      <4>3. QED
        BY <4>1, <4>2, <3>1, <1>3 DEF PendingIn
    <3>4. QED
      BY <3>2, <3>3
  <2>2. ASSUME InFrame(e, b) PROVE PendingIn(t, b)
    <3>1. 1 \in DOMAIN t
      BY <1>3
    <3>2. QED
      BY <3>1, <2>2, <1>1 DEF PendingIn
  <2>3. ASSUME PendingIn(s, b) PROVE PendingIn(t, b)
    <3>1. PICK k \in 1..Len(s) : InFrame(s[k], b)
      BY <2>3, <1>3 DEF PendingIn
    <3>2. k + 1 \in DOMAIN t /\ t[k + 1] = s[k]
      BY <1>2, <1>3
    <3>3. QED
      BY <3>1, <3>2 DEF PendingIn
  <2>4. QED
    BY <2>1, <2>2, <2>3
<1>5. QED
  BY <1>1, <1>4 DEF t

LEMMA TopFrame ==
  ASSUME NEW s \in Seq(FrameType), s # <<>>
  PROVE  /\ Head(s) \in FrameType /\ Tail(s) \in Seq(FrameType)
         /\ \A b : PendingIn(s, b) <=> InFrame(Head(s), b) \/ PendingIn(Tail(s), b)
<1>1. Head(s) \in FrameType /\ Tail(s) \in Seq(FrameType)
  OBVIOUS
<1>2. s = <<Head(s)>> \o Tail(s)
  OBVIOUS
<1>3. QED
  BY <1>1, <1>2, PushedFrame

LEMMA NoFrames == \A b : ~PendingIn(<<>>, b)
BY DEF PendingIn

\* One more entry of the listing.
LEMMA Listing ==
  ASSUME entries \in Seq(EntryType), NEW e \in EntryType, entries' = Append(entries, e)
  PROVE  /\ entries' \in Seq(EntryType)
         /\ \A b : Shown(b)' <=> Shown(b) \/ b = e.block
         /\ (\A i \in DOMAIN entries : entries[i].complete) /\ e.complete
              => \A i \in DOMAIN entries' : entries'[i].complete
<1>1. /\ entries' \in Seq(EntryType) /\ Len(entries') = Len(entries) + 1 /\ Len(entries) \in Nat
      /\ DOMAIN entries = 1..Len(entries) /\ DOMAIN entries' = 1..Len(entries) + 1
  OBVIOUS
<1>2. \A i \in 1..Len(entries) : entries'[i] = entries[i]
  OBVIOUS
<1>3. entries'[Len(entries) + 1] = e
  OBVIOUS
<1>4. \A i \in 1..Len(entries) + 1 : i \in 1..Len(entries) \/ i = Len(entries) + 1
  BY <1>1
<1>5. ASSUME NEW b PROVE Shown(b)' <=> Shown(b) \/ b = e.block
  BY <1>1, <1>2, <1>3, <1>4 DEF Shown
<1>6. QED
  BY <1>1, <1>2, <1>3, <1>4, <1>5

\* Reachable blocks lead to reachable ones.
LEMMA ReachableClosed ==
  /\ Reachable \subseteq Blocks
  /\ \A b \in Blocks : b \in Listed(disk.root) => b \in Reachable
  /\ \A a \in Reachable : \A b \in Leads(a) : b \in Reachable
<1>1. \A a : Leads(a) \subseteq Blocks
  BY DEF Leads, Chained, Listed
<1>2. QED
  BY <1>1 DEF Reachable, ClosedUnder

\* What a step must do to keep the walk honest: see only what is led to from what
\* was seen, and short of a warning forget nothing.
LEMMA HonestStep ==
  ASSUME WalkOK, disk' = disk, WalkTyped',
         \A b \in Blocks : Sees(b)' => Sees(b) \/ \E a \in Blocks : Sees(a) /\ b \in Leads(a),
         ~warned' =>
           /\ ~warned
           /\ \A b \in Blocks : Sees(b) => Sees(b)'
           /\ \A b \in Blocks : Shown(b)' \/ Followed(b)' =>
                Shown(b) \/ Followed(b) \/ \A c \in Leads(b) : Sees(c)'
           /\ (\A i \in DOMAIN entries : entries[i].complete)
                => \A i \in DOMAIN entries' : entries'[i].complete
  PROVE  WalkOK'
<1>1. Reachable' = Reachable /\ \A b : Leads(b)' = Leads(b)
  BY DEF Reachable, Leads, Listed, Chained, ClosedUnder, Block
<1>2. Listed(disk.root)' = Listed(disk.root) /\ Listed(disk.root) \subseteq Blocks
  BY DEF Listed, Block
<1>3. \A b : Leads(b) \subseteq Blocks
  BY DEF Leads, Chained, Listed
<1>4. ASSUME NEW b \in Blocks, Sees(b)' PROVE b \in Reachable'
  <2>1. CASE Sees(b)
    BY <2>1, <1>1 DEF WalkOK
  <2>2. CASE \E a \in Blocks : Sees(a) /\ b \in Leads(a)
    BY <2>2, <1>1, ReachableClosed DEF WalkOK
  <2>3. QED
    BY <2>1, <2>2, <1>4
<1>5. ASSUME ~warned' PROVE Covers'
  <2>1. Covers
    BY <1>5 DEF WalkOK
  <2>2. ASSUME NEW b \in Listed(disk.root)' PROVE Sees(b)'
    BY <2>1, <2>2, <1>2, <1>5 DEF Covers
  <2>3. ASSUME NEW b \in Blocks, Shown(b)' \/ Followed(b)', NEW c \in Leads(b)' PROVE Sees(c)'
    BY <2>1, <2>3, <1>1, <1>3, <1>5 DEF Covers
  <2>4. QED
    BY <2>1, <2>2, <2>3, <1>5 DEF Covers
<1>6. QED
  BY <1>4, <1>5 DEF WalkOK

-----------------------------------------------------------------------------
\* A step that puts another frame on top: what it no longer has to look at it has
\* listed or follows, and what is new hangs on the block it looked at.
LEMMA TopStep ==
  ASSUME WalkTyped, frames # <<>>, NEW top \in FrameType, frames' = Frames(top)
  PROVE  /\ frames' \in Seq(FrameType)
         /\ \A b : PendingIn(frames', b) <=> InFrame(top, b) \/ PendingIn(Tail(frames), b)
         /\ \A b : PendingIn(frames, b) <=> InFrame(Top, b) \/ PendingIn(Tail(frames), b)
         /\ Top \in FrameType
BY TopFrame, PushedFrame DEF WalkTyped, Frames, Top

LEMMA AfterFrame ==
  ASSUME Top \in FrameType, NEW n \in Nat
  PROVE  /\ After(n) \in FrameType
         /\ \A b : InFrame(After(n), b) <=> b = n \/ \E i \in DOMAIN Top.slots : Top.slots[i] = b
<1>1. /\ After(n) \in FrameType /\ After(n).current = n /\ After(n).slots = Top.slots
  BY DEF FrameType, After
<1>2. QED
  BY <1>1 DEF InFrame

LEMMA NextSlotStep == WalkOK /\ DiskOK /\ NextSlot => WalkOK'
<1> SUFFICES ASSUME WalkOK, DiskOK, NextSlot PROVE WalkOK'
  OBVIOUS
<1>1. /\ frames # <<>> /\ frames \in Seq(FrameType) /\ Top \in FrameType /\ Top.current = 0
      /\ 0 \notin Blocks /\ UNCHANGED <<disk, file, visited, entries, warned>>
  BY BlocksAssumption, TopFrame DEF NextSlot, WalkOK, WalkTyped, Top
<1>2. /\ \A b : Shown(b)' <=> Shown(b)
      /\ \A b : Followed(b)' <=> Followed(b)
  BY <1>1 DEF Shown, Followed
<1>3. /\ frames' \in Seq(FrameType)
      /\ \A b \in Blocks : PendingIn(frames', b) <=> PendingIn(frames, b)
  <2>1. CASE Top.slots = <<>>
    <3>1. frames' = Tail(frames) /\ \A b \in Blocks : ~InFrame(Top, b)
      BY <2>1, <1>1 DEF NextSlot, InFrame
    <3>2. QED
      BY <3>1, <1>1, TopFrame DEF Top
  <2>2. CASE Top.slots # <<>>
    <3> DEFINE top == [Top EXCEPT !.current = Head(Top.slots), !.slots = Tail(Top.slots), !.chain = {}]
    <3>1. Top.slots \in Seq(Nat)
      BY <1>1 DEF FrameType
    <3>2. Head(Top.slots) \in Nat /\ Tail(Top.slots) \in Seq(Nat)
      BY <3>1, <2>2
    <3>3. top \in FrameType /\ top.current = Head(Top.slots) /\ top.slots = Tail(Top.slots)
      BY <1>1, <3>2 DEF FrameType
    <3>4. \A b : InFrame(top, b) <=> \E i \in DOMAIN Top.slots : Top.slots[i] = b
      <4> DEFINE s == Top.slots
      <4>1. /\ DOMAIN s = 1..Len(s) /\ Len(s) \in Nat \ {0} /\ Head(s) = s[1]
            /\ DOMAIN Tail(s) = 1..Len(s) - 1 /\ \A i \in 1..Len(s) - 1 : Tail(s)[i] = s[i + 1]
        BY <3>1, <2>2
      <4>2. ASSUME NEW b, NEW i \in DOMAIN s, s[i] = b
            PROVE  b = Head(s) \/ \E k \in DOMAIN Tail(s) : Tail(s)[k] = b
        <5>1. i = 1 \/ (i - 1 \in 1..Len(s) - 1 /\ (i - 1) + 1 = i)
          BY <4>1, <4>2
        <5>2. QED
          BY <5>1, <4>1, <4>2
      <4>3. ASSUME NEW b, b = Head(s) \/ \E k \in DOMAIN Tail(s) : Tail(s)[k] = b
            PROVE  \E i \in DOMAIN s : s[i] = b
        <5>1. 1 \in DOMAIN s /\ \A k \in 1..Len(s) - 1 : k + 1 \in DOMAIN s
          BY <4>1
        <5>2. QED
          BY <5>1, <4>1, <4>3
      <4>4. QED
        BY <4>2, <4>3, <3>3 DEF InFrame
    <3>5. \A b \in Blocks : InFrame(top, b) <=> InFrame(Top, b)
      BY <3>4, <1>1 DEF InFrame
    <3>6. frames' = Frames(top)
      BY <2>2 DEF NextSlot
    <3> HIDE DEF top
    <3>7. QED
      BY <3>3, <3>5, <3>6, <1>1, TopStep DEF WalkOK
  <2>3. QED
    BY <2>1, <2>2
<1>4. \A b \in Blocks : Sees(b)' <=> Sees(b)
  BY <1>2, <1>3 DEF Sees, Pending
<1>5. WalkTyped'
  BY <1>1, <1>3 DEF WalkOK, WalkTyped, Block
<1>6. QED
  BY <1>1, <1>2, <1>4, <1>5, HonestStep
\* The block a visit is about.
LEMMA VisitFacts ==
  ASSUME WalkOK, DiskOK, Visiting
  PROVE  /\ frames # <<>> /\ file = <<>> /\ Top \in FrameType /\ 0 \notin Blocks
         /\ After(0) \in FrameType /\ \A b : ~Followed(b)
         /\ \A c \in Blocks : InFrame(After(0), c) => InFrame(Top, c)
         /\ ~Breaks(Top.current) =>
              LET b == Top.current
                  next == After(Block(b).next)
              IN /\ b \in Blocks /\ Sees(b) /\ b \in Reachable
                 /\ next \in FrameType /\ InFrame(next, Block(b).next)
                 /\ \A c \in Blocks : InFrame(next, c) => InFrame(Top, c) \/ c \in Leads(b)
                 /\ \A c : InFrame(Top, c) => c = b \/ InFrame(next, c)
<1>1. /\ frames # <<>> /\ file = <<>> /\ frames \in Seq(FrameType) /\ Top \in FrameType
      /\ 0 \notin Blocks /\ 0 \in Nat
  BY BlocksAssumption, TopFrame DEF Visiting, WalkOK, WalkTyped, Top
<1>2. \A b : ~Followed(b)
  BY <1>1 DEF Followed
<1>3. After(0) \in FrameType /\ \A c \in Blocks : InFrame(After(0), c) => InFrame(Top, c)
  BY <1>1, AfterFrame DEF InFrame
<1>4. ASSUME ~Breaks(Top.current)
      PROVE  LET b == Top.current
                 next == After(Block(b).next)
             IN /\ b \in Blocks /\ Sees(b) /\ b \in Reachable
                /\ next \in FrameType /\ InFrame(next, Block(b).next)
                /\ \A c \in Blocks : InFrame(next, c) => InFrame(Top, c) \/ c \in Leads(b)
                /\ \A c : InFrame(Top, c) => c = b \/ InFrame(next, c)
  <2> DEFINE b == Top.current
             next == After(Block(b).next)
  <2>1. b \in Blocks /\ InFrame(Top, b) /\ Block(b).next \in Nat
    BY <1>4 DEF Breaks, InFrame, DiskOK
  <2>2. Sees(b)
    BY <2>1, <1>1, TopFrame DEF Sees, Pending, Top
  <2>3. /\ next \in FrameType
        /\ \A c : InFrame(next, c) <=> c = Block(b).next \/ \E i \in DOMAIN Top.slots : Top.slots[i] = c
    BY <1>1, <2>1, AfterFrame
  <2>4. \A c \in Blocks : c = Block(b).next => c \in Leads(b)
    BY DEF Leads, Chained
  <2>5. QED
    BY <2>1, <2>2, <2>3, <2>4 DEF InFrame, WalkOK
<1>5. QED
  BY <1>1, <1>2, <1>3, <1>4

LEMMA BreakChainStep == WalkOK /\ DiskOK /\ BreakChain => WalkOK'
<1> SUFFICES ASSUME WalkOK, DiskOK, BreakChain PROVE WalkOK'
  OBVIOUS
<1>1. /\ Visiting /\ frames' = Frames(After(0)) /\ warned' = TRUE
      /\ UNCHANGED <<disk, file, visited, entries>>
  BY DEF BreakChain
<1>2. /\ frames' \in Seq(FrameType)
      /\ \A b \in Blocks : PendingIn(frames', b) => PendingIn(frames, b)
  BY <1>1, VisitFacts, TopStep DEF WalkOK
<1>3. \A b \in Blocks : Sees(b)' => Sees(b)
  BY <1>1, <1>2 DEF Sees, Pending, Shown, Followed
<1>4. WalkTyped'
  BY <1>1, <1>2 DEF WalkOK, WalkTyped, Block
<1>5. QED
  BY <1>1, <1>3, <1>4, HonestStep

LEMMA SkipBlockStep == WalkOK /\ DiskOK /\ SkipBlock => WalkOK'
<1> SUFFICES ASSUME WalkOK, DiskOK, SkipBlock PROVE WalkOK'
  OBVIOUS
<1> DEFINE b == Top.current
<1>1. /\ Visiting /\ ~Breaks(b) /\ frames' = Frames(After(Block(b).next)) /\ warned' = TRUE
      /\ UNCHANGED <<disk, file, visited, entries>>
  BY DEF SkipBlock
<1>2. /\ frames' \in Seq(FrameType) /\ b \in Blocks /\ Sees(b)
      /\ \A c \in Blocks : PendingIn(frames', c) => PendingIn(frames, c) \/ c \in Leads(b)
  BY <1>1, VisitFacts, TopStep DEF WalkOK
<1>3. \A c \in Blocks : Sees(c)' => Sees(c) \/ \E a \in Blocks : Sees(a) /\ c \in Leads(a)
  BY <1>1, <1>2 DEF Sees, Pending, Shown, Followed
<1>4. WalkTyped'
  BY <1>1, <1>2 DEF WalkOK, WalkTyped, Block
<1>5. QED
  BY <1>1, <1>3, <1>4, HonestStep

\* The frame of a directory, on top of what was under way.
LEMMA EnteredFrame ==
  ASSUME DiskOK, NEW b \in Blocks, NEW d \in Nat
  PROVE  LET new == [depth |-> d, slots |-> Block(b).slots, current |-> 0, chain |-> {}]
         IN /\ new \in FrameType
            /\ \A c \in Blocks : InFrame(new, c) <=> c \in Listed(b)
<1> DEFINE new == [depth |-> d, slots |-> Block(b).slots, current |-> 0, chain |-> {}]
<1>1. new \in FrameType /\ new.slots = Block(b).slots /\ new.current = 0
  BY DEF DiskOK, FrameType
<1>2. \A c \in Blocks : c # 0
  BY BlocksAssumption
<1>3. QED
  BY <1>1, <1>2 DEF InFrame, Listed

LEMMA VisitDirectoryStep == WalkOK /\ DiskOK /\ VisitDirectory => WalkOK'
<1> SUFFICES ASSUME WalkOK, DiskOK, VisitDirectory PROVE WalkOK'
  OBVIOUS
<1> DEFINE b == Top.current
           rest == Frames(After(Block(b).next))
           e == Entry(b, "directory", TRUE)
           new == [depth |-> Top.depth + 1, slots |-> Block(b).slots, current |-> 0, chain |-> {}]
<1>1. /\ Visiting /\ ~Breaks(b) /\ Block(b).secondary = "directory"
      /\ entries' = Append(entries, e)
      /\ \/ warned' = TRUE /\ frames' = rest
         \/ warned' = warned /\ frames' = <<new>> \o rest
      /\ UNCHANGED <<disk, file>>
  BY DEF VisitDirectory, Enter, TooDeep
<1>2. /\ b \in Blocks /\ Sees(b) /\ Top \in FrameType /\ frames # <<>> /\ file = <<>>
      /\ \A c \in Blocks : InFrame(After(Block(b).next), c) => InFrame(Top, c) \/ c \in Leads(b)
      /\ \A c : InFrame(Top, c) => c = b \/ InFrame(After(Block(b).next), c)
      /\ InFrame(After(Block(b).next), Block(b).next)
      /\ After(Block(b).next) \in FrameType
  BY <1>1, VisitFacts
<1>3. /\ rest \in Seq(FrameType)
      /\ \A c : PendingIn(rest, c) <=> InFrame(After(Block(b).next), c) \/ PendingIn(Tail(frames), c)
      /\ \A c : PendingIn(frames, c) <=> InFrame(Top, c) \/ PendingIn(Tail(frames), c)
  BY <1>2, TopFrame, PushedFrame DEF WalkOK, WalkTyped, Frames, Top
<1>4. /\ new \in FrameType /\ \A c \in Blocks : InFrame(new, c) <=> c \in Listed(b)
  <2>1. Top.depth + 1 \in Nat
    BY <1>2 DEF FrameType
  <2>2. QED
    BY <2>1, <1>2, EnteredFrame
<1>5. /\ <<new>> \o rest \in Seq(FrameType)
      /\ \A c : PendingIn(<<new>> \o rest, c) <=> InFrame(new, c) \/ PendingIn(rest, c)
  BY <1>3, <1>4, PushedFrame
<1>6. e \in EntryType /\ e.block = b /\ e.complete = TRUE
  BY <1>2 DEF Entry, EntryType
<1>7. /\ entries' \in Seq(EntryType)
      /\ \A c : Shown(c)' <=> Shown(c) \/ c = b
      /\ (\A i \in DOMAIN entries : entries[i].complete)
           => \A i \in DOMAIN entries' : entries'[i].complete
  BY <1>1, <1>6, Listing DEF WalkOK, WalkTyped
<1> HIDE DEF new, rest, e
<1>8. \A c : Followed(c)' <=> Followed(c)
  BY <1>1 DEF Followed
<1>9. Leads(b) = Chained(b) \cup Listed(b) /\ Leads(b) \subseteq Blocks
  BY <1>1 DEF Leads, Chained, Listed
<1>10. \A c \in Blocks : Sees(c)' => Sees(c) \/ \E a \in Blocks : Sees(a) /\ c \in Leads(a)
  BY <1>1, <1>2, <1>3, <1>4, <1>5, <1>7, <1>8, <1>9 DEF Sees, Pending
<1>11. ASSUME ~warned'
       PROVE  /\ ~warned
              /\ \A c \in Blocks : Sees(c) => Sees(c)'
              /\ \A c \in Leads(b) : Sees(c)'
  <2>1. frames' = <<new>> \o rest /\ ~warned
    BY <1>1, <1>11
  <2>2. \A c \in Blocks : PendingIn(frames, c) => c = b \/ PendingIn(frames', c)
    BY <2>1, <1>2, <1>3, <1>5
  <2>3. \A c \in Leads(b) : PendingIn(frames', c)
    BY <2>1, <1>2, <1>3, <1>4, <1>5, <1>9 DEF Chained
  <2>4. QED
    BY <2>1, <2>2, <2>3, <1>7, <1>8 DEF Sees, Pending
<1>12. WalkTyped'
  BY <1>1, <1>2, <1>3, <1>5, <1>7 DEF WalkTyped
<1>13. QED
  BY <1>1, <1>7, <1>8, <1>10, <1>11, <1>12, HonestStep

LEMMA VisitFileStep == WalkOK /\ DiskOK /\ VisitFile => WalkOK'
<1> SUFFICES ASSUME WalkOK, DiskOK, VisitFile PROVE WalkOK'
  OBVIOUS
<1> DEFINE b == Top.current
           rest == Frames(After(Block(b).next))
           new == [header |-> b, current |-> b, seen |-> {}, got |-> 0]
<1>1. /\ Visiting /\ ~Breaks(b) /\ Block(b).secondary = "file"
      /\ frames' = rest /\ file' = new
      /\ UNCHANGED <<disk, visited, entries, warned>>
  BY DEF VisitFile
<1>2. /\ b \in Blocks /\ Sees(b) /\ file = <<>>
      /\ \A c \in Blocks : InFrame(After(Block(b).next), c) => InFrame(Top, c) \/ c \in Leads(b)
      /\ \A c : InFrame(Top, c) => c = b \/ InFrame(After(Block(b).next), c)
      /\ InFrame(After(Block(b).next), Block(b).next)
      /\ After(Block(b).next) \in FrameType
  BY <1>1, VisitFacts
<1>3. /\ frames' \in Seq(FrameType)
      /\ \A c : PendingIn(frames', c) <=> InFrame(After(Block(b).next), c) \/ PendingIn(Tail(frames), c)
      /\ \A c : PendingIn(frames, c) <=> InFrame(Top, c) \/ PendingIn(Tail(frames), c)
  BY <1>1, <1>2, VisitFacts, TopStep DEF WalkOK
<1>4. /\ file'.header = b /\ file' # <<>>
      /\ file' = [header |-> file'.header, current |-> file'.current,
                  seen |-> file'.seen, got |-> file'.got]
  <2>1. "header" \in DOMAIN new /\ "header" \notin DOMAIN <<>>
    OBVIOUS
  <2>2. QED
    BY <2>1, <1>1
<1> HIDE DEF new, rest
<1>5. /\ \A c : Followed(c)' <=> c = b
      /\ \A c : ~Followed(c)
      /\ \A c : Shown(c)' <=> Shown(c)
  BY <1>1, <1>2, <1>4 DEF Followed, Shown
<1>6. Leads(b) = Chained(b) /\ Leads(b) \subseteq Blocks
  BY <1>1 DEF Leads, Chained
<1>7. \A c \in Blocks : Sees(c)' => Sees(c) \/ \E a \in Blocks : Sees(a) /\ c \in Leads(a)
  BY <1>1, <1>2, <1>3, <1>5 DEF Sees, Pending
<1>8. \A c \in Blocks : Sees(c) => Sees(c)'
  BY <1>2, <1>3, <1>5 DEF Sees, Pending
<1>9. \A c \in Leads(b) : Sees(c)'
  BY <1>2, <1>3, <1>6 DEF Sees, Pending, Chained
<1>10. WalkTyped'
  BY <1>1, <1>2, <1>3, <1>4 DEF WalkOK, WalkTyped, Block
<1>11. QED
  BY <1>1, <1>5, <1>7, <1>8, <1>9, <1>10, HonestStep

LEMMA NextExtensionStep == WalkOK /\ DiskOK /\ NextExtension => WalkOK'
<1> SUFFICES ASSUME WalkOK, DiskOK, NextExtension PROVE WalkOK'
  OBVIOUS
<1>1. /\ file # <<>> /\ UNCHANGED <<disk, frames, visited, entries, warned>>
      /\ file' = [file EXCEPT !.current = Block(file.current).extension,
                              !.got = @ + Block(file.current).got,
                              !.seen = @ \cup {file.current}]
      /\ file = [header |-> file.header, current |-> file.current,
                 seen |-> file.seen, got |-> file.got]
  BY DEF NextExtension, WalkOK, WalkTyped
<1>2. file'.header = file.header /\ file' # <<>>
  <2>1. "header" \in DOMAIN file' /\ "header" \notin DOMAIN <<>> /\ file'.header = file.header
    BY <1>1
  <2>2. QED
    BY <2>1
<1>3. file' = [header |-> file'.header, current |-> file'.current,
               seen |-> file'.seen, got |-> file'.got]
  BY <1>1
<1>4. \A c : (Followed(c)' <=> Followed(c)) /\ (Shown(c)' <=> Shown(c)) /\ (Sees(c)' <=> Sees(c))
  BY <1>1, <1>2 DEF Followed, Shown, Sees, Pending
<1>5. WalkTyped'
  BY <1>1, <1>2, <1>3 DEF WalkOK, WalkTyped, Block
<1>6. QED
  BY <1>1, <1>4, <1>5, HonestStep

\* A file is listed, whole or with a warning.
LEMMA ListFileStep ==
  ASSUME WalkOK, DiskOK, file # <<>>, NEW complete \in BOOLEAN, ListFile(complete),
         UNCHANGED <<disk, frames, visited>>
  PROVE  WalkOK'
<1> DEFINE b == file.header
           e == Entry(b, "file", complete)
<1>1. /\ entries' = Append(entries, e) /\ file' = <<>>
      /\ warned' = (warned \/ ~complete \/ Block(b).unsound)
      /\ b \in Blocks
  BY DEF ListFile, WalkOK, WalkTyped
<1>2. e \in EntryType /\ e.block = b /\ e.complete = complete
  BY <1>1 DEF Entry, EntryType
<1>3. /\ entries' \in Seq(EntryType)
      /\ \A c : Shown(c)' <=> Shown(c) \/ c = b
      /\ (\A i \in DOMAIN entries : entries[i].complete) /\ complete
           => \A i \in DOMAIN entries' : entries'[i].complete
  BY <1>1, <1>2, Listing DEF WalkOK, WalkTyped
<1>4. \A c : (Followed(c) <=> c = b) /\ ~Followed(c)'
  BY <1>1 DEF Followed
<1>5. \A c : Sees(c)' <=> Sees(c)
  BY <1>3, <1>4 DEF Sees, Pending
<1>6. ~warned' => ~warned /\ complete
  BY <1>1
<1>7. WalkTyped'
  BY <1>1, <1>3 DEF WalkOK, WalkTyped, Block
<1>8. ASSUME ~warned' PROVE (\A i \in DOMAIN entries : entries[i].complete)
                               => \A i \in DOMAIN entries' : entries'[i].complete
  BY <1>3, <1>6, <1>8
<1>9. ASSUME ~warned', NEW c \in Blocks, Shown(c)' \/ Followed(c)'
      PROVE  Shown(c) \/ Followed(c)
  BY <1>3, <1>4, <1>9
<1> HIDE DEF e, b
<1>10. QED
  BY <1>5, <1>6, <1>7, <1>8, <1>9, HonestStep

LEMMA WalkStepOK == WalkOK /\ DiskOK /\ WalkStep => WalkOK'
<1> SUFFICES ASSUME WalkOK, DiskOK, WalkStep PROVE WalkOK'
  OBVIOUS
<1>1. CASE CompleteFile
  BY <1>1, ListFileStep DEF CompleteFile
<1>2. CASE BreakFile
  BY <1>2, ListFileStep DEF BreakFile
<1>3. QED
  BY <1>1, <1>2, NextSlotStep, BreakChainStep, SkipBlockStep, VisitDirectoryStep, VisitFileStep,
     NextExtensionStep DEF WalkStep

-----------------------------------------------------------------------------
\* The walk starts with the root, whose hash table is all it has still to look at.
LEMMA AnalyzeFilesystemOK == WalkInit /\ DiskOK /\ AnalyzeFilesystem => WalkOK'
<1> SUFFICES ASSUME WalkInit, DiskOK, AnalyzeFilesystem PROVE WalkOK'
  OBVIOUS
<1> DEFINE r == disk.root
           new == [depth |-> 0, slots |-> Block(r).slots, current |-> 0, chain |-> {}]
<1>1. /\ UNCHANGED <<disk, file, entries>> /\ file = <<>> /\ entries = <<>> /\ frames = <<>>
  BY DEF AnalyzeFilesystem, WalkInit
<1>2. /\ entries' \in Seq(EntryType) /\ \A b : ~Shown(b)' /\ ~Followed(b)'
      /\ \A i \in DOMAIN entries' : entries'[i].complete
  BY <1>1 DEF Shown, Followed
<1>3. CASE frames' = <<>> /\ warned' = TRUE
  <2>1. WalkTyped' /\ \A b : ~Sees(b)'
    BY <1>1, <1>2, <1>3 DEF WalkTyped, Sees, Pending, PendingIn
  <2>2. QED
    BY <2>1, <1>3 DEF WalkOK
<1>4. CASE r \in Blocks /\ frames' = <<new>> \o <<>>
  <2>1. new \in FrameType /\ \A c \in Blocks : InFrame(new, c) <=> c \in Listed(r)
    BY <1>4, EnteredFrame
  <2> HIDE DEF new
  <2>2. /\ frames' \in Seq(FrameType)
        /\ \A c : PendingIn(frames', c) <=> InFrame(new, c)
    <3>1. <<>> \in Seq(FrameType)
      OBVIOUS
    <3>2. QED
      BY <1>4, <2>1, <3>1, PushedFrame, NoFrames
  <2>3. WalkTyped'
    BY <1>1, <1>2, <2>2 DEF WalkTyped
  <2>4. \A c \in Blocks : Sees(c)' <=> c \in Listed(r)
    BY <2>1, <2>2, <1>2 DEF Sees, Pending
  <2>5. Reachable' = Reachable /\ Listed(disk.root)' = Listed(r) /\ Listed(r) \subseteq Blocks
    BY <1>1 DEF Reachable, Leads, Listed, Chained, ClosedUnder, Block
  <2>6. \A b \in Blocks : Sees(b)' => b \in Reachable'
    BY <2>4, <2>5, ReachableClosed
  <2>7. Covers'
    BY <2>4, <2>5, <1>2 DEF Covers
  <2>8. QED
    BY <2>3, <2>6, <2>7 DEF WalkOK
<1>5. QED
  <2>1. CASE r \in Blocks /\ Block(r).type = "header" /\ Block(r).secondary = "root"
    BY <2>1, <1>3, <1>4, <1>1 DEF AnalyzeFilesystem, Enter, TooDeep
  <2>2. CASE ~(r \in Blocks /\ Block(r).type = "header" /\ Block(r).secondary = "root")
    BY <2>2, <1>3, <1>1 DEF AnalyzeFilesystem
  <2>3. QED
    BY <2>1, <2>2

LEMMA WalkInvInit == ScanInit => WalkInv
<1> SUFFICES ASSUME ScanInit PROVE WalkInv
  OBVIOUS
<1>1. PICK c \in Cases : content = c.content /\ disk = c.disk
  BY DEF ScanInit
<1>2. DiskOK
  BY <1>1, CasesAssumption DEF DiskOK, Block
<1>3. QED
  BY <1>2 DEF ScanInit, WalkInv

LEMMA WalkInvStep == WalkInv /\ [ScanNext]_scanVars => WalkInv'
<1> SUFFICES ASSUME WalkInv, [ScanNext]_scanVars PROVE WalkInv'
  OBVIOUS
<1>1. ASSUME UNCHANGED <<disk, walk>>, pc' # "walk", pc # "walk" PROVE WalkInv'
  BY <1>1 DEF WalkInv, WalkInit, walk, DiskOK, Block
<1>2. CASE OpenFile \/ ScanOpaque \/ ScanDisk \/ Unpack \/ NextMember \/ EndArchive \/ Finish
  BY <1>1, <1>2 DEF OpenFile, ScanOpaque, ScanDisk, Unpack, NextMember, EndArchive, Finish, Go
<1>3. CASE ScanPreserved
  BY <1>1, <1>3 DEF ScanPreserved, Fail
<1>4. CASE FailToUnpack
  BY <1>1, <1>4 DEF FailToUnpack, Fail
<1>5. CASE Reserve
  BY <1>1, <1>5 DEF Reserve, Fail
<1>6. CASE AnalyzeDisk
  <2>1. CASE UNCHANGED <<disk, walk>> /\ pc' # "walk"
    BY <2>1, <1>6, <1>1 DEF AnalyzeDisk
  <2>2. CASE pc' = "walk" /\ AnalyzeFilesystem
    <3>1. WalkInit /\ DiskOK
      BY <1>6 DEF AnalyzeDisk, WalkInv
    <3>2. DiskOK'
      BY <2>2, <3>1 DEF AnalyzeFilesystem, DiskOK, Block
    <3>3. QED
      BY <3>1, <3>2, <2>2, AnalyzeFilesystemOK DEF WalkInv
  <2>3. QED
    BY <2>1, <2>2, <1>6 DEF AnalyzeDisk, Fail
<1>7. CASE WalkDisk
  <2>1. WalkOK /\ DiskOK /\ WalkStep /\ pc' = "walk"
    BY <1>7 DEF WalkDisk, WalkInv, scan
  <2>2. disk' = disk
    BY <2>1 DEF WalkStep, NextSlot, BreakChain, SkipBlock, VisitDirectory, VisitFile,
                CompleteFile, NextExtension, BreakFile
  <2>3. DiskOK'
    BY <2>1, <2>2 DEF DiskOK, Block
  <2>4. QED
    BY <2>1, <2>3, WalkStepOK DEF WalkInv
<1>8. CASE WalkEnds
  BY <1>8 DEF WalkEnds, Go, WalkInv, WalkInit, DiskOK, Block
<1>9. CASE UNCHANGED scanVars
  <2>1. UNCHANGED <<disk, frames, file, visited, entries, warned, pc>>
    BY <1>9 DEF scanVars, walk, scan
  <2>2. WalkOK' <=> WalkOK
    BY <2>1 DEF WalkOK, WalkTyped, Covers, Sees, Pending, Followed, Shown, Reachable, Listed,
                ClosedUnder, Leads, Chained, Block
  <2>3. QED
    BY <2>1, <2>2 DEF WalkInv, WalkInit, DiskOK, Block
<1>10. QED
  BY <1>2, <1>3, <1>4, <1>5, <1>6, <1>7, <1>8, <1>9 DEF ScanNext

LEMMA HonestListing == WalkInv => ListingIsHonest
<1> SUFFICES ASSUME WalkInv, frames = <<>>, file = <<>>, visited # {} PROVE
       LET shown == {entries[i].block : i \in DOMAIN entries}
       IN /\ shown \subseteq Reachable
          /\ ~warned => /\ shown = Reachable
                        /\ \A i \in DOMAIN entries : entries[i].complete
  BY DEF ListingIsHonest
<1> DEFINE shown == {entries[i].block : i \in DOMAIN entries}
<1>1. WalkOK
  BY DEF WalkInv, WalkInit
<1>2. \A b : (b \in shown <=> Shown(b)) /\ (Sees(b) <=> Shown(b))
  BY NoFrames DEF Sees, Pending, Followed, Shown
<1>3. shown \subseteq Blocks
  <2>1. \A i \in DOMAIN entries : entries[i] \in EntryType
    BY <1>1 DEF WalkOK, WalkTyped
  <2>2. QED
    BY <2>1 DEF EntryType
<1>4. shown \subseteq Reachable
  BY <1>1, <1>2, <1>3 DEF WalkOK
<1>5. ASSUME ~warned PROVE Reachable \subseteq shown /\ \A i \in DOMAIN entries : entries[i].complete
  <2>1. Covers
    BY <1>1, <1>5 DEF WalkOK
  <2>2. Listed(disk.root) \subseteq shown /\ ClosedUnder(shown)
    <3>1. Listed(disk.root) \subseteq shown
      BY <2>1, <1>2 DEF Covers
    <3>2. \A b \in shown : Leads(b) \subseteq shown
      BY <2>1, <1>2, <1>3 DEF Covers
    <3>3. QED
      BY <3>1, <3>2 DEF ClosedUnder
  <2>3. QED
    BY <2>1, <2>2, <1>3 DEF Reachable, Covers
<1>6. QED
  BY <1>4, <1>5

(* A listing without a warning is the whole disk, and one with warnings shows  *)
(* nothing that is not on it: for every image, whatever its blocks point at,   *)
(* and every depth limit (walkDirectory, analyzeFilePayload).                  *)
THEOREM ListingsAreHonest == ScanSpec => []ListingIsHonest
<1>1. ScanSpec => []WalkInv
  BY WalkInvInit, WalkInvStep, PTL DEF ScanSpec
<1>2. QED
  BY <1>1, HonestListing, PTL

-----------------------------------------------------------------------------
(* Sums over finite sets: MapThenSumSet takes its elements in the order of a   *)
(* CHOOSE, and what it returns does not depend on it. Its recursion over       *)
(* subsets is a function g with SumLoop(g, F, S).                              *)
Pick(s) == CHOOSE x \in s : TRUE
SumLoop(g, F, S) ==
  g = [s \in SUBSET S |-> IF s = {} THEN 0 ELSE F[Pick(s)] + g[s \ {Pick(s)}]]

LEMMA LeastNumber ==
  ASSUME NEW T, T \subseteq Nat, T # {}
  PROVE  \E x \in T : \A y \in T : x <= y
<1> DEFINE Less == OpToRel(<, Nat)
<1>1. IsWellFoundedOn(Less, Nat)
  BY NatLessThanWellFounded
<1>2. \A x, y \in Nat : <<y, x>> \in Less <=> y < x
  BY DEF OpToRel
<1> HIDE DEF Less
<1>3. \E x \in T : \A y \in T : ~(<<y, x>> \in Less)
  BY <1>1, WFMin
<1>4. PICK x \in T : \A y \in T : ~(<<y, x>> \in Less)
  BY <1>3
<1>5. ASSUME NEW y \in T PROVE x <= y
  <2>1. x \in Nat /\ y \in Nat
    OBVIOUS
  <2>2. ~(y < x)
    BY <1>2, <1>4, <2>1
  <2>3. QED
    BY <2>1, <2>2
<1>6. QED
  BY <1>5

LEMMA PickElement == \A s : s # {} => Pick(s) \in s
BY DEF Pick

\* Of a set of subsets of a finite set one is smallest.
LEMMA SmallestSubset ==
  ASSUME NEW S, IsFiniteSet(S), NEW B \in SUBSET (SUBSET S), B # {}
  PROVE  \E T \in B : \A x \in T : T \ {x} \notin B
<1>1. \A T \in B : IsFiniteSet(T) /\ Cardinality(T) \in Nat
  BY FS_Subset, FS_CardinalityType
<1> DEFINE C == {Cardinality(T) : T \in B}
<1>2. C \subseteq Nat /\ C # {}
  BY <1>1
<1>3. PICK m \in C : \A k \in C : m <= k
  BY <1>2, LeastNumber
<1>4. PICK T \in B : m = Cardinality(T)
  OBVIOUS
<1>5. ASSUME NEW x \in T, T \ {x} \in B PROVE FALSE
  <2>1. Cardinality(T \ {x}) = m - 1 /\ m \in Nat
    BY <1>1, <1>4, <1>5, FS_RemoveElement
  <2>2. Cardinality(T \ {x}) \in C
    BY <1>5
  <2>3. m <= m - 1
    BY <1>3, <2>1, <2>2
  <2>4. QED
    BY <2>1, <2>3
<1>6. QED
  BY <1>5

\* The recursion has a solution.
Small(S, n) == {s \in SUBSET S : Cardinality(s) <= n}
SmallLoop(g, F, S, n) ==
  g = [s \in Small(S, n) |-> IF s = {} THEN 0 ELSE F[Pick(s)] + g[s \ {Pick(s)}]]

LEMMA SubsetSizes ==
  ASSUME NEW S, IsFiniteSet(S)
  PROVE  /\ Cardinality(S) \in Nat /\ Cardinality({}) = 0
         /\ \A s \in SUBSET S :
              /\ IsFiniteSet(s) /\ Cardinality(s) \in Nat /\ Cardinality(s) <= Cardinality(S)
              /\ Cardinality(s) = 0 <=> s = {}
              /\ \A x \in s : Cardinality(s \ {x}) = Cardinality(s) - 1
BY FS_Subset, FS_CardinalityType, FS_EmptySet, FS_RemoveElement

LEMMA SumLoops ==
  ASSUME NEW S, IsFiniteSet(S), NEW F
  PROVE  \E g : SumLoop(g, F, S)
<1> DEFINE N == Cardinality(S)
           Missing == {n \in 0..N : ~\E g : SmallLoop(g, F, S, n)}
<1>0. N \in Nat
  BY SubsetSizes
<1>1. Missing = {}
  <2> SUFFICES ASSUME Missing # {} PROVE FALSE
    OBVIOUS
  <2> HIDE DEF Missing
  <2>1. PICK n \in Missing : \A k \in Missing : n <= k
    <3>1. Missing \subseteq Nat
      BY <1>0 DEF Missing
    <3>2. QED
      BY <3>1, LeastNumber
  <2>2. n \in 0..N /\ n \in Nat /\ ~\E g : SmallLoop(g, F, S, n)
    BY <1>0 DEF Missing
  <2>3. CASE n = 0
    <3>1. \A s \in Small(S, 0) : s = {}
      BY SubsetSizes DEF Small
    <3>2. SmallLoop([s \in Small(S, 0) |-> 0], F, S, 0)
      BY <3>1 DEF SmallLoop
    <3>3. QED
      BY <2>2, <2>3, <3>2
  <2>4. CASE n # 0
    <3>1. n - 1 \in 0..N /\ ~(n <= n - 1) /\ n - 1 \in Nat
      BY <2>2, <2>4, <1>0
    <3>2. PICK f : SmallLoop(f, F, S, n - 1)
      BY <2>1, <3>1 DEF Missing
    <3> DEFINE g == [s \in Small(S, n) |->
                       IF Cardinality(s) = n THEN F[Pick(s)] + f[s \ {Pick(s)}] ELSE f[s]]
    <3>3. \A s \in Small(S, n - 1) : f[s] = IF s = {} THEN 0 ELSE F[Pick(s)] + f[s \ {Pick(s)}]
      BY <3>2 DEF SmallLoop
    <3>4. g = [s \in Small(S, n) |-> g[s]]
      OBVIOUS
    <3>5. \A s \in Small(S, n - 1) : s \in Small(S, n) /\ g[s] = f[s]
      <4>1. ASSUME NEW s \in Small(S, n - 1) PROVE s \in Small(S, n) /\ Cardinality(s) # n
        <5>1. s \in SUBSET S /\ Cardinality(s) <= n - 1
          BY DEF Small
        <5>2. Cardinality(s) \in Nat
          BY <5>1, SubsetSizes
        <5>3. Cardinality(s) <= n /\ Cardinality(s) # n
          BY <5>1, <5>2, <2>2
        <5>4. QED
          BY <5>1, <5>3 DEF Small
      <4>2. QED
        BY <4>1
    <3>6. \A s \in Small(S, n) : Cardinality(s) = n => g[s] = F[Pick(s)] + f[s \ {Pick(s)}]
      OBVIOUS
    <3> HIDE DEF g
    <3>7. ASSUME NEW s \in Small(S, n)
          PROVE  g[s] = IF s = {} THEN 0 ELSE F[Pick(s)] + g[s \ {Pick(s)}]
      <4>1. s \in SUBSET S /\ Cardinality(s) \in Nat /\ Cardinality(s) <= n
        BY SubsetSizes DEF Small
      <4>2. s # {} => s \ {Pick(s)} \in Small(S, n - 1)
        <5> SUFFICES ASSUME s # {} PROVE s \ {Pick(s)} \in Small(S, n - 1)
          OBVIOUS
        <5>1. Cardinality(s \ {Pick(s)}) = Cardinality(s) - 1
          BY <4>1, SubsetSizes, PickElement
        <5>2. Cardinality(s \ {Pick(s)}) <= n - 1
          BY <4>1, <5>1, <2>2
        <5>3. QED
          BY <4>1, <5>2 DEF Small
      <4>3. CASE Cardinality(s) = n
        <5>1. s # {}
          BY <4>3, <2>4, SubsetSizes
        <5>2. QED
          BY <5>1, <4>2, <4>3, <3>5, <3>6
      <4>4. CASE Cardinality(s) # n
        <5>0. Cardinality(s) <= n - 1
          BY <4>1, <4>4, <2>2
        <5>1. s \in Small(S, n - 1)
          BY <4>1, <5>0 DEF Small
        <5>2. QED
          BY <5>1, <4>2, <3>3, <3>5
      <4>5. QED
        BY <4>3, <4>4
    <3>8. SmallLoop(g, F, S, n)
      BY <3>4, <3>7 DEF SmallLoop
    <3>9. QED
      BY <2>2, <3>8
  <2>5. QED
    BY <2>3, <2>4
<1>2. PICK g : SmallLoop(g, F, S, N)
  BY <1>1, <1>0
<1>3. Small(S, N) = SUBSET S
  BY SubsetSizes DEF Small
<1>4. QED
  BY <1>2, <1>3 DEF SmallLoop, SumLoop

\* A sum is a number, and every element can be taken first.
SumOf(g, F, T) == /\ g[T] \in Nat
                  /\ \A x \in T : g[T \ {x}] \in Nat /\ g[T] = F[x] + g[T \ {x}]

LEMMA SumValue ==
  ASSUME NEW S, IsFiniteSet(S), NEW F, \A x \in S : F[x] \in Nat,
         NEW g, SumLoop(g, F, S)
  PROVE  \A T \in SUBSET S : SumOf(g, F, T)
<1> DEFINE Bad == {T \in SUBSET S : ~SumOf(g, F, T)}
<1> SUFFICES ASSUME Bad # {} PROVE FALSE
  OBVIOUS
<1>1. PICK T \in Bad : \A x \in T : T \ {x} \notin Bad
  <2>1. Bad \in SUBSET (SUBSET S)
    OBVIOUS
  <2> HIDE DEF Bad
  <2>2. QED
    BY <2>1, SmallestSubset
<1>2. T \in SUBSET S /\ ~SumOf(g, F, T)
  OBVIOUS
<1>3. \A x \in T : SumOf(g, F, T \ {x})
  BY <1>1
<1> HIDE DEF Bad
<1>4. g[T] = IF T = {} THEN 0 ELSE F[Pick(T)] + g[T \ {Pick(T)}]
  BY <1>2 DEF SumLoop
<1>5. T # {}
  BY <1>2, <1>4 DEF SumOf
<1> DEFINE c == Pick(T)
<1>6. c \in T /\ g[T] = F[c] + g[T \ {c}] /\ F[c] \in Nat
  BY <1>2, <1>4, <1>5, PickElement
<1>7. \A x \in T : g[T \ {x}] \in Nat /\ F[x] \in Nat
  BY <1>2, <1>3 DEF SumOf
<1>8. ASSUME NEW x \in T PROVE g[T] = F[x] + g[T \ {x}]
  <2>1. CASE x = c
    BY <2>1, <1>6
  <2>2. CASE x # c
    <3>1. c \in T \ {x} /\ x \in T \ {c} /\ (T \ {x}) \ {c} = (T \ {c}) \ {x}
      BY <1>6, <1>8, <2>2
    <3> DEFINE r == (T \ {c}) \ {x}
    <3>2. g[T \ {x}] = F[c] + g[r] /\ g[r] \in Nat
      BY <1>3, <1>8, <3>1 DEF SumOf
    <3>3. g[T \ {c}] = F[x] + g[r]
      BY <1>3, <1>6, <3>1 DEF SumOf
    <3> HIDE DEF r, c
    <3>4. QED
      BY <3>2, <3>3, <1>6, <1>7, <1>8
  <2>3. QED
    BY <2>1, <2>2
<1>9. g[T] \in Nat
  BY <1>6, <1>7
<1>10. QED
  BY <1>2, <1>7, <1>8, <1>9 DEF SumOf

\* A sum is determined by what is summed.
LEMMA SumAgrees ==
  ASSUME NEW S, NEW R, S \subseteq R, IsFiniteSet(R), NEW F, NEW G, \A x \in S : F[x] = G[x],
         NEW g, SumLoop(g, F, S), NEW h, SumLoop(h, G, R)
  PROVE  g[S] = h[S]
<1> DEFINE Bad == {T \in SUBSET S : g[T] # h[T]}
<1>1. Bad = {}
  <2> SUFFICES ASSUME Bad # {} PROVE FALSE
    OBVIOUS
  <2>1. PICK T \in Bad : \A x \in T : T \ {x} \notin Bad
    <3>1. Bad \in SUBSET (SUBSET S) /\ IsFiniteSet(S)
      BY FS_Subset
    <3> HIDE DEF Bad
    <3>2. QED
      BY <3>1, SmallestSubset
  <2>2. T \in SUBSET S /\ T \in SUBSET R /\ g[T] # h[T] /\ \A x \in T : g[T \ {x}] = h[T \ {x}]
    BY <2>1
  <2>3. /\ g[T] = IF T = {} THEN 0 ELSE F[Pick(T)] + g[T \ {Pick(T)}]
        /\ h[T] = IF T = {} THEN 0 ELSE G[Pick(T)] + h[T \ {Pick(T)}]
    BY <2>2 DEF SumLoop
  <2>4. T # {} => F[Pick(T)] = G[Pick(T)] /\ g[T \ {Pick(T)}] = h[T \ {Pick(T)}]
    BY <2>2, PickElement
  <2> HIDE DEF Bad
  <2>5. QED
    BY <2>2, <2>3, <2>4
<1>2. QED
  BY <1>1

\* One more element.
LEMMA SumAdded ==
  ASSUME NEW S, NEW x, x \notin S, IsFiniteSet(S),
         NEW F, NEW G, \A y \in S : F[y] = G[y], \A y \in S \cup {x} : G[y] \in Nat,
         NEW g, SumLoop(g, F, S), NEW h, SumLoop(h, G, S \cup {x})
  PROVE  g[S] \in Nat /\ h[S \cup {x}] = g[S] + G[x]
<1>1. IsFiniteSet(S \cup {x}) /\ (S \cup {x}) \ {x} = S
  BY FS_AddElement
<1>2. SumOf(h, G, S \cup {x}) /\ SumOf(h, G, S)
  BY <1>1, SumValue
<1>3. g[S] = h[S]
  BY <1>1, SumAgrees
<1>4. h[S \cup {x}] = G[x] + h[S] /\ h[S] \in Nat /\ G[x] \in Nat
  BY <1>1, <1>2 DEF SumOf
<1>5. QED
  BY <1>3, <1>4

\* The sums of the model are such sums.
LEMMA ExpandedLoop ==
  ASSUME NEW c, content[c].members \in Seq(Contents)
  PROVE  LET S == DOMAIN Members(c)
         IN /\ IsFiniteSet(S)
            /\ \E g : /\ SumLoop(g, [i \in S |-> content[Members(c)[i]].size], S)
                      /\ Expanded(c) = g[S]
<1> DEFINE S == DOMAIN Members(c)
           F == [i \in S |-> content[Members(c)[i]].size]
           A(g) == g = [s \in SUBSET S |-> IF s = {} THEN 0
                          ELSE content[Members(c)[CHOOSE x \in s : TRUE]].size + g[s \ {CHOOSE x \in s : TRUE}]]
<1>1. IsFiniteSet(S)
  <2>1. S = 1..Len(Members(c)) /\ Len(Members(c)) \in Nat
    BY DEF Members
  <2>2. QED
    BY <2>1, FS_Interval
<1>2. Expanded(c) = (CHOOSE g : A(g))[S]
  BY DEF Expanded, MapThenSumSet, MapThenFoldSet
<1>3. \A g : A(g) <=> SumLoop(g, F, S)
  <2>1. \A s \in SUBSET S : s # {} => F[Pick(s)] = content[Members(c)[CHOOSE x \in s : TRUE]].size
    BY PickElement DEF Pick
  <2>2. QED
    BY <2>1 DEF SumLoop, Pick
<1>4. \E g : SumLoop(g, F, S)
  BY <1>1, SumLoops
<1> HIDE DEF F, S, A
<1>5. \E g : A(g)
  BY <1>3, <1>4
<1>6. A(CHOOSE g : A(g))
  BY <1>5
<1>7. QED
  BY <1>1, <1>2, <1>3, <1>6 DEF F, S

-----------------------------------------------------------------------------
(* One budget for the whole scan.                                              *)

ContentOK == \A c \in Contents : /\ Members(c) \in Seq(Contents)
                                 /\ {content[c].size, content[c].directories} \subseteq Nat

Charge == [expanded : Nat, entries : Nat]
ResultType == [content : Contents, verdict : {"unknown", "infected"},
               unpacked : BOOLEAN, failed : BOOLEAN]
FrameOf == [path : Seq(Nat), content : Contents, next : Nat \ {0}]
ScanTyped ==
  /\ pc \in PCs
  /\ at.path \in Seq(Nat) /\ at = [path |-> at.path, content |-> at.content]
  /\ stack \in Seq(FrameOf)
  /\ IsFiniteSet(DOMAIN results)
  /\ \A p \in DOMAIN results : p \in Seq(Nat) /\ results[p] \in ResultType
  /\ budget \in Charge /\ decoded \in Charge

\* A path goes through member i of the archive at another path.
Under(p, i, q) == /\ Len(p) < Len(q) /\ q[Len(p) + 1] = i
                  /\ \A m \in 1..Len(p) : q[m] = p[m]

\* The archives under way lie in each other, and the members from "next" on have no
\* results yet.
Inside(f, q) == \E i \in 1..(f.next - 1) : Under(f.path, i, q)
StackInv ==
  /\ \A k \in DOMAIN stack :
       /\ stack[k].path \in DOMAIN results
       /\ results[stack[k].path].content = stack[k].content
       /\ results[stack[k].path].unpacked
       /\ \A q \in DOMAIN results : \A i \in Nat :
            Under(stack[k].path, i, q) => i < stack[k].next
  /\ \A k, l \in DOMAIN stack : k < l => Inside(stack[l], stack[k].path)

\* What is being scanned has its result, with nothing below it before it is unpacked.
AtInv ==
  /\ pc = "open" => DOMAIN results = {} /\ stack = <<>> /\ at = [path |-> <<>>, content |-> Submitted]
  /\ pc \in {"payload", "reserve", "disk", "walk"} => at.path \in DOMAIN results
  /\ pc \in {"payload", "reserve"} =>
       /\ results[at.path].content = at.content /\ ~results[at.path].unpacked
       /\ \A q \in DOMAIN results : \A i \in Nat : ~Under(at.path, i, q)
       /\ \A l \in DOMAIN stack : Inside(stack[l], at.path)

\* Between a decoder's answer and its charge.
DecodedInv ==
  decoded = IF pc = "reserve" THEN [expanded |-> Expanded(at.content), entries |-> Entries(at.content)]
                              ELSE Nothing

TreeInv == ContentOK /\ ScanTyped /\ StackInv /\ AtInv /\ DecodedInv
BudgetInv == TreeInv /\ BudgetHolds

-----------------------------------------------------------------------------
\* What the members of an archive hold together.
LEMMA ExpandedIsNumber == ContentOK => \A c \in Contents : Expanded(c) \in Nat /\ Entries(c) \in Nat
<1> SUFFICES ASSUME ContentOK, NEW c \in Contents PROVE Expanded(c) \in Nat /\ Entries(c) \in Nat
  OBVIOUS
<1>1. Members(c) \in Seq(Contents) /\ content[c].members \in Seq(Contents)
  BY DEF ContentOK, Members
<1> DEFINE S == DOMAIN Members(c)
           F == [i \in S |-> content[Members(c)[i]].size]
<1>2. IsFiniteSet(S) /\ \E g : SumLoop(g, F, S) /\ Expanded(c) = g[S]
  BY <1>1, ExpandedLoop
<1>3. \A i \in S : F[i] \in Nat
  BY <1>1 DEF ContentOK
<1> HIDE DEF F, S
<1>4. PICK g : SumLoop(g, F, S) /\ Expanded(c) = g[S]
  BY <1>2
<1>5. SumOf(g, F, S)
  BY <1>2, <1>3, <1>4, SumValue
<1>6. Entries(c) \in Nat
  BY <1>1 DEF Entries
<1>7. QED
  BY <1>4, <1>5, <1>6 DEF SumOf

LEMMA ExpandedStays == content' = content => \A c : Expanded(c)' = Expanded(c) /\ Entries(c)' = Entries(c)
BY DEF Expanded, Entries, Members, Format, MapThenSumSet, MapThenFoldSet

\* The budget's sums over the results, as solutions of their recursions.
Expansions == [p \in Unpacked |-> Expanded(results[p].content)]
EntryCounts == [p \in Unpacked |-> Entries(results[p].content)]
SumsBy(g, h) ==
  /\ SumLoop(g, Expansions, Unpacked)
  /\ MapThenSumSet(LAMBDA p : Expanded(results[p].content), Unpacked) = g[Unpacked]
  /\ SumLoop(h, EntryCounts, Unpacked)
  /\ MapThenSumSet(LAMBDA p : Entries(results[p].content), Unpacked) = h[Unpacked]

LEMMA ChargedLoops == IsFiniteSet(DOMAIN results) => \E g, h : SumsBy(g, h)
<1> SUFFICES ASSUME IsFiniteSet(DOMAIN results) PROVE \E g, h : SumsBy(g, h)
  OBVIOUS
<1>1. IsFiniteSet(Unpacked)
  BY FS_Subset DEF Unpacked
<1> DEFINE A(g) == g = [s \in SUBSET Unpacked |-> IF s = {} THEN 0
                          ELSE Expanded(results[CHOOSE x \in s : TRUE].content) + g[s \ {CHOOSE x \in s : TRUE}]]
           B(h) == h = [s \in SUBSET Unpacked |-> IF s = {} THEN 0
                          ELSE Entries(results[CHOOSE x \in s : TRUE].content) + h[s \ {CHOOSE x \in s : TRUE}]]
<1>2. MapThenSumSet(LAMBDA p : Expanded(results[p].content), Unpacked) = (CHOOSE g : A(g))[Unpacked]
  BY DEF MapThenSumSet, MapThenFoldSet
<1>3. MapThenSumSet(LAMBDA p : Entries(results[p].content), Unpacked) = (CHOOSE h : B(h))[Unpacked]
  BY DEF MapThenSumSet, MapThenFoldSet
<1>4. \A g : A(g) <=> SumLoop(g, Expansions, Unpacked)
  <2>1. \A s \in SUBSET Unpacked : s # {} => Expansions[Pick(s)] = Expanded(results[CHOOSE x \in s : TRUE].content)
    BY PickElement DEF Pick, Expansions
  <2>2. QED
    BY <2>1 DEF SumLoop, Pick
<1>5. \A h : B(h) <=> SumLoop(h, EntryCounts, Unpacked)
  <2>1. \A s \in SUBSET Unpacked : s # {} => EntryCounts[Pick(s)] = Entries(results[CHOOSE x \in s : TRUE].content)
    BY PickElement DEF Pick, EntryCounts
  <2>2. QED
    BY <2>1 DEF SumLoop, Pick
<1> HIDE DEF A, B
<1>6. (\E g : A(g)) /\ (\E h : B(h))
  BY <1>1, <1>4, <1>5, SumLoops
<1>7. A(CHOOSE g : A(g)) /\ B(CHOOSE h : B(h))
  BY <1>6
<1>8. QED
  BY <1>2, <1>3, <1>4, <1>5, <1>7 DEF SumsBy

LEMMA NextChargedLoops == IsFiniteSet(DOMAIN results)' => (\E g, h : SumsBy(g, h))'
BY ChargedLoops, PTL

\* The budget is right as long as nothing more is unpacked.
LEMMA BudgetKept ==
  ASSUME ContentOK, IsFiniteSet(DOMAIN results), IsFiniteSet(DOMAIN results'), BudgetHolds,
         content' = content, budget' = budget, Unpacked' = Unpacked,
         \A p \in Unpacked : results'[p].content = results[p].content,
         budget.expanded + decoded'.expanded <= MaxExpandedSize,
         budget.entries + decoded'.entries <= MaxMembers
  PROVE  BudgetHolds'
<1>1. PICK g, h : SumsBy(g, h)
  BY ChargedLoops
<1>2. \E e, f : SumsBy(e, f)'
  BY NextChargedLoops
<1>3. PICK e, f : SumsBy(e, f)'
  BY <1>2
<1>4. /\ \A p \in Unpacked : Expansions'[p] = Expansions[p]
      /\ \A p \in Unpacked : EntryCounts'[p] = EntryCounts[p]
  BY ExpandedStays DEF Expansions, EntryCounts
<1>5. IsFiniteSet(Unpacked)
  BY FS_Subset DEF Unpacked
<1>6. g[Unpacked] = e[Unpacked] /\ h[Unpacked] = f[Unpacked]
  <2>1. SumLoop(g, Expansions, Unpacked) /\ SumLoop(e, Expansions', Unpacked)
    BY <1>1, <1>3 DEF SumsBy, SumLoop, Pick
  <2>2. SumLoop(h, EntryCounts, Unpacked) /\ SumLoop(f, EntryCounts', Unpacked)
    BY <1>1, <1>3 DEF SumsBy, SumLoop, Pick
  <2>3. g[Unpacked] = e[Unpacked]
    BY <1>4, <1>5, <2>1, SumAgrees
  <2>4. h[Unpacked] = f[Unpacked]
    BY <1>4, <1>5, <2>2, SumAgrees
  <2>5. QED
    BY <2>3, <2>4
<1>7. /\ budget.expanded = g[Unpacked] /\ budget.entries = h[Unpacked]
  BY <1>1 DEF BudgetHolds, SumsBy
<1>8. /\ MapThenSumSet(LAMBDA p : Expanded(results[p].content), Unpacked)' = e[Unpacked]
      /\ MapThenSumSet(LAMBDA p : Entries(results[p].content), Unpacked)' = f[Unpacked]
  BY <1>3 DEF SumsBy
<1>9. QED
  BY <1>6, <1>7, <1>8 DEF BudgetHolds

\* What is unpacked is charged once.
LEMMA BudgetCharged ==
  ASSUME ContentOK, IsFiniteSet(DOMAIN results), IsFiniteSet(DOMAIN results'), BudgetHolds,
         content' = content, NEW path, path \notin Unpacked, Unpacked' = Unpacked \cup {path},
         \A p \in Unpacked : results'[p].content = results[p].content,
         \A p \in Unpacked \cup {path} : results'[p].content \in Contents,
         budget' = [expanded |-> budget.expanded + Expanded(results'[path].content),
                    entries |-> budget.entries + Entries(results'[path].content)],
         budget'.expanded <= MaxExpandedSize, budget'.entries <= MaxMembers,
         budget \in Charge, decoded' = Nothing
  PROVE  BudgetHolds'
<1>1. PICK g, h : SumsBy(g, h)
  BY ChargedLoops
<1>2. \E e, f : SumsBy(e, f)'
  BY NextChargedLoops
<1>3. PICK e, f : SumsBy(e, f)'
  BY <1>2
<1>4. /\ \A p \in Unpacked : Expansions'[p] = Expansions[p] /\ EntryCounts'[p] = EntryCounts[p]
      /\ \A p \in Unpacked \cup {path} : Expansions'[p] \in Nat /\ EntryCounts'[p] \in Nat
      /\ Expansions'[path] = Expanded(results'[path].content)
      /\ EntryCounts'[path] = Entries(results'[path].content)
  BY ExpandedStays, ExpandedIsNumber DEF Expansions, EntryCounts
<1>5. IsFiniteSet(Unpacked)
  BY FS_Subset DEF Unpacked
<1>6. /\ g[Unpacked] \in Nat /\ e[Unpacked'] = g[Unpacked] + Expansions'[path]
      /\ h[Unpacked] \in Nat /\ f[Unpacked'] = h[Unpacked] + EntryCounts'[path]
  <2>1. SumLoop(g, Expansions, Unpacked) /\ SumLoop(e, Expansions', Unpacked \cup {path})
    BY <1>1, <1>3 DEF SumsBy, SumLoop, Pick
  <2>2. SumLoop(h, EntryCounts, Unpacked) /\ SumLoop(f, EntryCounts', Unpacked \cup {path})
    BY <1>1, <1>3 DEF SumsBy, SumLoop, Pick
  <2>3. g[Unpacked] \in Nat /\ e[Unpacked'] = g[Unpacked] + Expansions'[path]
    BY <1>4, <1>5, <2>1, SumAdded
  <2>4. h[Unpacked] \in Nat /\ f[Unpacked'] = h[Unpacked] + EntryCounts'[path]
    BY <1>4, <1>5, <2>2, SumAdded
  <2>5. QED
    BY <2>3, <2>4
<1>7. /\ budget.expanded = g[Unpacked] /\ budget.entries = h[Unpacked]
  BY <1>1 DEF BudgetHolds, SumsBy
<1>8. /\ MapThenSumSet(LAMBDA p : Expanded(results[p].content), Unpacked)' = e[Unpacked']
      /\ MapThenSumSet(LAMBDA p : Entries(results[p].content), Unpacked)' = f[Unpacked']
  BY <1>3 DEF SumsBy
<1>9. budget'.expanded = e[Unpacked'] /\ budget'.entries = f[Unpacked']
  BY <1>4, <1>6, <1>7
<1>10. /\ budget'.expanded + decoded'.expanded <= MaxExpandedSize
       /\ budget'.entries + decoded'.entries <= MaxMembers
  <2>1. budget'.expanded \in Nat /\ budget'.entries \in Nat
    BY <1>4, <1>6, <1>9
  <2>2. decoded'.expanded = 0 /\ decoded'.entries = 0
    BY DEF Nothing
  <2>3. MaxExpandedSize \in Nat /\ MaxMembers \in Nat
    BY LimitsAssumption
  <2>4. QED
    BY <2>1, <2>2, <2>3
<1>11. QED
  BY <1>8, <1>9, <1>10 DEF BudgetHolds

-----------------------------------------------------------------------------
\* Paths: a member's path goes through its archive's, and through what it goes through.
LEMMA MemberPath ==
  ASSUME NEW p \in Seq(Nat), NEW i \in Nat
  PROVE  LET q == Append(p, i)
         IN /\ q \in Seq(Nat) /\ Under(p, i, q)
            /\ \A j : Under(p, j, q) => j = i
            /\ \A r \in Seq(Nat) : \A j : Under(q, j, r) => Under(p, i, r)
            /\ \A s \in Seq(Nat) : \A j :
                 Under(s, j, p) => Under(s, j, q) /\ \A k : Under(s, k, q) => k = j
            /\ \A j : ~Under(q, j, q)
<1> DEFINE q == Append(p, i)
<1>1. /\ q \in Seq(Nat) /\ Len(q) = Len(p) + 1 /\ q[Len(p) + 1] = i /\ Len(p) \in Nat
      /\ \A m \in 1..Len(p) : q[m] = p[m]
  OBVIOUS
<1> HIDE DEF q
<1>2. Under(p, i, q) /\ \A j : (Under(p, j, q) => j = i) /\ ~Under(q, j, q)
  BY <1>1 DEF Under
<1>3. ASSUME NEW r \in Seq(Nat), NEW j, Under(q, j, r) PROVE Under(p, i, r)
  <2>1. Len(r) \in Nat /\ Len(p) + 1 < Len(r) /\ \A m \in 1..(Len(p) + 1) : r[m] = q[m]
    BY <1>1, <1>3 DEF Under
  <2>2. Len(p) < Len(r) /\ Len(p) + 1 \in 1..(Len(p) + 1) /\ \A m \in 1..Len(p) : m \in 1..(Len(p) + 1)
    BY <1>1, <2>1
  <2>3. QED
    BY <1>1, <2>1, <2>2 DEF Under
<1>4. ASSUME NEW s \in Seq(Nat), NEW j, Under(s, j, p)
      PROVE  Under(s, j, q) /\ \A k : Under(s, k, q) => k = j
  <2>1. Len(s) \in Nat /\ Len(s) < Len(p) /\ p[Len(s) + 1] = j /\ \A m \in 1..Len(s) : p[m] = s[m]
    BY <1>4 DEF Under
  <2>2. Len(s) < Len(q)
    BY <1>1, <2>1
  <2>3. Len(s) + 1 \in 1..Len(p)
    BY <1>1, <2>1
  <2>4. \A m \in 1..Len(s) : m \in 1..Len(p)
    BY <1>1, <2>1
  <2>5. QED
    BY <1>1, <2>1, <2>2, <2>3, <2>4 DEF Under
<1>5. QED
  BY <1>1, <1>2, <1>3, <1>4 DEF q

\* Setting a result.
LEMMA ResultSet ==
  ASSUME ScanTyped, NEW p \in Seq(Nat), NEW r \in ResultType, SetResult(p, r)
  PROVE  /\ DOMAIN results' = DOMAIN results \cup {p} /\ results'[p] = r
         /\ \A q \in DOMAIN results : q # p => results'[q] = results[q]
         /\ IsFiniteSet(DOMAIN results')
         /\ \A q \in DOMAIN results' : q \in Seq(Nat) /\ results'[q] \in ResultType
<1>1. /\ DOMAIN results' = DOMAIN results \cup {p} /\ results'[p] = r
      /\ \A q \in DOMAIN results : q # p => results'[q] = results[q]
  BY DEF SetResult
<1>2. IsFiniteSet(DOMAIN results')
  <2>1. IsFiniteSet(DOMAIN results)
    BY DEF ScanTyped
  <2>2. IsFiniteSet(DOMAIN results \cup {p})
    BY <2>1, FS_AddElement
  <2>3. QED
    BY <1>1, <2>2
<1>3. QED
  BY <1>1, <1>2 DEF ScanTyped

\* A result may get marks, but not be replaced.
SameResults ==
  /\ DOMAIN results' = DOMAIN results
  /\ \A q \in DOMAIN results : /\ results'[q] \in ResultType
                               /\ results'[q].content = results[q].content
                               /\ results'[q].unpacked = results[q].unpacked

LEMMA MarkSet ==
  ASSUME ScanTyped, NEW p \in DOMAIN results, NEW r \in ResultType, SetResult(p, r),
         r.content = results[p].content, r.unpacked = results[p].unpacked
  PROVE  SameResults
<1>1. p \in Seq(Nat) /\ \A q \in DOMAIN results : results[q] \in ResultType
  BY DEF ScanTyped
<1>2. /\ DOMAIN results' = DOMAIN results \cup {p} /\ results'[p] = r
      /\ \A q \in DOMAIN results : q # p => results'[q] = results[q]
  BY <1>1, ResultSet
<1>3. QED
  BY <1>1, <1>2 DEF SameResults

LEMMA FailEffect ==
  ASSUME ScanTyped, at.path \in DOMAIN results, Fail
  PROVE  SameResults /\ pc' \in {"failed", "next"}
<1>1. CASE UNCHANGED results /\ pc' = "failed"
  BY <1>1 DEF SameResults, ScanTyped
<1>2. CASE pc' = "next" /\ SetResult(at.path, [results[at.path] EXCEPT !.failed = TRUE])
  <2>1. /\ [results[at.path] EXCEPT !.failed = TRUE] \in ResultType
        /\ [results[at.path] EXCEPT !.failed = TRUE].content = results[at.path].content
        /\ [results[at.path] EXCEPT !.failed = TRUE].unpacked = results[at.path].unpacked
    BY DEF ScanTyped, ResultType
  <2>2. QED
    BY <1>2, <2>1, MarkSet
<1>3. QED
  BY <1>1, <1>2 DEF Fail

LEMMA TreeMarked ==
  ASSUME TreeInv, SameResults, content' = content, stack' = stack, decoded' = Nothing,
         budget' \in Charge, at'.path = at.path, at' = [path |-> at'.path, content |-> at'.content],
         pc' \in {"next", "failed", "done", "disk", "walk"},
         pc' \in {"disk", "walk"} => at.path \in DOMAIN results
  PROVE  TreeInv'
<1>1. ContentOK'
  BY DEF TreeInv, ContentOK, Members
<1>2. ScanTyped'
  <2>1. Nothing \in Charge
    BY DEF Nothing, Charge
  <2>2. QED
    BY <2>1 DEF TreeInv, ScanTyped, SameResults, PCs
<1>3. StackInv'
  <2>1. StackInv
    BY DEF TreeInv
  <2>2. \A k, l \in DOMAIN stack : k < l => Inside(stack[l], stack[k].path)
    BY <2>1 DEF StackInv
  <2>3. \A k \in DOMAIN stack :
          /\ stack[k].path \in DOMAIN results'
          /\ results'[stack[k].path].content = stack[k].content
          /\ results'[stack[k].path].unpacked
          /\ \A q \in DOMAIN results' : \A i \in Nat :
               Under(stack[k].path, i, q) => i < stack[k].next
    BY <2>1 DEF StackInv, SameResults
  <2>4. QED
    BY <2>2, <2>3 DEF StackInv, Inside
<1>4. AtInv'
  BY DEF TreeInv, AtInv, SameResults
<1>5. DecodedInv'
  BY DEF DecodedInv
<1>6. QED
  BY <1>1, <1>2, <1>3, <1>4, <1>5 DEF TreeInv

LEMMA SameUnpacked ==
  ASSUME SameResults
  PROVE  Unpacked' = Unpacked /\ \A p \in Unpacked : results'[p].content = results[p].content
BY DEF SameResults, Unpacked

LEMMA BudgetMarked ==
  ASSUME BudgetInv, SameResults, content' = content, stack' = stack, decoded' = Nothing,
         budget' = budget, at'.path = at.path, at' = [path |-> at'.path, content |-> at'.content],
         pc' \in {"next", "failed", "done", "disk", "walk"},
         pc' \in {"disk", "walk"} => at.path \in DOMAIN results
  PROVE  BudgetInv'
<1>1. TreeInv'
  BY TreeMarked DEF BudgetInv, TreeInv, ScanTyped
<1>2. /\ budget.expanded + decoded'.expanded <= MaxExpandedSize
      /\ budget.entries + decoded'.entries <= MaxMembers
  <2>1. budget \in Charge /\ decoded \in Charge /\ decoded'.expanded = 0 /\ decoded'.entries = 0
    BY DEF BudgetInv, TreeInv, ScanTyped, Nothing
  <2>2. /\ budget.expanded \in Nat /\ budget.entries \in Nat
        /\ decoded.expanded \in Nat /\ decoded.entries \in Nat
    BY <2>1 DEF Charge
  <2>3. /\ budget.expanded + decoded.expanded <= MaxExpandedSize
        /\ budget.entries + decoded.entries <= MaxMembers
    BY DEF BudgetInv, BudgetHolds
  <2>4. MaxExpandedSize \in Nat /\ MaxMembers \in Nat
    BY LimitsAssumption
  <2>5. QED
    BY <2>1, <2>2, <2>3, <2>4
<1>3. BudgetHolds'
  <2>1. ContentOK /\ IsFiniteSet(DOMAIN results) /\ IsFiniteSet(DOMAIN results') /\ BudgetHolds
    BY DEF BudgetInv, TreeInv, ScanTyped, SameResults
  <2>2. QED
    BY <2>1, <1>2, SameUnpacked, BudgetKept
<1>4. QED
  BY <1>1, <1>3 DEF BudgetInv

LEMMA BudgetOfMarks ==
  ASSUME BudgetInv,
         \/ ScanOpaque \/ ScanDisk \/ ScanPreserved \/ FailToUnpack \/ AnalyzeDisk
         \/ WalkDisk \/ WalkEnds \/ Finish
  PROVE  BudgetInv'
<1>1. /\ ScanTyped /\ at = [path |-> at.path, content |-> at.content]
      /\ pc # "reserve" => decoded = Nothing
      /\ pc \in {"payload", "reserve", "disk", "walk"} => at.path \in DOMAIN results
  BY DEF BudgetInv, TreeInv, ScanTyped, DecodedInv, AtInv
<1>2. UNCHANGED results => SameResults
  BY <1>1 DEF SameResults, ScanTyped
<1>3. CASE ScanOpaque \/ ScanDisk \/ WalkDisk \/ WalkEnds \/ Finish
  <2>1. /\ UNCHANGED <<content, stack, decoded, budget, at, results>> /\ pc # "reserve"
        /\ pc' \in {"next", "done", "disk", "walk"}
        /\ pc' \in {"disk", "walk"} => pc \in {"payload", "walk"}
    BY <1>3 DEF ScanOpaque, ScanDisk, WalkDisk, WalkEnds, Finish, Go, scan
  <2>2. QED
    BY <1>1, <1>2, <2>1, BudgetMarked
<1>4. CASE ScanPreserved
  <2>1. /\ UNCHANGED <<content, stack, decoded, budget>> /\ pc = "payload"
        /\ at'.path = at.path /\ at' = [path |-> at'.path, content |-> at'.content]
        /\ Fail \/ (UNCHANGED results /\ pc' \in {"next", "disk"})
    BY <1>1, <1>4 DEF ScanPreserved
  <2>2. SameResults /\ pc' \in {"failed", "next", "disk"}
    BY <1>1, <1>2, <2>1, FailEffect
  <2>3. QED
    BY <1>1, <2>1, <2>2, BudgetMarked
<1>5. CASE FailToUnpack
  <2>1. UNCHANGED <<content, stack, decoded, budget, at>> /\ pc = "payload" /\ Fail
    BY <1>5 DEF FailToUnpack
  <2>2. QED
    BY <1>1, <2>1, FailEffect, BudgetMarked
<1>6. CASE AnalyzeDisk
  <2> DEFINE m == Matched(results[at.path], at.content)
  <2>1. UNCHANGED <<content, stack, decoded, budget, at>> /\ pc = "disk"
    BY <1>6 DEF AnalyzeDisk
  <2>2. Fail \/ (SetResult(at.path, m) /\ pc' \in {"walk", "next"})
    BY <1>6 DEF AnalyzeDisk
  <2>3. CASE Fail
    BY <1>1, <2>1, <2>3, FailEffect, BudgetMarked
  <2>4. CASE SetResult(at.path, m) /\ pc' \in {"walk", "next"}
    <3>1. at.path \in DOMAIN results /\ results[at.path] \in ResultType
      BY <1>1, <2>1 DEF ScanTyped
    <3>2. /\ m \in ResultType /\ m.content = results[at.path].content
          /\ m.unpacked = results[at.path].unpacked
      BY <3>1 DEF Matched, ResultType
    <3> HIDE DEF m
    <3>3. SameResults
      BY <1>1, <2>4, <3>1, <3>2, MarkSet
    <3>4. QED
      BY <1>1, <2>1, <2>4, <3>1, <3>3, BudgetMarked
  <2>5. QED
    BY <2>2, <2>3, <2>4
<1>7. QED
  BY <1>3, <1>4, <1>5, <1>6

\* The submitted file gets the first result.
LEMMA BudgetOfOpenFile == ASSUME BudgetInv, OpenFile PROVE BudgetInv'
<1>1. /\ TreeInv /\ pc = "open" /\ pc' = "payload" /\ DOMAIN results = {} /\ stack = <<>>
      /\ at = [path |-> <<>>, content |-> Submitted] /\ decoded = Nothing
      /\ SetResult(<<>>, NewResult(Submitted))
      /\ UNCHANGED <<content, at, stack, decoded, budget>>
  BY DEF OpenFile, Go, BudgetInv, TreeInv, AtInv, DecodedInv
<1>2. /\ NewResult(Submitted) \in ResultType /\ NewResult(Submitted).content = Submitted
      /\ NewResult(Submitted).unpacked = FALSE /\ <<>> \in Seq(Nat)
  BY SubmittedAssumption DEF NewResult, ResultType
<1>3. /\ DOMAIN results' = {<<>>} /\ results'[<<>>] = NewResult(Submitted)
      /\ IsFiniteSet(DOMAIN results')
      /\ \A q \in DOMAIN results' : q \in Seq(Nat) /\ results'[q] \in ResultType
  BY <1>1, <1>2, ResultSet DEF TreeInv
<1>4. ContentOK' /\ ScanTyped' /\ StackInv' /\ DecodedInv'
  <2>1. ContentOK'
    BY <1>1 DEF TreeInv, ContentOK, Members
  <2>2. ScanTyped'
    BY <1>1, <1>3 DEF TreeInv, ScanTyped, PCs
  <2>3. StackInv'
    BY <1>1 DEF StackInv
  <2>4. DecodedInv'
    BY <1>1 DEF DecodedInv
  <2>5. QED
    BY <2>1, <2>2, <2>3, <2>4
<1>5. AtInv'
  <2>1. \A i \in Nat : ~Under(<<>>, i, <<>>)
    BY DEF Under
  <2>2. QED
    BY <1>1, <1>2, <1>3, <2>1 DEF AtInv
<1>6. Unpacked = {} /\ Unpacked' = {}
  BY <1>1, <1>2, <1>3 DEF Unpacked
<1>7. BudgetHolds'
  <2>1. /\ budget.expanded + decoded'.expanded <= MaxExpandedSize
        /\ budget.entries + decoded'.entries <= MaxMembers
    BY <1>1 DEF BudgetInv, BudgetHolds
  <2>2. ContentOK /\ IsFiniteSet(DOMAIN results) /\ BudgetHolds
    BY DEF BudgetInv, TreeInv, ScanTyped
  <2>3. QED
    BY <1>1, <1>3, <1>6, <2>1, <2>2, BudgetKept
<1>8. QED
  BY <1>4, <1>5, <1>7 DEF BudgetInv, TreeInv

LEMMA BudgetOfUnpack == ASSUME BudgetInv, Unpack PROVE BudgetInv'
<1> DEFINE c == at.content
<1>1. /\ TreeInv /\ pc = "payload" /\ pc' = "reserve" /\ Format(c) \in Archives \cup Packed
      /\ Left /\ Decodes(c, Remaining)
      /\ decoded' = [expanded |-> Expanded(c), entries |-> Entries(c)]
      /\ UNCHANGED <<content, disk, walk, at, stack, results, budget>>
  BY DEF Unpack, Unpackable, Go, BudgetInv
<1>2. /\ at.path \in DOMAIN results /\ c \in Contents /\ ContentOK
      /\ results[at.path].content = c /\ ~results[at.path].unpacked
  <2>1. at.path \in DOMAIN results /\ results[at.path].content = c /\ ~results[at.path].unpacked
    BY <1>1 DEF TreeInv, AtInv
  <2>2. results[at.path] \in ResultType
    BY <1>1, <2>1 DEF TreeInv, ScanTyped
  <2>3. QED
    BY <1>1, <2>1, <2>2 DEF ResultType, TreeInv
<1>3. /\ Expanded(c) \in Nat /\ Entries(c) \in Nat /\ content[c].directories \in Nat
  BY <1>2, ExpandedIsNumber DEF ContentOK
<1>4. /\ budget.expanded \in Nat /\ budget.entries \in Nat
      /\ MaxExpandedSize \in Nat /\ MaxMembers \in Nat
  BY <1>1, LimitsAssumption DEF TreeInv, ScanTyped, Charge
<1>5. /\ Expanded(c) <= MaxExpandedSize - budget.expanded
      /\ Entries(c) <= MaxMembers - budget.entries
  <2>1. /\ Remaining.expanded = MaxExpandedSize - budget.expanded
        /\ Remaining.entries = MaxMembers - budget.entries
        /\ Remaining.entries > 0
    BY <1>1 DEF Remaining, Left
  <2>2. CASE Format(c) \in Archives
    <3>1. Within(c, Remaining)
      BY <1>1, <2>2 DEF Decodes, DecodeZIP, DecodeLHA, DecodeLZX, Archives
    <3>2. /\ Entries(c) + content[c].directories <= MaxMembers - budget.entries
          /\ Expanded(c) <= MaxExpandedSize - budget.expanded
      BY <2>1, <3>1 DEF Within
    <3>3. QED
      BY <1>3, <1>4, <3>2
  <2>3. CASE Format(c) \in Packed
    <3>1. Expanded(c) <= Remaining.expanded /\ Entries(c) = 1
      BY <1>1, <2>3 DEF Decodes, DecodeADZ, DecodeDMS, Packed, Entries
    <3>2. QED
      BY <1>4, <2>1, <3>1
  <2>4. QED
    BY <1>1, <2>2, <2>3
<1>6. ContentOK' /\ DecodedInv' /\ StackInv' /\ AtInv'
  <2>1. ContentOK'
    BY <1>1, <1>2 DEF ContentOK, Members
  <2>2. DecodedInv'
    BY <1>1, ExpandedStays DEF DecodedInv
  <2>3. StackInv'
    BY <1>1 DEF TreeInv, StackInv, Inside
  <2>4. AtInv'
    BY <1>1 DEF TreeInv, AtInv, Inside
  <2>5. QED
    BY <2>1, <2>2, <2>3, <2>4
<1>7. ScanTyped'
  <2>1. decoded' \in Charge
    BY <1>1, <1>3 DEF Charge
  <2>2. QED
    BY <1>1, <2>1 DEF TreeInv, ScanTyped, PCs
<1>8. BudgetHolds'
  <2>1. /\ budget.expanded + decoded'.expanded <= MaxExpandedSize
        /\ budget.entries + decoded'.entries <= MaxMembers
    BY <1>1, <1>3, <1>4, <1>5
  <2>2. /\ IsFiniteSet(DOMAIN results) /\ IsFiniteSet(DOMAIN results') /\ BudgetHolds
        /\ Unpacked' = Unpacked
    BY <1>1 DEF BudgetInv, TreeInv, ScanTyped, Unpacked
  <2>3. QED
    BY <1>1, <1>2, <2>1, <2>2, BudgetKept
<1>9. QED
  BY <1>6, <1>7, <1>8 DEF BudgetInv, TreeInv

\* One more archive on the stack, one less, and one member more behind the top one.
LEMMA StackPushed ==
  ASSUME NEW s \in Seq(FrameOf), NEW f \in FrameOf
  PROVE  LET t == <<f>> \o s
         IN /\ t \in Seq(FrameOf)
            /\ \A k \in DOMAIN t : \/ k = 1 /\ t[k] = f
                                   \/ k # 1 /\ k - 1 \in DOMAIN s /\ t[k] = s[k - 1]
            /\ \A k, l \in DOMAIN t : k \in Nat /\ (k < l => k - 1 < l - 1 /\ l # 1)
<1> DEFINE t == <<f>> \o s
<1>1. /\ t \in Seq(FrameOf) /\ Len(t) = Len(s) + 1 /\ t[1] = f /\ Len(s) \in Nat
      /\ DOMAIN t = 1..Len(s) + 1 /\ DOMAIN s = 1..Len(s)
  OBVIOUS
<1>2. \A k \in 1..Len(s) : t[k + 1] = s[k]
  OBVIOUS
<1> HIDE DEF t
<1>3. ASSUME NEW k \in DOMAIN t, k # 1 PROVE k - 1 \in DOMAIN s /\ t[k] = s[k - 1]
  <2>1. k - 1 \in 1..Len(s) /\ (k - 1) + 1 = k
    BY <1>1, <1>3
  <2>2. t[(k - 1) + 1] = s[k - 1]
    BY <1>2, <2>1
  <2>3. QED
    BY <1>1, <2>1, <2>2
<1>4. \A k, l \in DOMAIN t : k \in Nat /\ (k < l => k - 1 < l - 1 /\ l # 1)
  BY <1>1
<1>5. QED
  BY <1>1, <1>3, <1>4 DEF t

LEMMA StackPopped ==
  ASSUME NEW s \in Seq(FrameOf), s # <<>>
  PROVE  /\ Head(s) \in FrameOf /\ Tail(s) \in Seq(FrameOf) /\ 1 \in DOMAIN s /\ Head(s) = s[1]
         /\ \A k \in DOMAIN Tail(s) : k + 1 \in DOMAIN s /\ Tail(s)[k] = s[k + 1]
         /\ \A k, l \in DOMAIN Tail(s) : k < l => k + 1 < l + 1
<1>1. /\ DOMAIN s = 1..Len(s) /\ Len(s) \in Nat \ {0} /\ DOMAIN Tail(s) = 1..Len(s) - 1
      /\ Head(s) \in FrameOf /\ Tail(s) \in Seq(FrameOf) /\ Head(s) = s[1]
  OBVIOUS
<1>2. \A k \in 1..Len(s) - 1 : Tail(s)[k] = s[k + 1]
  OBVIOUS
<1>3. \A k, l \in 1..Len(s) - 1 : k + 1 \in 1..Len(s) /\ (k < l => k + 1 < l + 1)
  BY <1>1
<1>4. QED
  BY <1>1, <1>2, <1>3

\* What was unpacked is charged, and its members are next.
LEMMA BudgetOfReserve == ASSUME BudgetInv, Reserve PROVE BudgetInv'
<1> DEFINE p == at.path
           r == [results[p] EXCEPT !.unpacked = TRUE]
           f == [path |-> p, content |-> at.content, next |-> 1]
<1>1. /\ TreeInv /\ pc = "reserve" /\ decoded' = Nothing /\ content' = content
      /\ p \in DOMAIN results /\ results[p] \in ResultType /\ p \in Seq(Nat)
      /\ results[p].content = at.content /\ ~results[p].unpacked
      /\ decoded = [expanded |-> Expanded(at.content), entries |-> Entries(at.content)]
  BY DEF Reserve, BudgetInv, TreeInv, AtInv, DecodedInv, ScanTyped
<1>2. CASE ~Fits /\ Fail /\ UNCHANGED <<at, stack, budget>>
  <2>1. SameResults /\ pc' \in {"failed", "next"}
    BY <1>1, <1>2, FailEffect DEF TreeInv
  <2>2. at = [path |-> at.path, content |-> at.content]
    BY <1>1 DEF TreeInv, ScanTyped
  <2>3. QED
    BY <1>1, <1>2, <2>1, <2>2, BudgetMarked
<1>3. ASSUME Fits,
             budget' = [expanded |-> budget.expanded + decoded.expanded,
                        entries |-> budget.entries + decoded.entries],
             SetResult(p, r),
             \/ /\ pc' = "disk" /\ at' = [at EXCEPT !.content = Head(Members(@))] /\ UNCHANGED stack
             \/ /\ pc' = "next" /\ UNCHANGED at /\ stack' = <<f>> \o stack
      PROVE  BudgetInv'
  <2>1. r \in ResultType /\ r.content = at.content /\ r.unpacked = TRUE /\ at.content \in Contents
    BY <1>1 DEF ResultType
  <2> HIDE DEF r
  <2>2. /\ DOMAIN results' = DOMAIN results /\ results'[p] = r
        /\ \A q \in DOMAIN results : q # p => results'[q] = results[q]
        /\ IsFiniteSet(DOMAIN results')
        /\ \A q \in DOMAIN results' : q \in Seq(Nat) /\ results'[q] \in ResultType
    BY <1>1, <1>3, <2>1, ResultSet DEF TreeInv
  <2>3. \A q \in DOMAIN results : /\ results'[q].content = results[q].content
                                  /\ results[q].unpacked => results'[q].unpacked
    BY <1>1, <2>1, <2>2
  <2>4. p \notin Unpacked /\ Unpacked' = Unpacked \cup {p}
    BY <1>1, <2>1, <2>2 DEF Unpacked
  <2>5. /\ Expanded(at.content) \in Nat /\ Entries(at.content) \in Nat
        /\ budget \in Charge /\ budget.expanded \in Nat /\ budget.entries \in Nat
    BY <1>1, <2>1, ExpandedIsNumber DEF TreeInv, ScanTyped, Charge
  <2>6. BudgetHolds'
    <3>1. /\ decoded.expanded <= MaxExpandedSize - budget.expanded
          /\ decoded.entries <= MaxMembers - budget.entries
          /\ decoded.expanded = Expanded(at.content) /\ decoded.entries = Entries(at.content)
      BY <1>1, <1>3 DEF Fits
    <3>2. budget'.expanded <= MaxExpandedSize /\ budget'.entries <= MaxMembers
      BY <1>3, <2>5, <3>1, LimitsAssumption
    <3>3. /\ \A q \in Unpacked : results'[q].content = results[q].content
          /\ \A q \in Unpacked \cup {p} : results'[q].content \in Contents
      BY <1>1, <2>2, <2>3 DEF Unpacked, ResultType
    <3>4. budget' = [expanded |-> budget.expanded + Expanded(results'[p].content),
                     entries |-> budget.entries + Entries(results'[p].content)]
      BY <1>3, <2>1, <2>2, <3>1
    <3>5. ContentOK /\ IsFiniteSet(DOMAIN results) /\ BudgetHolds
      BY DEF BudgetInv, TreeInv, ScanTyped
    <3>6. QED
      BY <1>1, <2>2, <2>4, <2>5, <3>2, <3>3, <3>4, <3>5, BudgetCharged
  <2>7. ContentOK' /\ DecodedInv' /\ budget' \in Charge /\ decoded' \in Charge
    <3>1. ContentOK'
      BY <1>1 DEF TreeInv, ContentOK, Members
    <3>2. DecodedInv'
      BY <1>1, <1>3 DEF DecodedInv
    <3>3. budget' \in Charge
      BY <1>1, <1>3, <2>5 DEF Charge
    <3>4. decoded' \in Charge
      BY <1>1 DEF Nothing, Charge
    <3>5. QED
      BY <3>1, <3>2, <3>3, <3>4
  <2>8. f \in FrameOf
    BY <1>1, <2>1 DEF FrameOf
  <2>9. CASE pc' = "disk" /\ at' = [at EXCEPT !.content = Head(Members(@))] /\ UNCHANGED stack
    <3>1. /\ at'.path = p /\ at' = [path |-> at'.path, content |-> at'.content]
      BY <1>1, <2>9 DEF TreeInv, ScanTyped
    <3>2. ScanTyped'
      BY <1>1, <2>2, <2>7, <2>9, <3>1 DEF TreeInv, ScanTyped, PCs
    <3>3. StackInv'
      BY <1>1, <2>2, <2>3, <2>9 DEF TreeInv, StackInv, Inside
    <3>4. AtInv'
      BY <1>1, <2>2, <2>9, <3>1 DEF AtInv
    <3>5. QED
      BY <2>6, <2>7, <3>2, <3>3, <3>4 DEF BudgetInv, TreeInv
  <2>10. CASE pc' = "next" /\ UNCHANGED at /\ stack' = <<f>> \o stack
    <3>1. stack \in Seq(FrameOf) /\ StackInv /\ ScanTyped /\ AtInv
      BY <1>1 DEF TreeInv, ScanTyped
    <3>2. /\ stack' \in Seq(FrameOf)
          /\ \A k \in DOMAIN stack' : \/ k = 1 /\ stack'[k] = f
                                      \/ k # 1 /\ k - 1 \in DOMAIN stack /\ stack'[k] = stack[k - 1]
          /\ \A k, l \in DOMAIN stack' : k \in Nat /\ (k < l => k - 1 < l - 1 /\ l # 1)
      BY <2>8, <2>10, <3>1, StackPushed
    <3>3. ScanTyped'
      BY <1>1, <2>2, <2>7, <2>10, <3>2 DEF TreeInv, ScanTyped, PCs
    <3>4. /\ f.path = p /\ f.content = at.content /\ f.next = 1
          /\ \A q \in DOMAIN results : \A i \in Nat : ~Under(p, i, q)
          /\ \A l \in DOMAIN stack : Inside(stack[l], p)
      BY <1>1, <3>1 DEF AtInv
    <3> HIDE DEF f
    <3>5. ASSUME NEW k \in DOMAIN stack'
          PROVE  /\ stack'[k].path \in DOMAIN results'
                 /\ results'[stack'[k].path].content = stack'[k].content
                 /\ results'[stack'[k].path].unpacked
                 /\ \A q \in DOMAIN results' : \A i \in Nat :
                      Under(stack'[k].path, i, q) => i < stack'[k].next
      <4>1. CASE stack'[k] = f
        BY <1>1, <2>1, <2>2, <3>4, <4>1
      <4>2. CASE k - 1 \in DOMAIN stack /\ stack'[k] = stack[k - 1]
        <5>1. /\ stack[k - 1].path \in DOMAIN results
              /\ results[stack[k - 1].path].content = stack[k - 1].content
              /\ results[stack[k - 1].path].unpacked
              /\ \A q \in DOMAIN results : \A i \in Nat :
                   Under(stack[k - 1].path, i, q) => i < stack[k - 1].next
          BY <3>1, <4>2 DEF StackInv
        <5>2. QED
          BY <2>2, <2>3, <4>2, <5>1
      <4>3. QED
        BY <3>2, <4>1, <4>2
    <3>6. ASSUME NEW k \in DOMAIN stack', NEW l \in DOMAIN stack', k < l
          PROVE  Inside(stack'[l], stack'[k].path)
      <4>1. l - 1 \in DOMAIN stack /\ stack'[l] = stack[l - 1]
        BY <3>2, <3>6
      <4>2. CASE stack'[k] = f
        BY <3>4, <4>1, <4>2
      <4>3. CASE k - 1 \in DOMAIN stack /\ stack'[k] = stack[k - 1]
        BY <3>1, <3>2, <3>6, <4>1, <4>3 DEF StackInv
      <4>4. QED
        BY <3>2, <4>2, <4>3
    <3>7. StackInv'
      BY <3>5, <3>6 DEF StackInv, Inside
    <3>8. AtInv'
      BY <2>10 DEF AtInv
    <3>9. QED
      BY <2>6, <2>7, <3>3, <3>7, <3>8 DEF BudgetInv, TreeInv
  <2>11. QED
    BY <1>3, <2>9, <2>10
<1>4. QED
  BY <1>1, <1>2, <1>3 DEF Reserve

\* An archive whose members all have their results is left.
LEMMA BudgetOfEndArchive == ASSUME BudgetInv, EndArchive PROVE BudgetInv'
<1> DEFINE p == Around.path
           r == [results[p] EXCEPT !.verdict = IF AnyInfected(p) THEN "infected" ELSE @]
<1>1. /\ TreeInv /\ pc = "next" /\ pc' = "next" /\ stack # <<>> /\ stack \in Seq(FrameOf)
      /\ SetResult(p, r) /\ stack' = Tail(stack) /\ decoded = Nothing
      /\ UNCHANGED <<content, at, decoded, budget>>
  BY DEF EndArchive, Go, BudgetInv, TreeInv, ScanTyped, DecodedInv
<1>2. p \in DOMAIN results /\ results[p] \in ResultType
  BY <1>1, StackPopped DEF TreeInv, StackInv, ScanTyped, Around
<1>3. r \in ResultType /\ r.content = results[p].content /\ r.unpacked = results[p].unpacked
  BY <1>2 DEF ResultType
<1> HIDE DEF r
<1>4. SameResults
  BY <1>1, <1>2, <1>3, MarkSet DEF TreeInv
<1>5. /\ stack' \in Seq(FrameOf)
      /\ \A k \in DOMAIN stack' : k + 1 \in DOMAIN stack /\ stack'[k] = stack[k + 1]
      /\ \A k, l \in DOMAIN stack' : k < l => k + 1 < l + 1
  BY <1>1, StackPopped
<1>6. ScanTyped'
  BY <1>1, <1>4, <1>5 DEF TreeInv, ScanTyped, SameResults
<1>7. StackInv'
  <2>1. StackInv /\ \A k \in DOMAIN stack : stack[k].path \in DOMAIN results
    BY <1>1 DEF TreeInv, StackInv
  <2>2. ASSUME NEW k \in DOMAIN stack'
        PROVE  /\ stack'[k].path \in DOMAIN results'
               /\ results'[stack'[k].path].content = stack'[k].content
               /\ results'[stack'[k].path].unpacked
               /\ \A q \in DOMAIN results' : \A i \in Nat :
                    Under(stack'[k].path, i, q) => i < stack'[k].next
    BY <1>4, <1>5, <2>1 DEF StackInv, SameResults
  <2>3. ASSUME NEW k \in DOMAIN stack', NEW l \in DOMAIN stack', k < l
        PROVE  Inside(stack'[l], stack'[k].path)
    <3>1. /\ k + 1 \in DOMAIN stack /\ l + 1 \in DOMAIN stack /\ k + 1 < l + 1
          /\ stack'[k] = stack[k + 1] /\ stack'[l] = stack[l + 1]
      BY <1>5, <2>3
    <3>2. Inside(stack[l + 1], stack[k + 1].path)
      BY <2>1, <3>1 DEF StackInv
    <3>3. QED
      BY <3>1, <3>2
  <2>4. QED
    BY <2>2, <2>3 DEF StackInv, Inside
<1>8. ContentOK' /\ AtInv' /\ DecodedInv'
  BY <1>1 DEF TreeInv, ContentOK, Members, AtInv, DecodedInv
<1>9. BudgetHolds'
  <2>1. /\ budget.expanded + decoded'.expanded <= MaxExpandedSize
        /\ budget.entries + decoded'.entries <= MaxMembers
    BY <1>1 DEF BudgetInv, BudgetHolds
  <2>2. ContentOK /\ IsFiniteSet(DOMAIN results) /\ IsFiniteSet(DOMAIN results') /\ BudgetHolds
    BY <1>6 DEF BudgetInv, TreeInv, ScanTyped
  <2>3. QED
    BY <1>1, <1>4, <2>1, <2>2, SameUnpacked, BudgetKept
<1>10. QED
  BY <1>6, <1>7, <1>8, <1>9 DEF BudgetInv, TreeInv

\* Member i of the innermost archive a, with content c at path p, gets the first
\* result of its own, and the archive's frame becomes b.
Advances(a, b, c, i, p) ==
  /\ pc = "next" /\ pc' = "payload" /\ decoded = Nothing
  /\ UNCHANGED <<content, decoded, budget>> /\ at' = [path |-> p, content |-> c]
  /\ p = Append(a.path, i) /\ i <= Len(Members(a.content)) /\ c = Members(a.content)[i]
  /\ stack \in Seq(FrameOf) /\ 1 \in DOMAIN stack /\ a = stack[1]
  /\ a.path \in Seq(Nat) /\ a.content \in Contents /\ i = a.next
  /\ b.path = a.path /\ b.content = a.content /\ b.next = i + 1
  /\ stack' \in Seq(FrameOf) /\ DOMAIN stack' = DOMAIN stack /\ stack'[1] = b
  /\ \A k \in DOMAIN stack : k \in Nat \ {0} /\ (k # 1 => stack'[k] = stack[k])
  /\ \A q \in DOMAIN results : ~Under(a.path, i, q)
  /\ p \notin DOMAIN results /\ DOMAIN results' = DOMAIN results \cup {p}
  /\ results'[p] = NewResult(c) /\ NewResult(c) \in ResultType
  /\ NewResult(c).content = c /\ NewResult(c).unpacked = FALSE
  /\ \A q \in DOMAIN results : results'[q] = results[q]
  /\ IsFiniteSet(DOMAIN results')
  /\ \A q \in DOMAIN results' : q \in Seq(Nat) /\ results'[q] \in ResultType

LEMMA NextMemberEffect ==
  ASSUME TreeInv, NextMember
  PROVE  \E a \in FrameOf, b \in FrameOf, c \in Contents, i \in Nat \ {0}, p \in Seq(Nat) :
           Advances(a, b, c, i, p)
<1> DEFINE a == Head(stack)
           i == a.next
           p == Append(a.path, i)
           c == Members(a.content)[i]
           b == [a EXCEPT !.next = i + 1]
<1>1. /\ pc = "next" /\ pc' = "payload" /\ stack # <<>> /\ stack \in Seq(FrameOf)
      /\ i <= Len(Members(a.content))
      /\ at' = [path |-> p, content |-> c] /\ SetResult(p, NewResult(c))
      /\ stack' = [stack EXCEPT ![1] = b] /\ decoded = Nothing
      /\ UNCHANGED <<content, decoded, budget>>
  <2>1. /\ pc = "next" /\ pc' = "payload" /\ stack # <<>>
        /\ i <= Len(Members(a.content))
        /\ at' = [path |-> p, content |-> c] /\ SetResult(p, NewResult(c))
        /\ stack' = [stack EXCEPT ![1].next = @ + 1]
        /\ UNCHANGED <<content, decoded, budget>>
    BY DEF NextMember, Around, Go
  <2>2. stack \in Seq(FrameOf) /\ decoded = Nothing
    BY <2>1 DEF TreeInv, ScanTyped, DecodedInv
  <2>3. stack' = [stack EXCEPT ![1] = b]
    <3>1. Head(stack) = stack[1]
      BY <2>1, <2>2
    <3>2. QED
      BY <2>1, <3>1
  <2>4. QED
    BY <2>1, <2>2, <2>3
<1>2. /\ a \in FrameOf /\ 1 \in DOMAIN stack /\ a = stack[1]
  BY <1>1, StackPopped
<1>3. /\ a.path \in Seq(Nat) /\ a.content \in Contents /\ i \in Nat \ {0} /\ i \in Nat
  BY <1>2 DEF FrameOf
<1>4. c \in Contents
  <2>1. Members(a.content) \in Seq(Contents)
    BY <1>1, <1>3 DEF TreeInv, ContentOK
  <2>2. QED
    BY <1>1, <1>3, <2>1
<1>5. /\ NewResult(c) \in ResultType /\ NewResult(c).content = c /\ NewResult(c).unpacked = FALSE
  BY <1>4 DEF NewResult, ResultType
<1>6. b \in FrameOf /\ b.path = a.path /\ b.content = a.content /\ b.next = i + 1
  BY <1>2, <1>3 DEF FrameOf
<1>7. /\ stack' \in Seq(FrameOf) /\ DOMAIN stack' = DOMAIN stack /\ stack'[1] = b
      /\ \A k \in DOMAIN stack : k \in Nat \ {0} /\ (k # 1 => stack'[k] = stack[k])
  BY <1>1, <1>2, <1>6
<1> HIDE DEF a, b
<1>8. /\ p \in Seq(Nat) /\ Under(a.path, i, p)
      /\ \A j : Under(a.path, j, p) => j = i
      /\ \A q \in Seq(Nat) : \A j : Under(p, j, q) => Under(a.path, i, q)
      /\ \A s \in Seq(Nat) : \A j :
           Under(s, j, a.path) => Under(s, j, p) /\ \A k : Under(s, k, p) => k = j
      /\ \A j : ~Under(p, j, p)
  BY <1>3, MemberPath
<1> HIDE DEF p, c, i
<1>9. /\ StackInv /\ ScanTyped /\ \A q \in DOMAIN results : q \in Seq(Nat)
      /\ \A k \in DOMAIN stack : stack[k] \in FrameOf /\ stack[k].path \in Seq(Nat) /\ stack[k].next \in Nat
  <2>1. StackInv /\ ScanTyped
    BY <1>1 DEF TreeInv
  <2>2. stack \in Seq(FrameOf) /\ \A q \in DOMAIN results : q \in Seq(Nat)
    BY <2>1 DEF ScanTyped
  <2>3. \A k \in DOMAIN stack : stack[k] \in FrameOf
    BY <2>2
  <2>4. \A f \in FrameOf : f.path \in Seq(Nat) /\ f.next \in Nat
    BY DEF FrameOf
  <2>5. QED
    BY <2>1, <2>2, <2>3, <2>4
<1>10. \A q \in DOMAIN results : ~Under(a.path, i, q)
  <2>1. \A q \in DOMAIN results : Under(a.path, i, q) => i < a.next
    BY <1>2, <1>3, <1>9 DEF StackInv
  <2>2. ~(i < a.next)
    BY <1>3 DEF i
  <2>3. QED
    BY <2>1, <2>2
<1>11. p \notin DOMAIN results
  BY <1>8, <1>10
<1>12. /\ DOMAIN results' = DOMAIN results \cup {p} /\ results'[p] = NewResult(c)
       /\ \A q \in DOMAIN results : results'[q] = results[q]
       /\ IsFiniteSet(DOMAIN results')
       /\ \A q \in DOMAIN results' : q \in Seq(Nat) /\ results'[q] \in ResultType
  BY <1>1, <1>5, <1>8, <1>9, <1>11, ResultSet
<1>13. /\ p = Append(a.path, i) /\ i = a.next /\ c = Members(a.content)[i]
  BY DEF p, i, c
<1>14. Advances(a, b, c, i, p)
  BY <1>1, <1>2, <1>3, <1>5, <1>6, <1>7, <1>10, <1>11, <1>12, <1>13 DEF Advances
<1>15. QED
  BY <1>2, <1>3, <1>4, <1>6, <1>8, <1>14

\* The next member gets a result.
LEMMA BudgetOfNextMember == ASSUME BudgetInv, NextMember PROVE BudgetInv'
<1>0. PICK a \in FrameOf, b \in FrameOf, c \in Contents, i \in Nat \ {0}, p \in Seq(Nat) :
        Advances(a, b, c, i, p)
  BY NextMemberEffect DEF BudgetInv
<1>1. /\ TreeInv
      /\ pc = "next" /\ pc' = "payload" /\ decoded = Nothing
      /\ UNCHANGED <<content, decoded, budget>> /\ at' = [path |-> p, content |-> c]
      /\ p = Append(a.path, i) /\ i <= Len(Members(a.content)) /\ c = Members(a.content)[i]
  BY <1>0 DEF Advances, BudgetInv
<1>2. /\ stack \in Seq(FrameOf) /\ 1 \in DOMAIN stack /\ a = stack[1]
      /\ a.path \in Seq(Nat) /\ a.content \in Contents /\ i = a.next
      /\ b.path = a.path /\ b.content = a.content /\ b.next = i + 1
      /\ stack' \in Seq(FrameOf) /\ DOMAIN stack' = DOMAIN stack /\ stack'[1] = b
      /\ \A k \in DOMAIN stack : k \in Nat \ {0} /\ (k # 1 => stack'[k] = stack[k])
  BY <1>0 DEF Advances
<1>3. /\ Under(a.path, i, p)
      /\ \A j : Under(a.path, j, p) => j = i
      /\ \A q \in Seq(Nat) : \A j : Under(p, j, q) => Under(a.path, i, q)
      /\ \A s \in Seq(Nat) : \A j :
           Under(s, j, a.path) => Under(s, j, p) /\ \A k : Under(s, k, p) => k = j
      /\ \A j : ~Under(p, j, p)
  BY <1>1, <1>2, MemberPath
<1>4. /\ StackInv /\ ScanTyped /\ \A q \in DOMAIN results : q \in Seq(Nat)
      /\ \A k \in DOMAIN stack : stack[k] \in FrameOf /\ stack[k].path \in Seq(Nat) /\ stack[k].next \in Nat
  <2>1. StackInv /\ ScanTyped
    BY <1>1 DEF TreeInv
  <2>2. \A q \in DOMAIN results : q \in Seq(Nat)
    BY <2>1 DEF ScanTyped
  <2>3. \A k \in DOMAIN stack : stack[k] \in FrameOf
    BY <1>2
  <2>4. \A f \in FrameOf : f.path \in Seq(Nat) /\ f.next \in Nat
    BY DEF FrameOf
  <2>5. QED
    BY <2>1, <2>2, <2>3, <2>4
<1>5. /\ \A q \in DOMAIN results : ~Under(a.path, i, q)
      /\ p \notin DOMAIN results /\ DOMAIN results' = DOMAIN results \cup {p}
      /\ results'[p] = NewResult(c) /\ NewResult(c) \in ResultType
      /\ NewResult(c).content = c /\ NewResult(c).unpacked = FALSE
      /\ \A q \in DOMAIN results : results'[q] = results[q]
      /\ IsFiniteSet(DOMAIN results')
      /\ \A q \in DOMAIN results' : q \in Seq(Nat) /\ results'[q] \in ResultType
  BY <1>0 DEF Advances
<1>6. ContentOK' /\ DecodedInv'
  BY <1>1 DEF TreeInv, ContentOK, Members, DecodedInv
<1>7. ScanTyped'
  BY <1>1, <1>2, <1>3, <1>5 DEF TreeInv, ScanTyped, PCs
<1>8. \A k \in DOMAIN stack : k # 1 => Inside(stack[k], a.path)
  BY <1>2, <1>4 DEF StackInv
<1>9. \A k \in DOMAIN stack : k # 1 => /\ Inside(stack[k], p)
                                        /\ \A j : Under(stack[k].path, j, p) => j < stack[k].next
  <2> SUFFICES ASSUME NEW k \in DOMAIN stack, k # 1
               PROVE  /\ Inside(stack[k], p)
                      /\ \A j : Under(stack[k].path, j, p) => j < stack[k].next
    OBVIOUS
  <2>1. PICK m \in 1..(stack[k].next - 1) : Under(stack[k].path, m, a.path)
    BY <1>8 DEF Inside
  <2>2. m < stack[k].next
    BY <1>4, <2>1
  <2>3. QED
    BY <1>3, <1>4, <2>1, <2>2 DEF Inside
<1>10. ASSUME NEW k \in DOMAIN stack'
       PROVE  /\ stack'[k].path \in DOMAIN results'
              /\ results'[stack'[k].path].content = stack'[k].content
              /\ results'[stack'[k].path].unpacked
              /\ \A q \in DOMAIN results' : \A j \in Nat :
                   Under(stack'[k].path, j, q) => j < stack'[k].next
  <2>1. /\ stack[k].path \in DOMAIN results
        /\ results[stack[k].path].content = stack[k].content
        /\ results[stack[k].path].unpacked
        /\ \A q \in DOMAIN results : \A j \in Nat : Under(stack[k].path, j, q) => j < stack[k].next
    BY <1>2, <1>4 DEF StackInv
  <2>2. CASE k = 1
    <3>1. stack'[k].path = a.path /\ stack'[k].content = a.content /\ stack'[k].next = i + 1 /\ stack[k] = a
      BY <1>2, <2>2
    <3>2. \A q \in DOMAIN results : \A j \in Nat : Under(a.path, j, q) => j < i + 1
      BY <1>2, <2>1, <3>1
    <3>3. \A j \in Nat : Under(a.path, j, p) => j < i + 1
      BY <1>2, <1>3
    <3>4. QED
      BY <1>5, <2>1, <3>1, <3>2, <3>3
  <2>3. CASE k # 1
    BY <1>2, <1>5, <1>9, <2>1, <2>3
  <2>4. QED
    BY <2>2, <2>3
<1>11. ASSUME NEW k \in DOMAIN stack', NEW l \in DOMAIN stack', k < l
       PROVE  Inside(stack'[l], stack'[k].path)
  <2>1. l # 1 /\ stack'[l] = stack[l] /\ k \in DOMAIN stack /\ l \in DOMAIN stack
    BY <1>2, <1>11
  <2>2. stack'[k].path = stack[k].path
    BY <1>2, <2>1
  <2>3. QED
    BY <1>4, <1>11, <2>1, <2>2 DEF StackInv
<1>12. StackInv'
  BY <1>10, <1>11 DEF StackInv, Inside
<1>13. AtInv'
  <2>1. at'.path = p /\ at'.content = c
    BY <1>1
  <2>2. \A l \in DOMAIN stack' : Inside(stack'[l], p)
    <3>1. Inside(b, p)
      <4>1. i \in 1..(b.next - 1)
        BY <1>2
      <4>2. QED
        BY <1>2, <1>3, <4>1 DEF Inside
    <3>2. QED
      BY <1>2, <1>9, <3>1
  <2>3. \A q \in DOMAIN results' : \A j \in Nat : ~Under(p, j, q)
    BY <1>3, <1>4, <1>5
  <2>4. QED
    BY <1>1, <1>5, <2>1, <2>2, <2>3 DEF AtInv, Inside
<1>14. BudgetHolds'
  <2>1. /\ Unpacked' = Unpacked /\ \A q \in Unpacked : results'[q].content = results[q].content
    BY <1>5 DEF Unpacked
  <2>2. /\ budget.expanded + decoded'.expanded <= MaxExpandedSize
        /\ budget.entries + decoded'.entries <= MaxMembers
    BY <1>1 DEF BudgetInv, BudgetHolds
  <2>3. ContentOK /\ IsFiniteSet(DOMAIN results) /\ BudgetHolds
    BY DEF BudgetInv, TreeInv, ScanTyped
  <2>4. QED
    BY <1>1, <1>5, <2>1, <2>2, <2>3, BudgetKept
<1>15. QED
  BY <1>6, <1>7, <1>12, <1>13, <1>14 DEF BudgetInv, TreeInv

LEMMA BudgetInit == ScanInit => BudgetInv
<1> SUFFICES ASSUME ScanInit PROVE BudgetInv
  OBVIOUS
<1>1. PICK k \in Cases : content = k.content /\ disk = k.disk
  BY DEF ScanInit
<1>2. ContentOK
  BY <1>1, CasesAssumption DEF ContentOK, Members
<1>3. /\ pc = "open" /\ at = [path |-> <<>>, content |-> Submitted] /\ stack = <<>>
      /\ results = <<>> /\ decoded = Nothing /\ budget = Nothing /\ DOMAIN results = {}
      /\ Nothing \in Charge
  BY DEF ScanInit, Nothing, Charge
<1>4. ScanTyped
  BY <1>3, FS_EmptySet DEF ScanTyped, PCs
<1>5. StackInv /\ AtInv /\ DecodedInv
  BY <1>3 DEF StackInv, AtInv, DecodedInv
<1>6. BudgetHolds
  <2>1. Unpacked = {}
    BY <1>3 DEF Unpacked
  <2>2. PICK g, h : SumsBy(g, h)
    BY <1>4, ChargedLoops DEF ScanTyped
  <2>3. g[{}] = 0 /\ h[{}] = 0
    BY <2>1, <2>2 DEF SumsBy, SumLoop
  <2>4. QED
    BY <1>3, <2>1, <2>2, <2>3, LimitsAssumption DEF SumsBy, BudgetHolds, Nothing
<1>7. QED
  BY <1>2, <1>4, <1>5, <1>6 DEF BudgetInv, TreeInv

LEMMA BudgetUnchanged == BudgetInv /\ UNCHANGED scanVars => BudgetInv'
<1> SUFFICES ASSUME BudgetInv, UNCHANGED scanVars PROVE BudgetInv'
  OBVIOUS
<1>1. UNCHANGED <<content, pc, at, stack, results, decoded, budget>>
  BY DEF scanVars, scan
<1>2. ContentOK' /\ ScanTyped' /\ StackInv' /\ AtInv'
  BY <1>1 DEF BudgetInv, TreeInv, ContentOK, Members, ScanTyped, StackInv, Inside, AtInv
<1>3. DecodedInv'
  BY <1>1, ExpandedStays DEF BudgetInv, TreeInv, DecodedInv
<1>4. BudgetHolds'
  <2>1. ContentOK /\ IsFiniteSet(DOMAIN results) /\ BudgetHolds /\ Unpacked' = Unpacked
    BY <1>1 DEF BudgetInv, TreeInv, ScanTyped, Unpacked
  <2>2. /\ budget.expanded + decoded.expanded <= MaxExpandedSize
        /\ budget.entries + decoded.entries <= MaxMembers
    BY <2>1 DEF BudgetHolds
  <2>3. QED
    BY <1>1, <2>1, <2>2, BudgetKept
<1>5. QED
  BY <1>2, <1>3, <1>4 DEF BudgetInv, TreeInv

LEMMA BudgetStep == BudgetInv /\ [ScanNext]_scanVars => BudgetInv'
BY BudgetOfMarks, BudgetOfOpenFile, BudgetOfUnpack, BudgetOfReserve, BudgetOfEndArchive,
   BudgetOfNextMember, BudgetUnchanged DEF ScanNext

(* However archives nest, repeat or hold themselves: what a scan unpacks is    *)
(* within the one budget it has, and the budget is what the result shows       *)
(* unpacked (reserveArchiveBudget, remainingArchiveBudget).                    *)
THEOREM OneBudgetPerScan == ScanSpec => []BudgetHolds
<1>1. ScanSpec => []BudgetInv
  BY BudgetInit, BudgetStep, PTL DEF ScanSpec
<1>2. BudgetInv => BudgetHolds
  BY DEF BudgetInv
<1>3. QED
  BY <1>1, <1>2, PTL

-----------------------------------------------------------------------------
(* The verdicts of a finished scan.                                            *)

\* What is being scanned until its disk is analysed or its members are next, and
\* the archives whose members are being scanned.
Waits == {"payload", "reserve", "disk"}
Waiting(p) == p = at.path /\ pc \in Waits
UnderWay(p) == \E k \in DOMAIN stack : stack[k].path = p
Composite(c) == Format(c) \in Archives \cup Packed

\* What has a result, and what is being scanned, is a member of something that has
\* one, or that is under way; and a disk under analysis is the one the result shows.
MemberOf(p, q) == \E i \in 1..Len(Members(results[p].content)) : q = Append(p, i)
ParentsInv ==
  /\ \A q \in DOMAIN results : q = <<>> \/ \E p \in DOMAIN results : MemberOf(p, q)
  /\ \A k \in DOMAIN stack : \/ stack[k].path = <<>>
                             \/ \E l \in DOMAIN stack : k < l /\ MemberOf(stack[l].path, stack[k].path)
  /\ pc \in Waits => \/ at.path = <<>>
                     \/ \E l \in DOMAIN stack : MemberOf(stack[l].path, at.path)
  /\ \A k \in DOMAIN stack : Format(stack[k].content) \in Archives
DiskInv ==
  /\ pc = "reserve" => /\ Composite(at.content)
                       /\ Format(at.content) \in Packed => Members(at.content) # <<>>
  /\ pc = "disk" => DiskAt(at.path) # <<>> /\ at.content = Head(DiskAt(at.path))

\* What is unpacked and what is not.
MembersInv ==
  \A p \in DOMAIN results :
    results[p].unpacked /\ Format(results[p].content) \in Archives =>
      \A i \in 1..Len(Members(results[p].content)) :
        \/ Append(p, i) \in DOMAIN results
        \/ \E k \in DOMAIN stack : stack[k].path = p /\ stack[k].next <= i
UnscannedInv ==
  \A p \in DOMAIN results :
    Composite(results[p].content) => results[p].unpacked \/ results[p].failed \/ Waiting(p)
ReasonInv == \A p \in DOMAIN results : results[p].failed => HasReason(p)

\* A verdict has its disk; a disk gives its verdict, and a member hands it on.
InfectedAt(p) == results[p].verdict = "infected"
SourceInv == \A p \in DOMAIN results : InfectedAt(p) =>
               \E q \in DOMAIN results : IsPrefix(p, q) /\ Malicious(q)
FoundInv == \A p \in DOMAIN results : Malicious(p) => InfectedAt(p) \/ Waiting(p)
HandedOnInv == \A p \in DOMAIN results : \A i \in Nat :
  Append(p, i) \in DOMAIN results /\ InfectedAt(Append(p, i)) => InfectedAt(p) \/ UnderWay(p)

\* An ADZ always holds an image.
ImagesOK == \A c \in Contents : Format(c) = "adz" => Members(c) # <<>>

VerdictTree == /\ ParentsInv /\ DiskInv /\ MembersInv /\ UnscannedInv /\ ReasonInv
               /\ SourceInv /\ FoundInv /\ HandedOnInv
               /\ pc = "done" => stack = <<>>
VerdictInv == ImagesOK /\ (pc # "failed" => VerdictTree)

-----------------------------------------------------------------------------
\* Prefixes.
LEMMA PrefixSelf == \A p \in Seq(Nat) : IsPrefix(p, p)
BY DEF IsPrefix

LEMMA PartElements ==
  \A q \in Seq(Nat) : \A n \in Nat : n <= Len(q) =>
    /\ SubSeq(q, 1, n) \in Seq(Nat) /\ Len(SubSeq(q, 1, n)) = n
    /\ \A m \in 1..n : SubSeq(q, 1, n)[m] = q[m]
OBVIOUS

LEMMA PrefixOfMember ==
  ASSUME NEW p \in Seq(Nat), NEW q \in Seq(Nat), NEW i \in Nat, IsPrefix(Append(p, i), q)
  PROVE  IsPrefix(p, q)
<1> DEFINE a == Append(p, i)
<1>1. a \in Seq(Nat) /\ Len(a) = Len(p) + 1 /\ Len(p) \in Nat /\ \A m \in 1..Len(p) : a[m] = p[m]
  OBVIOUS
<1>2. Len(a) <= Len(q) /\ SubSeq(a, 1, Len(a)) = SubSeq(q, 1, Len(a))
  BY DEF IsPrefix
<1> HIDE DEF a
<1>3. \A m \in 1..Len(a) : a[m] = q[m]
  <2> SUFFICES ASSUME NEW m \in 1..Len(a) PROVE a[m] = q[m]
    OBVIOUS
  <2>1. SubSeq(a, 1, Len(a))[m] = a[m] /\ SubSeq(q, 1, Len(a))[m] = q[m]
    BY <1>1, <1>2, PartElements
  <2>2. QED
    BY <1>2, <2>1
<1>4. Len(p) <= Len(q) /\ \A m \in 1..Len(p) : p[m] = q[m]
  <2>1. \A m \in 1..Len(p) : m \in 1..Len(a)
    BY <1>1
  <2>2. \A m \in 1..Len(p) : p[m] = q[m]
    BY <1>1, <1>3, <2>1
  <2>3. Len(q) \in Nat /\ Len(a) <= Len(q)
    BY <1>2
  <2>4. QED
    BY <1>1, <2>2, <2>3
<1>5. SubSeq(p, 1, Len(p)) = SubSeq(q, 1, Len(p))
  BY <1>4
<1>6. QED
  BY <1>4, <1>5 DEF IsPrefix

LEMMA MemberNotRoot == \A p \in Seq(Nat) : \A i \in Nat : Append(p, i) # <<>>
<1> SUFFICES ASSUME NEW p \in Seq(Nat), NEW i \in Nat PROVE Append(p, i) # <<>>
  OBVIOUS
<1>1. Len(Append(p, i)) = Len(p) + 1 /\ Len(p) \in Nat /\ Len(<<>>) = 0
  OBVIOUS
<1>2. QED
  BY <1>1

LEMMA Appended ==
  \A p \in Seq(Nat) : \A i \in Nat :
    /\ Len(Append(p, i)) = Len(p) + 1 /\ Len(p) \in Nat /\ Append(p, i)[Len(p) + 1] = i
    /\ \A m \in 1..Len(p) : Append(p, i)[m] = p[m]
OBVIOUS

LEMMA SamePath ==
  \A p, q \in Seq(Nat) : Len(p) = Len(q) /\ (\A m \in 1..Len(p) : p[m] = q[m]) => p = q
OBVIOUS

LEMMA SameParent ==
  ASSUME NEW p \in Seq(Nat), NEW q \in Seq(Nat), NEW i \in Nat, NEW j \in Nat,
         Append(p, i) = Append(q, j)
  PROVE  p = q /\ i = j
<1> DEFINE a == Append(p, i)
<1>1. /\ Len(a) = Len(p) + 1 /\ Len(p) \in Nat /\ a[Len(p) + 1] = i
      /\ \A m \in 1..Len(p) : a[m] = p[m]
  BY Appended
<1>2. /\ Len(a) = Len(q) + 1 /\ Len(q) \in Nat /\ a[Len(q) + 1] = j
      /\ \A m \in 1..Len(q) : a[m] = q[m]
  BY Appended
<1> HIDE DEF a
<1>3. Len(p) = Len(q) /\ i = j
  BY <1>1, <1>2
<1>4. \A m \in 1..Len(p) : p[m] = q[m]
  BY <1>1, <1>2, <1>3
<1>5. QED
  BY <1>3, <1>4, SamePath

LEMMA PartOf ==
  ASSUME NEW q \in Seq(Nat), NEW n \in 1..Len(q)
  PROVE  /\ SubSeq(q, 1, n) = Append(SubSeq(q, 1, n - 1), q[n])
         /\ SubSeq(q, 1, n - 1) \in Seq(Nat) /\ q[n] \in Nat
<1> DEFINE s == SubSeq(q, 1, n)
           t == SubSeq(q, 1, n - 1)
<1>1. n \in Nat \ {0} /\ n <= Len(q) /\ Len(q) \in Nat /\ n - 1 \in Nat /\ n - 1 <= Len(q)
  OBVIOUS
<1>2. s \in Seq(Nat) /\ Len(s) = n /\ \A m \in 1..n : s[m] = q[m]
  BY <1>1, PartElements
<1>3. t \in Seq(Nat) /\ Len(t) = n - 1 /\ \A m \in 1..n - 1 : t[m] = q[m]
  BY <1>1, PartElements
<1> HIDE DEF s, t
<1> DEFINE u == Append(t, q[n])
<1>4. u \in Seq(Nat) /\ Len(u) = n /\ q[n] \in Nat
  BY <1>1, <1>3
<1>5. \A m \in 1..n : u[m] = q[m]
  BY <1>1, <1>3
<1> HIDE DEF u
<1>6. s = u
  BY <1>2, <1>4, <1>5, SamePath
<1>7. QED
  BY <1>3, <1>4, <1>6 DEF s, t, u

-----------------------------------------------------------------------------
\* A disk that is shown stays shown, and a reason stays one.
LEMMA SameDisk ==
  ASSUME content' = content, NEW p, results'[p].content = results[p].content,
         results'[p].unpacked = results[p].unpacked
  PROVE  DiskAt(p)' = DiskAt(p) /\ (Malicious(p)' <=> Malicious(p))
<1>1. DiskAt(p)' = DiskAt(p)
  BY DEF DiskAt, Format, Members
<1>2. QED
  BY <1>1 DEF Malicious, Format

LEMMA DiskStays ==
  ASSUME content' = content, NEW p, results'[p].content = results[p].content,
         results[p].unpacked => results'[p].unpacked
  PROVE  /\ DiskAt(p) # <<>> => DiskAt(p)' = DiskAt(p)
         /\ results[p].unpacked => DiskAt(p)' = DiskAt(p)
         /\ Malicious(p) => Malicious(p)'
<1>1. /\ DiskAt(p) # <<>> => DiskAt(p)' = DiskAt(p)
      /\ results[p].unpacked => DiskAt(p)' = DiskAt(p)
  BY DEF DiskAt, Format, Members, Packed, Preserved
<1>2. QED
  BY <1>1 DEF Malicious, Format

LEMMA ReasonStays ==
  ASSUME ContentOK, budget \in Charge, budget' \in Charge, content' = content,
         budget.expanded <= budget'.expanded, budget.entries <= budget'.entries,
         NEW p, results[p].content \in Contents, results'[p].content = results[p].content,
         results[p].unpacked => results'[p].unpacked, HasReason(p)
  PROVE  HasReason(p)'
<1> DEFINE c == results[p].content
<1>1. /\ Expanded(c)' = Expanded(c) /\ Entries(c)' = Entries(c)
      /\ Expanded(c) \in Nat /\ Entries(c) \in Nat /\ content[c].directories \in Nat
  BY ExpandedIsNumber, ExpandedStays DEF ContentOK
<1>2. /\ budget.expanded \in Nat /\ budget.entries \in Nat
      /\ budget'.expanded \in Nat /\ budget'.entries \in Nat
      /\ MaxExpandedSize \in Nat /\ MaxMembers \in Nat
  BY LimitsAssumption DEF Charge
<1>3. CASE budget.expanded >= MaxExpandedSize \/ budget.entries >= MaxMembers
  BY <1>2, <1>3 DEF HasReason
<1>4. CASE budget.expanded + Expanded(c) > MaxExpandedSize
  <2>1. budget'.expanded + Expanded(c)' > MaxExpandedSize
    BY <1>1, <1>2, <1>4
  <2>2. QED
    BY <2>1, ExpandedStays DEF HasReason
<1>5. CASE budget.entries + Entries(c) + content[c].directories > MaxMembers
  <2>1. budget'.entries + Entries(c)' + content[c].directories > MaxMembers
    BY <1>1, <1>2, <1>5
  <2>2. QED
    BY <2>1 DEF HasReason, Entries, Members, Format
<1>6. CASE results[p].unpacked /\ Format(Head(DiskAt(p))) # "adf"
  <2>1. DiskAt(p)' = DiskAt(p) /\ results'[p].unpacked
    BY <1>6, DiskStays
  <2>2. QED
    BY <1>6, <2>1 DEF HasReason, Format
<1>7. CASE TooNested(p) \/ content[c].broken \/ Format(c) \in Tools \/ Members(c) = <<>>
  BY <1>7 DEF HasReason, TooNested, Format, Members
<1>8. QED
  BY <1>3, <1>4, <1>5, <1>6, <1>7 DEF HasReason

-----------------------------------------------------------------------------
(* Steps that leave the archives under way alone: a result may get marks, and  *)
(* what waited for its analysis stops waiting.                                 *)
LEMMA VerdictMarked ==
  ASSUME TreeInv, VerdictTree, TreeInv', SameResults,
         UNCHANGED <<content, stack, budget>>, at'.path = at.path,
         \A q \in DOMAIN results : results[q].failed => results'[q].failed,
         \A q \in DOMAIN results : results'[q].failed => results[q].failed \/ HasReason(q),
         \A q \in DOMAIN results : InfectedAt(q) => InfectedAt(q)',
         \A q \in DOMAIN results : InfectedAt(q)' =>
           InfectedAt(q) \/ (Waiting(q) /\ Malicious(q)),
         pc' \in Waits => pc \in Waits,
         pc \in Waits /\ pc' \notin Waits =>
           /\ Malicious(at.path) => InfectedAt(at.path)'
           /\ Composite(results[at.path].content) =>
                results'[at.path].unpacked \/ results'[at.path].failed,
         DiskInv', pc' = "done" => stack = <<>>
  PROVE  VerdictTree'
<1>1. DOMAIN results' = DOMAIN results /\ \A q \in DOMAIN results : q \in Seq(Nat)
  BY DEF SameResults, TreeInv, ScanTyped
<1>2. \A q \in DOMAIN results : /\ results'[q].content = results[q].content
                                /\ results'[q].unpacked = results[q].unpacked
  BY DEF SameResults
<1>3. \A c : Format(c)' = Format(c) /\ Members(c)' = Members(c) /\ (Composite(c)' <=> Composite(c))
  BY DEF Format, Members, Composite
<1>4. \A q \in DOMAIN results : Malicious(q)' <=> Malicious(q)
  BY <1>2, SameDisk
<1>5. \A q \in DOMAIN results : HasReason(q) => HasReason(q)'
  <2>1. ContentOK /\ budget \in Charge /\ budget' \in Charge
        /\ \A q \in DOMAIN results : results[q] \in ResultType
    BY DEF TreeInv, ScanTyped
  <2>2. budget.expanded <= budget'.expanded /\ budget.entries <= budget'.entries
    BY <2>1 DEF Charge
  <2>3. \A q \in DOMAIN results : results[q].content \in Contents
    BY <2>1 DEF ResultType
  <2>4. QED
    BY <1>2, <2>1, <2>2, <2>3, ReasonStays
<1>6. \A p \in DOMAIN results : \A q : MemberOf(p, q)' <=> MemberOf(p, q)
  BY <1>2, <1>3 DEF MemberOf
<1>7. \A k \in DOMAIN stack : stack[k].path \in DOMAIN results
  BY DEF TreeInv, StackInv
<1>8. ParentsInv'
  BY <1>1, <1>3, <1>6, <1>7 DEF VerdictTree, ParentsInv
<1>9. MembersInv'
  <2> SUFFICES ASSUME NEW q \in DOMAIN results', results'[q].unpacked,
                      Format(results[q].content)' \in Archives,
                      NEW i \in 1..Len(Members(results[q].content)'), Append(q, i) \notin DOMAIN results'
               PROVE  \E k \in DOMAIN stack' : stack'[k].path = q /\ stack'[k].next <= i
    BY DEF MembersInv
  <2>1. q \in DOMAIN results /\ results[q].unpacked /\ Append(q, i) \notin DOMAIN results
    BY <1>1, <1>2
  <2>2. /\ Format(results[q].content) \in Archives
        /\ i \in 1..Len(Members(results[q].content))
    BY <1>2, <1>3, <2>1
  <2>3. PICK k \in DOMAIN stack : stack[k].path = q /\ stack[k].next <= i
    BY <2>1, <2>2 DEF VerdictTree, MembersInv
  <2>4. QED
    BY <2>3
<1>10. UnscannedInv'
  BY <1>1, <1>2, <1>3 DEF VerdictTree, UnscannedInv, Waiting
<1>11. ReasonInv'
  BY <1>1, <1>5 DEF VerdictTree, ReasonInv
<1>12. SourceInv'
  <2> SUFFICES ASSUME NEW p \in DOMAIN results, InfectedAt(p)'
               PROVE  \E q \in DOMAIN results : IsPrefix(p, q) /\ Malicious(q)'
    BY <1>1 DEF SourceInv
  <2>1. CASE InfectedAt(p)
    BY <1>4, <2>1 DEF VerdictTree, SourceInv
  <2>2. CASE Malicious(p)
    BY <1>1, <1>4, <2>2, PrefixSelf
  <2>3. QED
    BY <2>1, <2>2
<1>13. FoundInv'
  BY <1>1, <1>4 DEF VerdictTree, FoundInv, Waiting
<1>14. HandedOnInv'
  <2> SUFFICES ASSUME NEW p \in DOMAIN results, NEW i \in Nat, Append(p, i) \in DOMAIN results,
                      InfectedAt(Append(p, i))', ~InfectedAt(p)'
               PROVE  UnderWay(p)'
    BY <1>1 DEF HandedOnInv
  <2>1. CASE InfectedAt(Append(p, i))
    BY <2>1 DEF VerdictTree, HandedOnInv, UnderWay
  <2>2. CASE Waiting(Append(p, i))
    <3>1. Append(p, i) # <<>>
      BY <1>1, MemberNotRoot
    <3>2. PICK l \in DOMAIN stack : MemberOf(stack[l].path, Append(p, i))
      BY <2>2, <3>1 DEF VerdictTree, ParentsInv, Waiting
    <3>3. PICK j \in 1..Len(Members(results[stack[l].path].content)) :
            Append(p, i) = Append(stack[l].path, j)
      BY <3>2 DEF MemberOf
    <3>4. stack[l].path \in Seq(Nat) /\ j \in Nat /\ p \in Seq(Nat)
      BY <1>1, <1>7
    <3>5. p = stack[l].path
      BY <3>3, <3>4, SameParent
    <3>6. QED
      BY <3>5 DEF UnderWay
  <2>3. QED
    BY <2>1, <2>2
<1>15. QED
  BY <1>8, <1>9, <1>10, <1>11, <1>12, <1>13, <1>14 DEF VerdictTree

LEMMA NotMalicious ==
  ASSUME NEW p, results[p].unpacked => Format(results[p].content) \notin Packed,
         Format(results[p].content) # "adf",
         Format(results[p].content) \in Preserved => p # <<>> \/ Members(results[p].content) = <<>>
  PROVE  ~Malicious(p)
BY DEF Malicious, DiskAt

\* What Fail notes.
LEMMA FailNotes ==
  ASSUME ScanTyped, at.path \in DOMAIN results, Fail, pc' # "failed"
  PROVE  /\ pc' = "next" /\ results'[at.path].failed
         /\ \A q \in DOMAIN results : /\ results'[q].verdict = results[q].verdict
                                      /\ results[q].failed => results'[q].failed
                                      /\ q # at.path => results'[q].failed = results[q].failed
<1>1. pc' = "next" /\ SetResult(at.path, [results[at.path] EXCEPT !.failed = TRUE]) /\ at.path # <<>>
  BY DEF Fail
<1>2. results[at.path] \in ResultType
  BY DEF ScanTyped
<1>3. /\ [results[at.path] EXCEPT !.failed = TRUE].verdict = results[at.path].verdict
      /\ [results[at.path] EXCEPT !.failed = TRUE].failed
  BY <1>2 DEF ResultType
<1>4. QED
  BY <1>1, <1>3 DEF SetResult

\* A content that is not unpacked has a reason.
LEMMA NotUnpackable ==
  ASSUME TreeInv, pc = "payload", Composite(at.content),
         ~Unpackable \/ Format(at.content) \in Tools
  PROVE  HasReason(at.path)
<1> DEFINE c == at.content
<1>1. /\ results[at.path].content = c /\ at.path \in DOMAIN results /\ c \in Contents
      /\ Format(c) \in Archives \cup Packed
  <2>1. results[at.path].content = c /\ at.path \in DOMAIN results
    BY DEF TreeInv, AtInv
  <2>2. results[at.path] \in ResultType
    BY <2>1 DEF TreeInv, ScanTyped
  <2>3. QED
    BY <2>1, <2>2 DEF ResultType, Composite
<1>2. /\ Expanded(c) \in Nat /\ Entries(c) \in Nat /\ content[c].directories \in Nat
      /\ budget.expanded \in Nat /\ budget.entries \in Nat
      /\ MaxExpandedSize \in Nat /\ MaxMembers \in Nat
  BY <1>1, ExpandedIsNumber, LimitsAssumption DEF TreeInv, ScanTyped, Charge, ContentOK
<1>3. CASE TooNested(at.path) \/ Format(c) \in Tools \/ content[c].broken \/ Members(c) = <<>>
  BY <1>1, <1>3 DEF HasReason
<1>4. CASE ~Left
  <2>1. ~(MaxExpandedSize - budget.expanded > 0 /\ MaxMembers - budget.entries > 0)
    BY <1>4 DEF Left, Remaining
  <2>2. budget.expanded >= MaxExpandedSize \/ budget.entries >= MaxMembers
    BY <1>2, <2>1
  <2>3. QED
    BY <2>2 DEF HasReason
<1>5. CASE /\ ~(TooNested(at.path) \/ Format(c) \in Tools \/ content[c].broken \/ Members(c) = <<>>)
           /\ Left
  <2>1. ~Decodes(c, Remaining)
    BY <1>1, <1>5 DEF Unpackable
  <2>2. /\ Remaining.expanded = MaxExpandedSize - budget.expanded
        /\ Remaining.entries = MaxMembers - budget.entries
    BY DEF Remaining
  <2>3. CASE ~(Expanded(c) <= Remaining.expanded)
    <3>1. budget.expanded + Expanded(c) > MaxExpandedSize
      BY <1>2, <2>2, <2>3
    <3>2. QED
      BY <1>1, <3>1 DEF HasReason
  <2>4. CASE ~(Entries(c) + content[c].directories <= Remaining.entries)
    <3>1. budget.entries + Entries(c) + content[c].directories > MaxMembers
      BY <1>2, <2>2, <2>4
    <3>2. QED
      BY <1>1, <3>1 DEF HasReason
  <2>5. CASE /\ Expanded(c) <= Remaining.expanded
             /\ Entries(c) + content[c].directories <= Remaining.entries
    <3>1. Within(c, Remaining)
      BY <2>5 DEF Within
    <3>2. QED
      BY <1>1, <1>5, <2>1, <2>5, <3>1
      DEF Decodes, DecodeZIP, DecodeLHA, DecodeLZX, DecodeADZ, DecodeDMS, Archives, Packed, Tools
  <2>6. QED
    BY <2>3, <2>4, <2>5
<1>6. QED
  BY <1>3, <1>4, <1>5

\* The steps that only mark results.
LEMMA VerdictOfMarks ==
  ASSUME TreeInv, TreeInv', ImagesOK, VerdictTree, pc' # "failed",
         \/ ScanOpaque \/ ScanDisk \/ ScanPreserved \/ Unpack \/ FailToUnpack
         \/ AnalyzeDisk \/ WalkDisk \/ WalkEnds \/ Finish
  PROVE  VerdictTree'
<1>1. /\ ScanTyped
      /\ pc \in {"payload", "reserve", "disk", "walk"} => at.path \in DOMAIN results
      /\ pc \in {"payload", "reserve"} => /\ results[at.path].content = at.content
                                          /\ ~results[at.path].unpacked
      /\ \A q \in DOMAIN results : results[q] \in ResultType
      /\ at = [path |-> at.path, content |-> at.content]
  BY DEF TreeInv, AtInv, ScanTyped
<1>2. UNCHANGED results => SameResults
  BY <1>1 DEF SameResults
<1>3. UNCHANGED results => \A q : (InfectedAt(q)' <=> InfectedAt(q))
  BY DEF InfectedAt
<1>4. DiskInv
  BY DEF VerdictTree
<1>5. CASE WalkDisk \/ WalkEnds \/ Finish
  <2>1. /\ UNCHANGED <<content, at, stack, budget, results>>
        /\ pc \notin Waits /\ pc' \notin Waits
        /\ pc' = "done" => stack = <<>>
    BY <1>5 DEF WalkDisk, WalkEnds, Finish, Go, scan, Waits
  <2>2. DiskInv'
    BY <2>1 DEF DiskInv, Waits
  <2>3. QED
    BY <1>1, <1>2, <1>3, <2>1, <2>2, VerdictMarked
<1>6. CASE ScanOpaque
  <2>1. /\ UNCHANGED <<content, at, stack, budget, results>> /\ pc = "payload" /\ pc' = "next"
        /\ Format(at.content) \notin Archives \cup Packed \cup Preserved \cup {"adf"}
           \/ (Format(at.content) \in Preserved /\ at.path # <<>>)
    BY <1>6 DEF ScanOpaque, Opaque, Go
  <2>2. ~Malicious(at.path) /\ ~Composite(at.content)
    BY <1>1, <2>1, NotMalicious DEF Composite, Archives, Packed, Preserved
  <2>3. DiskInv' /\ pc' \notin Waits
    BY <2>1 DEF DiskInv, Waits
  <2>4. QED
    BY <1>1, <1>2, <1>3, <2>1, <2>2, <2>3, VerdictMarked
<1>7. CASE ScanDisk
  <2>1. /\ UNCHANGED <<content, at, stack, budget, results>> /\ pc = "payload" /\ pc' = "disk"
        /\ Format(at.content) = "adf"
    BY <1>7 DEF ScanDisk, Go
  <2>2. DiskAt(at.path) = <<at.content>>
    BY <1>1, <2>1 DEF DiskAt
  <2>3. DiskInv' /\ pc \in Waits /\ pc' \in Waits
    <3>1. DiskAt(at.path)' = <<at.content>>
      BY <2>1, <2>2 DEF DiskAt, Format, Members
    <3>2. <<at.content>> # <<>> /\ Head(<<at.content>>) = at.content
      OBVIOUS
    <3>3. QED
      BY <2>1, <3>1, <3>2 DEF DiskInv, Waits
  <2>4. QED
    BY <1>1, <1>2, <1>3, <2>1, <2>3, VerdictMarked
<1>8. CASE Unpack
  <2>1. /\ UNCHANGED <<content, at, stack, budget, results>> /\ pc = "payload" /\ pc' = "reserve"
        /\ Composite(at.content) /\ Decodes(at.content, Remaining)
    BY <1>8 DEF Unpack, Unpackable, Go, Composite
  <2>2. at.content \in Contents
    BY <1>1, <2>1 DEF ResultType
  <2>3. Format(at.content) \in Packed => Members(at.content) # <<>>
    BY <2>1, <2>2 DEF Decodes, DecodeDMS, Packed, ImagesOK
  <2>4. DiskInv' /\ pc \in Waits /\ pc' \in Waits
    BY <2>1, <2>3 DEF DiskInv, Waits, Composite, Format, Members
  <2>5. QED
    BY <1>1, <1>2, <1>3, <2>1, <2>4, VerdictMarked
<1>9. CASE ScanPreserved
  <2>1. /\ UNCHANGED <<content, stack, budget, results>> /\ pc = "payload"
        /\ Format(at.content) \in Preserved /\ at.path = <<>>
        /\ \/ Members(at.content) = <<>> /\ pc' = "next" /\ UNCHANGED at
           \/ /\ Members(at.content) # <<>> /\ pc' = "disk"
              /\ at' = [at EXCEPT !.content = Head(Members(@))]
    BY <1>9 DEF ScanPreserved, Fail
  <2>2. ~Composite(at.content) /\ Format(at.content) \notin Packed /\ Format(at.content) # "adf"
    BY <2>1 DEF Composite, Archives, Packed, Preserved
  <2>3. CASE Members(at.content) = <<>> /\ pc' = "next" /\ UNCHANGED at
    <3>1. ~Malicious(at.path)
      BY <1>1, <2>1, <2>2, <2>3, NotMalicious
    <3>2. DiskInv' /\ pc' \notin Waits
      BY <2>3 DEF DiskInv, Waits
    <3>3. QED
      BY <1>1, <1>2, <1>3, <2>1, <2>2, <2>3, <3>1, <3>2, VerdictMarked
  <2>4. CASE /\ Members(at.content) # <<>> /\ pc' = "disk"
             /\ at' = [at EXCEPT !.content = Head(Members(@))]
    <3>1. at'.path = at.path /\ at'.content = Head(Members(at.content))
      BY <1>1, <2>4
    <3>2. DiskAt(at.path) = Members(at.content)
      BY <1>1, <2>1, <2>2 DEF DiskAt
    <3>3. DiskAt(at.path)' = DiskAt(at.path)
      BY <2>1, <3>1 DEF DiskAt, Format, Members
    <3>4. DiskInv' /\ pc \in Waits /\ pc' \in Waits
      BY <2>1, <2>4, <3>1, <3>2, <3>3 DEF DiskInv, Waits
    <3>5. QED
      BY <1>1, <1>2, <1>3, <2>1, <2>4, <3>1, <3>4, VerdictMarked
  <2>5. QED
    BY <2>1, <2>3, <2>4
<1>10. CASE FailToUnpack
  <2>1. /\ UNCHANGED <<content, at, stack, budget>> /\ pc = "payload" /\ Fail /\ Composite(at.content)
        /\ ~Unpackable \/ Format(at.content) \in Tools
    BY <1>10 DEF FailToUnpack, Composite
  <2>2. /\ SameResults /\ pc' = "next" /\ results'[at.path].failed
        /\ \A q \in DOMAIN results : /\ results'[q].verdict = results[q].verdict
                                     /\ results[q].failed => results'[q].failed
                                     /\ q # at.path => results'[q].failed = results[q].failed
    BY <1>1, <2>1, FailEffect, FailNotes
  <2>3. \A q \in DOMAIN results : InfectedAt(q)' <=> InfectedAt(q)
    BY <2>2 DEF InfectedAt
  <2>4. HasReason(at.path)
    BY <2>1, NotUnpackable
  <2>5. ~Malicious(at.path)
    BY <1>1, <2>1, NotMalicious DEF Composite, Archives, Packed, Preserved
  <2>6. DiskInv' /\ pc' \notin Waits
    BY <2>2 DEF DiskInv, Waits
  <2>7. QED
    BY <1>1, <2>1, <2>2, <2>3, <2>4, <2>5, <2>6, VerdictMarked
<1>11. CASE AnalyzeDisk
  <2> DEFINE d == at.content
             m == Matched(results[at.path], d)
  <2>1. /\ UNCHANGED <<content, at, stack, budget>> /\ pc = "disk" /\ at.path \in DOMAIN results
        /\ \/ ~IsDisk(d) /\ Fail
           \/ IsDisk(d) /\ SetResult(at.path, m) /\ pc' \in {"walk", "next"}
    BY <1>1, <1>11 DEF AnalyzeDisk
  <2>2. DiskAt(at.path) # <<>> /\ d = Head(DiskAt(at.path))
    BY <1>4, <2>1 DEF DiskInv
  <2>3. Composite(results[at.path].content) => results[at.path].unpacked
    BY <2>2 DEF DiskAt, Composite, Archives, Packed, Preserved
  <2>4. Malicious(at.path) <=> Format(d) = "adf" /\ content[d].malicious
    BY <2>2 DEF Malicious
  <2>5. CASE ~IsDisk(d) /\ Fail
    <3>1. /\ SameResults /\ pc' = "next" /\ results'[at.path].failed /\ at.path # <<>>
          /\ \A q \in DOMAIN results : /\ results'[q].verdict = results[q].verdict
                                       /\ results[q].failed => results'[q].failed
                                       /\ q # at.path => results'[q].failed = results[q].failed
      BY <1>1, <2>1, <2>5, FailEffect, FailNotes DEF Fail
    <3>2. \A q \in DOMAIN results : InfectedAt(q)' <=> InfectedAt(q)
      BY <3>1 DEF InfectedAt
    <3>3. Format(d) # "adf"
      BY <2>5 DEF IsDisk
    <3>4. HasReason(at.path)
      <4>1. results[at.path].unpacked
        BY <2>2, <3>1, <3>3 DEF DiskAt
      <4>2. QED
        BY <2>2, <3>3, <4>1 DEF HasReason
    <3>5. DiskInv' /\ pc' \notin Waits
      BY <3>1 DEF DiskInv, Waits
    <3>6. QED
      BY <1>1, <2>1, <2>4, <3>1, <3>2, <3>3, <3>4, <3>5, VerdictMarked
  <2>6. CASE IsDisk(d) /\ SetResult(at.path, m) /\ pc' \in {"walk", "next"}
    <3>1. results[at.path] \in ResultType
      BY <1>1, <2>1
    <3>2. /\ m \in ResultType /\ m.content = results[at.path].content
          /\ m.unpacked = results[at.path].unpacked /\ m.failed = results[at.path].failed
          /\ m.verdict = IF content[d].malicious THEN "infected" ELSE results[at.path].verdict
      BY <3>1 DEF Matched, ResultType
    <3> HIDE DEF m
    <3>3. /\ SameResults /\ results'[at.path] = m
          /\ \A q \in DOMAIN results : q # at.path => results'[q] = results[q]
      BY <1>1, <2>1, <2>6, <3>1, <3>2, MarkSet DEF SetResult
    <3>4. \A q \in DOMAIN results : results'[q].failed = results[q].failed
      BY <3>2, <3>3
    <3>5. Malicious(at.path) <=> content[d].malicious
      BY <2>4, <2>6 DEF IsDisk
    <3>6. \A q \in DOMAIN results : /\ InfectedAt(q) => InfectedAt(q)'
                                    /\ InfectedAt(q)' =>
                                         InfectedAt(q) \/ (Waiting(q) /\ Malicious(q))
      BY <2>1, <3>2, <3>3, <3>5 DEF InfectedAt, Waiting, Waits
    <3>7. Malicious(at.path) => InfectedAt(at.path)'
      BY <2>1, <3>2, <3>3, <3>5 DEF InfectedAt
    <3>8. DiskInv' /\ pc' \notin Waits /\ pc' # "done"
      BY <2>6 DEF DiskInv, Waits
    <3>9. Composite(results[at.path].content) => results'[at.path].unpacked
      BY <2>3, <3>2, <3>3
    <3>10. QED
      BY <1>1, <2>1, <3>3, <3>4, <3>6, <3>7, <3>8, <3>9, VerdictMarked
  <2>7. QED
    BY <2>1, <2>5, <2>6
<1>12. QED
  BY <1>5, <1>6, <1>7, <1>8, <1>9, <1>10, <1>11

LEMMA StackAbove ==
  ASSUME NEW s \in Seq(FrameOf), NEW f \in FrameOf
  PROVE  LET t == <<f>> \o s
         IN /\ 1 \in DOMAIN t /\ t[1] = f
            /\ \A k \in DOMAIN s : k \in Nat /\ 1 < k + 1 /\ k + 1 \in DOMAIN t /\ t[k + 1] = s[k]
<1> DEFINE t == <<f>> \o s
<1>1. /\ t \in Seq(FrameOf) /\ Len(t) = Len(s) + 1 /\ t[1] = f /\ Len(s) \in Nat
      /\ DOMAIN t = 1..Len(s) + 1 /\ DOMAIN s = 1..Len(s)
  OBVIOUS
<1>2. \A k \in 1..Len(s) : t[k + 1] = s[k]
  OBVIOUS
<1> HIDE DEF t
<1>3. \A k \in 1..Len(s) : k \in Nat /\ 1 < k + 1 /\ k + 1 \in 1..Len(s) + 1
  BY <1>1
<1>4. QED
  BY <1>1, <1>2, <1>3 DEF t

\* A decoder that returned more than is left.
LEMMA VerdictOfRefusal ==
  ASSUME TreeInv, TreeInv', VerdictTree, pc' # "failed", pc = "reserve", ~Fits, Fail,
         UNCHANGED <<content, at, stack, budget>>
  PROVE  VerdictTree'
<1> DEFINE c == at.content
<1>1. /\ ScanTyped /\ at.path \in DOMAIN results /\ c \in Contents /\ Composite(c)
      /\ results[at.path].content = c /\ ~results[at.path].unpacked
      /\ decoded.expanded = Expanded(c) /\ decoded.entries = Entries(c)
  <2>1. /\ ScanTyped /\ at.path \in DOMAIN results /\ Composite(c)
        /\ results[at.path].content = c /\ ~results[at.path].unpacked
        /\ decoded.expanded = Expanded(c) /\ decoded.entries = Entries(c)
    BY DEF TreeInv, AtInv, DecodedInv, VerdictTree, DiskInv
  <2>2. results[at.path] \in ResultType
    BY <2>1 DEF ScanTyped
  <2>3. QED
    BY <2>1, <2>2 DEF ResultType
<1>2. /\ Expanded(c) \in Nat /\ Entries(c) \in Nat /\ content[c].directories \in Nat
      /\ budget.expanded \in Nat /\ budget.entries \in Nat
      /\ MaxExpandedSize \in Nat /\ MaxMembers \in Nat
  BY <1>1, ExpandedIsNumber, LimitsAssumption DEF TreeInv, ScanTyped, Charge, ContentOK
<1>3. HasReason(at.path)
  <2>1. ~(/\ Expanded(c) <= MaxExpandedSize - budget.expanded
          /\ Entries(c) <= MaxMembers - budget.entries)
    BY <1>1 DEF Fits
  <2>2. \/ budget.expanded + Expanded(c) > MaxExpandedSize
        \/ budget.entries + Entries(c) + content[c].directories > MaxMembers
    BY <1>2, <2>1
  <2>3. QED
    BY <1>1, <2>2 DEF HasReason
<1>4. /\ SameResults /\ pc' = "next" /\ results'[at.path].failed
      /\ \A q \in DOMAIN results : /\ results'[q].verdict = results[q].verdict
                                   /\ results[q].failed => results'[q].failed
                                   /\ q # at.path => results'[q].failed = results[q].failed
  BY <1>1, FailEffect, FailNotes
<1>5. \A q \in DOMAIN results : InfectedAt(q)' <=> InfectedAt(q)
  BY <1>4 DEF InfectedAt
<1>6. ~Malicious(at.path)
  BY <1>1, NotMalicious DEF Composite, Archives, Packed, Preserved
<1>7. DiskInv' /\ pc' \notin Waits
  BY <1>4 DEF DiskInv, Waits
<1>8. QED
  BY <1>3, <1>4, <1>5, <1>6, <1>7, VerdictMarked

\* What was unpacked is charged, and its disk or its members are next.
LEMMA VerdictOfReserve ==
  ASSUME TreeInv, TreeInv', VerdictTree, pc' # "failed", Reserve
  PROVE  VerdictTree'
<1> DEFINE p == at.path
           c == at.content
           r == [results[p] EXCEPT !.unpacked = TRUE]
           f == [path |-> p, content |-> c, next |-> 1]
<1>1. /\ ScanTyped /\ ContentOK /\ pc = "reserve" /\ content' = content
      /\ p \in DOMAIN results /\ p \in Seq(Nat) /\ results[p] \in ResultType /\ Composite(c)
      /\ Format(c) \in Packed => Members(c) # <<>>
      /\ results[p].content = c /\ ~results[p].unpacked
      /\ decoded.expanded = Expanded(c) /\ decoded.entries = Entries(c)
      /\ \A q \in DOMAIN results : q \in Seq(Nat) /\ results[q] \in ResultType
      /\ \A k \in DOMAIN stack : stack[k].path \in DOMAIN results
  BY DEF TreeInv, AtInv, DecodedInv, StackInv, ScanTyped, VerdictTree, DiskInv, Reserve
<1>2. CASE ~Fits /\ Fail /\ UNCHANGED <<at, stack, budget>>
  BY <1>1, <1>2, VerdictOfRefusal
<1>3. ASSUME budget' = [expanded |-> budget.expanded + decoded.expanded,
                        entries |-> budget.entries + decoded.entries],
             SetResult(p, r),
             \/ /\ Format(c) \in Packed
                /\ pc' = "disk" /\ at' = [at EXCEPT !.content = Head(Members(@))] /\ UNCHANGED stack
             \/ /\ Format(c) \notin Packed
                /\ pc' = "next" /\ UNCHANGED at /\ stack' = <<f>> \o stack
      PROVE  VerdictTree'
  <2>1. /\ r.content = c /\ r.unpacked = TRUE
        /\ r.failed = results[p].failed /\ r.verdict = results[p].verdict
    BY <1>1 DEF ResultType
  <2> HIDE DEF r
  <2>2. /\ DOMAIN results' = DOMAIN results /\ results'[p] = r
        /\ \A q \in DOMAIN results : q # p => results'[q] = results[q]
    BY <1>1, <1>3 DEF SetResult
  <2>3. \A q \in DOMAIN results : /\ results'[q].content = results[q].content
                                  /\ results'[q].failed = results[q].failed
                                  /\ results'[q].verdict = results[q].verdict
                                  /\ results'[q].unpacked <=> results[q].unpacked \/ q = p
                                  /\ q # p => results'[q].unpacked = results[q].unpacked
    BY <1>1, <2>1, <2>2
  <2>4. \A x : Format(x)' = Format(x) /\ Members(x)' = Members(x) /\ (Composite(x)' <=> Composite(x))
    BY <1>1 DEF Format, Members, Composite
  <2>5. /\ \A q \in DOMAIN results : Malicious(q) => Malicious(q)'
        /\ \A q \in DOMAIN results : q # p => (Malicious(q)' <=> Malicious(q))
    BY <1>1, <2>3, SameDisk, DiskStays
  <2>6. ReasonInv'
    <3>1. /\ budget \in Charge /\ budget' \in Charge
          /\ \A q \in DOMAIN results : results[q].content \in Contents
      BY <1>1 DEF TreeInv, ScanTyped, ResultType
    <3>2. budget.expanded <= budget'.expanded /\ budget.entries <= budget'.entries
      <4>1. Expanded(c) \in Nat /\ Entries(c) \in Nat
        BY <1>1, <3>1, ExpandedIsNumber
      <4>2. QED
        BY <1>1, <1>3, <3>1, <4>1 DEF Charge
    <3>3. \A q \in DOMAIN results : HasReason(q) => HasReason(q)'
      BY <1>1, <2>3, <3>1, <3>2, ReasonStays
    <3>4. QED
      BY <2>2, <2>3, <3>3 DEF VerdictTree, ReasonInv
  <2>7. UnscannedInv' /\ SourceInv'
    <3>1. UnscannedInv'
      BY <2>2, <2>3, <2>4 DEF VerdictTree, UnscannedInv, Waiting
    <3>2. SourceInv'
      BY <2>2, <2>3, <2>5 DEF VerdictTree, SourceInv, InfectedAt
    <3>3. QED
      BY <3>1, <3>2
  <2>8. \A s \in DOMAIN results : \A q : MemberOf(s, q)' <=> MemberOf(s, q)
    BY <2>3, <2>4 DEF MemberOf
  <2>9. CASE /\ Format(c) \in Packed
             /\ pc' = "disk" /\ at' = [at EXCEPT !.content = Head(Members(@))] /\ UNCHANGED stack
    <3>1. at'.path = p /\ at'.content = Head(Members(c))
      BY <1>1, <2>9 DEF ScanTyped
    <3>2. Format(c) \notin Archives /\ Format(c) # "adf"
      BY <2>9 DEF Packed, Archives
    <3>3. ParentsInv'
      BY <1>1, <2>2, <2>4, <2>8, <2>9, <3>1 DEF VerdictTree, ParentsInv, Waits
    <3>4. DiskInv'
      <4>1. DiskAt(p)' = Members(c)
        BY <1>1, <2>1, <2>2, <2>4, <2>9, <3>2 DEF DiskAt
      <4>2. QED
        BY <1>1, <2>9, <3>1, <4>1 DEF DiskInv
    <3>5. MembersInv'
      <4> SUFFICES ASSUME NEW q \in DOMAIN results, results'[q].unpacked,
                          Format(results[q].content) \in Archives,
                          NEW i \in 1..Len(Members(results[q].content)), Append(q, i) \notin DOMAIN results
                   PROVE  \E k \in DOMAIN stack' : stack'[k].path = q /\ stack'[k].next <= i
        BY <2>2, <2>3, <2>4 DEF MembersInv
      <4>1. q # p
        BY <1>1, <3>2
      <4>2. PICK k \in DOMAIN stack : stack[k].path = q /\ stack[k].next <= i
        BY <2>3, <4>1 DEF VerdictTree, MembersInv
      <4>3. QED
        BY <2>9, <4>2
    <3>6. FoundInv'
      BY <1>1, <2>2, <2>3, <2>5, <2>9, <3>1 DEF VerdictTree, FoundInv, InfectedAt, Waiting, Waits
    <3>7. HandedOnInv'
      BY <2>2, <2>3, <2>9 DEF VerdictTree, HandedOnInv, InfectedAt, UnderWay
    <3>8. QED
      BY <2>6, <2>7, <2>9, <3>3, <3>4, <3>5, <3>6, <3>7 DEF VerdictTree
  <2>10. CASE /\ Format(c) \notin Packed
              /\ pc' = "next" /\ UNCHANGED at /\ stack' = <<f>> \o stack
    <3>1. Format(c) \in Archives /\ Format(c) # "adf" /\ Format(c) \notin Preserved
      BY <1>1, <2>10 DEF Composite, Archives, Packed, Preserved
    <3>2. stack \in Seq(FrameOf) /\ f \in FrameOf /\ f.path = p /\ f.content = c /\ f.next = 1
      BY <1>1 DEF ScanTyped, FrameOf, ResultType
    <3> HIDE DEF f
    <3>3. /\ \A k \in DOMAIN stack' : \/ k = 1 /\ stack'[k] = f
                                      \/ k # 1 /\ k - 1 \in DOMAIN stack /\ stack'[k] = stack[k - 1]
          /\ \A k, l \in DOMAIN stack' : k \in Nat /\ (k < l => k - 1 < l - 1 /\ l # 1)
      BY <2>10, <3>2, StackPushed
    <3>4. /\ 1 \in DOMAIN stack' /\ stack'[1] = f
          /\ \A k \in DOMAIN stack : k \in Nat /\ 1 < k + 1 /\ k + 1 \in DOMAIN stack' /\ stack'[k + 1] = stack[k]
      BY <2>10, <3>2, StackAbove
    <3>5. ParentsInv'
      <4>1. \A q \in DOMAIN results' : q = <<>> \/ \E s \in DOMAIN results' : MemberOf(s, q)'
        BY <2>2, <2>8 DEF VerdictTree, ParentsInv
      <4>2. ASSUME NEW k \in DOMAIN stack', stack'[k].path # <<>>
            PROVE  \E l \in DOMAIN stack' : k < l /\ MemberOf(stack'[l].path, stack'[k].path)
        <5>1. CASE k = 1
          <6>1. PICK l \in DOMAIN stack : MemberOf(stack[l].path, p)
            BY <1>1, <3>2, <3>4, <4>2, <5>1 DEF VerdictTree, ParentsInv, Waits
          <6>2. QED
            BY <3>2, <3>4, <5>1, <6>1
        <5>2. CASE k # 1
          <6>1. k - 1 \in DOMAIN stack /\ stack'[k] = stack[k - 1] /\ k \in Nat
            BY <3>3, <5>2
          <6>2. PICK l \in DOMAIN stack : k - 1 < l /\ MemberOf(stack[l].path, stack[k - 1].path)
            BY <4>2, <6>1 DEF VerdictTree, ParentsInv
          <6>3. k < l + 1 /\ l + 1 \in DOMAIN stack' /\ stack'[l + 1] = stack[l]
            BY <3>4, <6>1, <6>2
          <6>4. QED
            BY <6>1, <6>2, <6>3
        <5>3. QED
          BY <5>1, <5>2
      <4>3. \A k \in DOMAIN stack' : /\ Format(stack'[k].content) \in Archives
                                      /\ stack'[k].path \in DOMAIN results
        BY <1>1, <3>1, <3>2, <3>3 DEF VerdictTree, ParentsInv
      <4>4. \A k, l \in DOMAIN stack' :
              MemberOf(stack'[l].path, stack'[k].path) => MemberOf(stack[l].path, stack[k].path)'
        BY <2>3, <2>4, <4>3 DEF MemberOf
      <4>5. \A k \in DOMAIN stack' : Format(stack[k].content)' \in Archives
        BY <1>1, <4>3 DEF Format
      <4>6. QED
        BY <2>10, <4>1, <4>2, <4>4, <4>5 DEF ParentsInv, Waits
    <3>6. DiskInv'
      BY <2>10 DEF DiskInv
    <3>7. MembersInv'
      <4> SUFFICES ASSUME NEW q \in DOMAIN results, results'[q].unpacked,
                          Format(results[q].content) \in Archives,
                          NEW i \in 1..Len(Members(results[q].content)), Append(q, i) \notin DOMAIN results
                   PROVE  \E k \in DOMAIN stack' : stack'[k].path = q /\ stack'[k].next <= i
        BY <2>2, <2>3, <2>4 DEF MembersInv
      <4>1. CASE q = p
        BY <3>2, <3>4, <4>1
      <4>2. CASE q # p
        <5>1. PICK k \in DOMAIN stack : stack[k].path = q /\ stack[k].next <= i
          BY <2>3, <4>2 DEF VerdictTree, MembersInv
        <5>2. QED
          BY <3>4, <5>1
      <4>3. QED
        BY <4>1, <4>2
    <3>8. FoundInv'
      <4>1. ~Malicious(p)'
        <5>1. DiskAt(p)' = <<>>
          BY <2>1, <2>2, <2>4, <2>10, <3>1 DEF DiskAt
        <5>2. QED
          BY <2>10, <5>1 DEF Malicious
      <4>2. QED
        BY <2>2, <2>3, <2>5, <2>10, <4>1 DEF VerdictTree, FoundInv, InfectedAt, Waiting
    <3>9. HandedOnInv'
      <4>1. \A q : UnderWay(q) => UnderWay(q)'
        BY <3>4 DEF UnderWay
      <4>2. QED
        BY <2>2, <2>3, <4>1 DEF VerdictTree, HandedOnInv, InfectedAt
    <3>10. QED
      BY <2>6, <2>7, <2>10, <3>5, <3>6, <3>7, <3>8, <3>9 DEF VerdictTree
  <2>11. QED
    BY <1>3, <2>9, <2>10
<1>4. QED
  BY <1>1, <1>2, <1>3 DEF Reserve

\* An archive whose members all have their results takes over their verdict.
LEMMA VerdictOfEndArchive ==
  ASSUME TreeInv, VerdictTree, EndArchive
  PROVE  VerdictTree'
<1>0. PICK p : p = Around.path
  OBVIOUS
<1> DEFINE r == [results[p] EXCEPT !.verdict = IF AnyInfected(p) THEN "infected" ELSE @]
<1>1. /\ ScanTyped /\ ContentOK /\ StackInv /\ pc = "next" /\ pc' = "next"
      /\ stack # <<>> /\ stack \in Seq(FrameOf)
      /\ Around.next > Len(Members(Around.content))
      /\ SetResult(p, r) /\ stack' = Tail(stack)
      /\ UNCHANGED <<content, at, budget>>
  BY <1>0 DEF EndArchive, Go, TreeInv, ScanTyped
<1>2. /\ Around = stack[1] /\ 1 \in DOMAIN stack /\ Around \in FrameOf
  BY <1>1, StackPopped DEF Around
<1>3. /\ \A q \in DOMAIN results : q \in Seq(Nat) /\ results[q] \in ResultType
      /\ \A k \in DOMAIN stack : /\ stack[k].path \in DOMAIN results
                                 /\ results[stack[k].path].content = stack[k].content
                                 /\ results[stack[k].path].unpacked
                                 /\ Format(stack[k].content) \in Archives
  BY <1>1 DEF ScanTyped, StackInv, VerdictTree, ParentsInv
<1>4. /\ p \in DOMAIN results /\ p \in Seq(Nat) /\ results[p] \in ResultType
      /\ results[p].unpacked /\ Format(results[p].content) \in Archives
      /\ results[p].content = Around.content
  BY <1>0, <1>2, <1>3
<1>5. /\ r.content = results[p].content /\ r.unpacked = results[p].unpacked
      /\ r.failed = results[p].failed
      /\ r.verdict = IF AnyInfected(p) THEN "infected" ELSE results[p].verdict
  BY <1>4 DEF ResultType
<1> HIDE DEF r
<1>6. /\ DOMAIN results' = DOMAIN results /\ results'[p] = r
      /\ \A q \in DOMAIN results : q # p => results'[q] = results[q]
  BY <1>1, <1>4 DEF SetResult
<1>7. \A k \in DOMAIN stack : k # 1 => stack[k].path # p
  <2> SUFFICES ASSUME NEW k \in DOMAIN stack, k # 1, stack[k].path = p PROVE FALSE
    OBVIOUS
  <2>1. 1 < k
    BY <1>1
  <2>2. Inside(stack[k], p)
    BY <1>0, <1>1, <1>2, <2>1 DEF StackInv
  <2>3. Len(p) < Len(p) /\ Len(p) \in Nat
    BY <1>4, <2>2 DEF Inside, Under
  <2>4. QED
    BY <2>3
<1>8. /\ \A k \in DOMAIN stack' : k + 1 \in DOMAIN stack /\ stack'[k] = stack[k + 1] /\ k \in Nat
      /\ \A k \in DOMAIN stack : k # 1 => /\ k - 1 \in DOMAIN stack' /\ stack'[k - 1] = stack[k]
                                          /\ k \in Nat
  <2>1. DOMAIN stack = 1..Len(stack) /\ DOMAIN stack' = 1..(Len(stack) - 1) /\ Len(stack) \in Nat
    BY <1>1
  <2>2. \A k \in 1..(Len(stack) - 1) : stack'[k] = stack[k + 1]
    BY <1>1
  <2>3. \A k \in 1..Len(stack) : k # 1 => k - 1 \in 1..(Len(stack) - 1) /\ (k - 1) + 1 = k
    BY <2>1
  <2>4. \A k \in 1..Len(stack) : k # 1 => stack'[k - 1] = stack[k]
    BY <2>2, <2>3
  <2>5. QED
    BY <2>1, <2>2, <2>3, <2>4
<1>9. /\ \A x : Format(x)' = Format(x) /\ Members(x)' = Members(x) /\ (Composite(x)' <=> Composite(x))
      /\ \A q \in DOMAIN results : /\ results'[q].content = results[q].content
                                   /\ results'[q].unpacked = results[q].unpacked
                                   /\ results'[q].failed = results[q].failed
                                   /\ InfectedAt(q) => InfectedAt(q)'
                                   /\ q # p => (InfectedAt(q)' <=> InfectedAt(q))
  BY <1>1, <1>5, <1>6 DEF Format, Members, Composite, InfectedAt
<1>10. \A q \in DOMAIN results : Malicious(q)' <=> Malicious(q)
  BY <1>1, <1>9, SameDisk
<1>11. InfectedAt(p)' => InfectedAt(p) \/ AnyInfected(p)
  BY <1>5, <1>6 DEF InfectedAt
<1>12. AnyInfected(p) => InfectedAt(p)'
  BY <1>5, <1>6 DEF InfectedAt
<1>13. \A s \in DOMAIN results : \A q : MemberOf(s, q)' <=> MemberOf(s, q)
  BY <1>9 DEF MemberOf
<1>14. ParentsInv'
  <2>1. \A q \in DOMAIN results' : q = <<>> \/ \E s \in DOMAIN results' : MemberOf(s, q)'
    BY <1>6, <1>13 DEF VerdictTree, ParentsInv
  <2>2. ASSUME NEW k \in DOMAIN stack', stack'[k].path # <<>>
        PROVE  \E l \in DOMAIN stack' : k < l /\ MemberOf(stack'[l].path, stack'[k].path)
    <3>1. k + 1 \in DOMAIN stack /\ stack'[k] = stack[k + 1] /\ k \in Nat
      BY <1>8
    <3>2. PICK l \in DOMAIN stack : k + 1 < l /\ MemberOf(stack[l].path, stack[k + 1].path)
      BY <2>2, <3>1 DEF VerdictTree, ParentsInv
    <3>3. l # 1 /\ l \in Nat
      BY <1>1, <3>1, <3>2
    <3>4. l - 1 \in DOMAIN stack' /\ stack'[l - 1] = stack[l] /\ k < l - 1
      BY <1>8, <3>1, <3>2, <3>3
    <3>5. QED
      BY <3>1, <3>2, <3>4
  <2>3. \A k \in DOMAIN stack' : /\ Format(stack'[k].content) \in Archives
                                 /\ stack'[k].path \in DOMAIN results
    BY <1>3, <1>8
  <2>4. \A k, l \in DOMAIN stack' :
          MemberOf(stack'[l].path, stack'[k].path) => MemberOf(stack[l].path, stack[k].path)'
    BY <1>9, <2>3 DEF MemberOf
  <2>5. \A k \in DOMAIN stack' : Format(stack[k].content)' \in Archives
    BY <1>1, <2>3 DEF Format
  <2>6. QED
    BY <1>1, <2>1, <2>2, <2>4, <2>5 DEF ParentsInv, Waits
<1>15. DiskInv' /\ pc' # "done"
  BY <1>1 DEF DiskInv
<1>16. MembersInv'
  <2> SUFFICES ASSUME NEW q \in DOMAIN results, results[q].unpacked,
                      Format(results[q].content) \in Archives,
                      NEW i \in 1..Len(Members(results[q].content)), Append(q, i) \notin DOMAIN results
               PROVE  \E k \in DOMAIN stack' : stack'[k].path = q /\ stack'[k].next <= i
    BY <1>6, <1>9 DEF MembersInv
  <2>1. PICK k \in DOMAIN stack : stack[k].path = q /\ stack[k].next <= i
    BY DEF VerdictTree, MembersInv
  <2>2. k # 1
    BY <1>0, <1>1, <1>2, <1>4, <2>1 DEF FrameOf
  <2>3. QED
    BY <1>8, <2>1, <2>2
<1>17. UnscannedInv'
  BY <1>1, <1>6, <1>9 DEF VerdictTree, UnscannedInv, Waiting
<1>18. ReasonInv'
  <2>1. budget \in Charge /\ \A q \in DOMAIN results : results[q].content \in Contents
    BY <1>1, <1>3 DEF ScanTyped, ResultType
  <2>2. budget' \in Charge /\ budget.expanded <= budget'.expanded /\ budget.entries <= budget'.entries
    BY <1>1, <2>1 DEF Charge
  <2>3. \A q \in DOMAIN results : HasReason(q) => HasReason(q)'
    BY <1>1, <1>9, <2>1, <2>2, ReasonStays
  <2>4. QED
    BY <1>6, <1>9, <2>3 DEF VerdictTree, ReasonInv
\* What is not on its way has its result.
<1>19. \A i \in 1..Len(Members(results[p].content)) : Append(p, i) \in DOMAIN results
  <2> SUFFICES ASSUME NEW i \in 1..Len(Members(results[p].content)), Append(p, i) \notin DOMAIN results
               PROVE  FALSE
    OBVIOUS
  <2>1. PICK k \in DOMAIN stack : stack[k].path = p /\ stack[k].next <= i
    BY <1>4 DEF VerdictTree, MembersInv
  <2>2. k = 1
    BY <1>7, <2>1
  <2>3. QED
    BY <1>1, <1>2, <1>4, <2>1, <2>2 DEF FrameOf
<1>20. SourceInv'
  <2> SUFFICES ASSUME NEW q \in DOMAIN results, InfectedAt(q)'
               PROVE  \E s \in DOMAIN results : IsPrefix(q, s) /\ Malicious(s)
    BY <1>6, <1>10 DEF SourceInv
  <2>1. CASE InfectedAt(q)
    BY <2>1 DEF VerdictTree, SourceInv
  <2>2. CASE q = p /\ AnyInfected(p)
    <3>1. PICK i \in 1..Len(Members(results[p].content)) : InfectedAt(Append(p, i))
      BY <2>2 DEF AnyInfected, InfectedAt
    <3>2. PICK s \in DOMAIN results : IsPrefix(Append(p, i), s) /\ Malicious(s)
      BY <1>19, <3>1 DEF VerdictTree, SourceInv
    <3>3. s \in Seq(Nat) /\ i \in Nat
      BY <1>3
    <3>4. QED
      BY <1>4, <2>2, <3>2, <3>3, PrefixOfMember
  <2>3. QED
    BY <1>9, <1>11, <2>1, <2>2
<1>21. FoundInv'
  BY <1>1, <1>6, <1>9, <1>10 DEF VerdictTree, FoundInv, Waiting, Waits
<1>22. HandedOnInv'
  <2> SUFFICES ASSUME NEW q \in DOMAIN results, NEW i \in Nat, Append(q, i) \in DOMAIN results,
                      InfectedAt(Append(q, i))', ~InfectedAt(q)'
               PROVE  \E k \in DOMAIN stack' : stack'[k].path = q
    BY <1>6 DEF HandedOnInv, UnderWay
  <2>1. PICK s \in DOMAIN results : MemberOf(s, Append(q, i))
    BY <1>3, MemberNotRoot DEF VerdictTree, ParentsInv
  <2>2. PICK j \in 1..Len(Members(results[s].content)) : Append(q, i) = Append(s, j)
    BY <2>1 DEF MemberOf
  <2>3. s = q /\ j = i
    BY <1>3, <2>2, SameParent
  <2>4. CASE InfectedAt(Append(q, i))
    <3>1. q # p
      BY <1>12, <2>2, <2>3, <2>4 DEF AnyInfected, InfectedAt
    <3>2. ~InfectedAt(q)
      BY <1>9
    <3>3. PICK k \in DOMAIN stack : stack[k].path = q
      BY <2>4, <3>2 DEF VerdictTree, HandedOnInv, UnderWay
    <3>4. k # 1
      BY <1>0, <1>2, <3>1, <3>3
    <3>5. QED
      BY <1>8, <3>3, <3>4
  <2>5. CASE Append(q, i) = p
    <3>1. p # <<>>
      BY <1>3, <2>5, MemberNotRoot
    <3>2. PICK l \in DOMAIN stack : 1 < l /\ MemberOf(stack[l].path, p)
      BY <1>0, <1>2, <3>1 DEF VerdictTree, ParentsInv
    <3>3. PICK m \in 1..Len(Members(results[stack[l].path].content)) : p = Append(stack[l].path, m)
      BY <3>2 DEF MemberOf
    <3>4. stack[l].path \in Seq(Nat) /\ m \in Nat /\ l # 1
      BY <1>1, <1>3, <3>2
    <3>5. stack[l].path = q
      <4>1. Append(stack[l].path, m) = Append(q, i) /\ q \in Seq(Nat)
        BY <1>3, <2>5, <3>3
      <4>2. QED
        BY <3>4, <4>1, SameParent
    <3>6. QED
      BY <1>8, <3>4, <3>5
  <2>6. QED
    BY <1>9, <2>4, <2>5
<1>23. QED
  BY <1>14, <1>15, <1>16, <1>17, <1>18, <1>20, <1>21, <1>22 DEF VerdictTree

\* The submitted file's result.
LEMMA VerdictOfOpenFile ==
  ASSUME TreeInv, VerdictTree, OpenFile
  PROVE  VerdictTree'
<1>1. /\ pc' = "payload" /\ stack = <<>> /\ stack' = <<>> /\ at'.path = <<>>
      /\ SetResult(<<>>, NewResult(Submitted)) /\ DOMAIN results = {}
  BY DEF OpenFile, Go, TreeInv, AtInv
<1>2. /\ DOMAIN results' = {<<>>} /\ results'[<<>>] = NewResult(Submitted)
      /\ NewResult(Submitted).verdict = "unknown" /\ NewResult(Submitted).unpacked = FALSE
      /\ NewResult(Submitted).failed = FALSE
  BY <1>1 DEF SetResult, NewResult
<1>3. ParentsInv' /\ DiskInv' /\ MembersInv' /\ pc' # "done"
  BY <1>1, <1>2 DEF ParentsInv, DiskInv, MembersInv
<1>4. UnscannedInv' /\ ReasonInv' /\ SourceInv' /\ FoundInv'
  BY <1>1, <1>2 DEF UnscannedInv, ReasonInv, SourceInv, FoundInv, Waiting, Waits, InfectedAt
<1>5. HandedOnInv'
  <2>1. \A i \in Nat : Append(<<>>, i) # <<>>
    BY MemberNotRoot
  <2>2. QED
    BY <1>2, <2>1 DEF HandedOnInv
<1>6. QED
  BY <1>3, <1>4, <1>5 DEF VerdictTree

\* The next member's result.
LEMMA VerdictOfNextMember ==
  ASSUME TreeInv, TreeInv', VerdictTree, NextMember
  PROVE  VerdictTree'
<1>0. PICK a \in FrameOf, b \in FrameOf, c \in Contents, i \in Nat \ {0}, p \in Seq(Nat) :
        Advances(a, b, c, i, p)
  BY NextMemberEffect
<1>1. /\ pc = "next" /\ pc' = "payload" /\ UNCHANGED <<content, budget>>
      /\ at'.path = p /\ at'.content = c /\ p = Append(a.path, i)
      /\ i <= Len(Members(a.content)) /\ i \in Nat /\ i \in 1..Len(Members(a.content))
  <2>1. /\ pc = "next" /\ pc' = "payload" /\ UNCHANGED <<content, budget>>
        /\ at'.path = p /\ at'.content = c /\ p = Append(a.path, i)
        /\ i <= Len(Members(a.content)) /\ i \in Nat \ {0} /\ a.content \in Contents
    BY <1>0 DEF Advances
  <2>2. Members(a.content) \in Seq(Contents)
    BY <2>1 DEF TreeInv, ContentOK
  <2>3. QED
    BY <2>1, <2>2
<1>2. /\ stack \in Seq(FrameOf) /\ 1 \in DOMAIN stack /\ a = stack[1]
      /\ a.path \in Seq(Nat) /\ a.content \in Contents /\ i = a.next
      /\ b.path = a.path /\ b.content = a.content /\ b.next = i + 1
      /\ DOMAIN stack' = DOMAIN stack /\ stack'[1] = b
      /\ \A k \in DOMAIN stack : k \in Nat \ {0} /\ (k # 1 => stack'[k] = stack[k])
  BY <1>0 DEF Advances
<1>3. /\ p \notin DOMAIN results /\ DOMAIN results' = DOMAIN results \cup {p}
      /\ results'[p] = NewResult(c) /\ results'[p].content = c /\ results'[p].unpacked = FALSE
      /\ \A q \in DOMAIN results : results'[q] = results[q]
  BY <1>0 DEF Advances
<1>4. results'[p].verdict # "infected" /\ ~results'[p].failed
  BY <1>3 DEF NewResult
<1>5. /\ \A q \in DOMAIN results : q \in Seq(Nat) /\ results[q] \in ResultType
      /\ \A k \in DOMAIN stack : /\ stack[k].path \in DOMAIN results
                                 /\ results[stack[k].path].content = stack[k].content
                                 /\ Format(stack[k].content) \in Archives
  BY DEF TreeInv, ScanTyped, StackInv, VerdictTree, ParentsInv
<1>6. \A k \in DOMAIN stack : stack'[k].path = stack[k].path /\ stack'[k].content = stack[k].content
  BY <1>2
<1>7. /\ \A x : Format(x)' = Format(x) /\ Members(x)' = Members(x) /\ (Composite(x)' <=> Composite(x))
      /\ \A s \in DOMAIN results : \A q : MemberOf(s, q)' <=> MemberOf(s, q)
      /\ \A q \in DOMAIN results : Malicious(q)' <=> Malicious(q)
      /\ \A q \in DOMAIN results : InfectedAt(q)' <=> InfectedAt(q)
  <2>1. \A x : Format(x)' = Format(x) /\ Members(x)' = Members(x) /\ (Composite(x)' <=> Composite(x))
    BY <1>1 DEF Format, Members, Composite
  <2>2. \A s \in DOMAIN results : \A q : MemberOf(s, q)' <=> MemberOf(s, q)
    BY <1>3, <2>1 DEF MemberOf
  <2>3. \A q \in DOMAIN results : Malicious(q)' <=> Malicious(q)
    BY <1>1, <1>3, SameDisk
  <2>4. \A q \in DOMAIN results : InfectedAt(q)' <=> InfectedAt(q)
    BY <1>3 DEF InfectedAt
  <2>5. QED
    BY <2>1, <2>2, <2>3, <2>4
<1>8. MemberOf(a.path, p)
  BY <1>1, <1>2, <1>5 DEF MemberOf
<1>9. ParentsInv'
  <2>1. \A q \in DOMAIN results' : q = <<>> \/ \E s \in DOMAIN results' : MemberOf(s, q)'
    <3>1. MemberOf(a.path, p)' /\ a.path \in DOMAIN results
      BY <1>2, <1>5, <1>7, <1>8
    <3>2. QED
      BY <1>3, <1>7, <3>1 DEF VerdictTree, ParentsInv
  <2>2. \A k \in DOMAIN stack : stack'[k].path = <<>>
          \/ \E l \in DOMAIN stack : k < l /\ MemberOf(stack'[l].path, stack'[k].path)
    BY <1>6 DEF VerdictTree, ParentsInv
  <2>3. MemberOf(stack'[1].path, at'.path)
    BY <1>1, <1>2, <1>8
  <2>4. \A k \in DOMAIN stack' : \A q :
          MemberOf(stack'[k].path, q) => MemberOf(stack[k].path, q)'
    <3>1. \A k \in DOMAIN stack' : stack'[k].path \in DOMAIN results
      BY <1>2, <1>5, <1>6
    <3>2. \A s \in DOMAIN results : Members(results[s].content)' = Members(results[s].content)
      BY <1>3, <1>7
    <3>3. QED
      BY <3>1, <3>2 DEF MemberOf
  <2>5. \A k \in DOMAIN stack' : Format(stack[k].content)' \in Archives
    BY <1>1, <1>2, <1>5, <1>6 DEF Format
  <2>6. QED
    BY <1>2, <2>1, <2>2, <2>3, <2>4, <2>5 DEF ParentsInv
<1>10. DiskInv' /\ pc' # "done"
  BY <1>1 DEF DiskInv
<1>11. MembersInv'
  <2> SUFFICES ASSUME NEW q \in DOMAIN results, results[q].unpacked,
                      Format(results[q].content) \in Archives,
                      NEW j \in 1..Len(Members(results[q].content)), Append(q, j) \notin DOMAIN results'
               PROVE  \E k \in DOMAIN stack' : stack'[k].path = q /\ stack'[k].next <= j
    BY <1>3, <1>7 DEF MembersInv
  <2>1. PICK k \in DOMAIN stack : stack[k].path = q /\ stack[k].next <= j
    BY <1>3 DEF VerdictTree, MembersInv
  <2>2. CASE k = 1
    <3>1. i <= j /\ j # i
      BY <1>1, <1>2, <1>3, <2>1, <2>2
    <3>2. i + 1 <= j
      BY <1>1, <3>1
    <3>3. QED
      BY <1>2, <2>1, <2>2, <3>2
  <2>3. CASE k # 1
    BY <1>2, <2>1, <2>3
  <2>4. QED
    BY <2>2, <2>3
<1>12. UnscannedInv'
  <2>1. Waiting(at.path)'
    BY <1>1 DEF Waiting, Waits
  <2>2. \A q \in DOMAIN results : Composite(results[q].content) => results[q].unpacked \/ results[q].failed
    BY <1>1 DEF VerdictTree, UnscannedInv, Waiting, Waits
  <2>3. QED
    BY <1>1, <1>3, <1>7, <2>2 DEF UnscannedInv, Waiting, Waits
<1>13. ReasonInv'
  <2>1. /\ ContentOK /\ budget \in Charge /\ budget' \in Charge
        /\ \A q \in DOMAIN results : results[q].content \in Contents
    BY <1>5 DEF TreeInv, ScanTyped, ResultType
  <2>2. budget.expanded <= budget'.expanded /\ budget.entries <= budget'.entries
    BY <1>1, <2>1 DEF Charge
  <2>3. \A q \in DOMAIN results : HasReason(q) => HasReason(q)'
    BY <1>1, <1>3, <2>1, <2>2, ReasonStays
  <2>4. QED
    BY <1>3, <1>4, <2>3 DEF VerdictTree, ReasonInv
<1>14. SourceInv'
  <2>1. \A q \in DOMAIN results' : InfectedAt(q)' => q \in DOMAIN results
    BY <1>3, <1>4 DEF InfectedAt
  <2>2. QED
    BY <1>3, <1>7, <2>1 DEF VerdictTree, SourceInv
<1>15. FoundInv'
  <2>1. \A q \in DOMAIN results : Malicious(q) => InfectedAt(q)
    BY <1>1 DEF VerdictTree, FoundInv, Waiting, Waits
  <2>2. QED
    BY <1>1, <1>3, <1>7, <2>1 DEF FoundInv, Waiting, Waits
<1>16. HandedOnInv'
  <2> SUFFICES ASSUME NEW q \in DOMAIN results', NEW j \in Nat, Append(q, j) \in DOMAIN results',
                      InfectedAt(Append(q, j))', ~InfectedAt(q)'
               PROVE  \E k \in DOMAIN stack' : stack'[k].path = q
    BY DEF HandedOnInv, UnderWay
  <2>1. Append(q, j) \in DOMAIN results
    BY <1>3, <1>4 DEF InfectedAt
  <2>2. q # p
    <3>1. \A r \in DOMAIN results' : ~Under(p, j, r)
      BY <1>1 DEF TreeInv, AtInv
    <3>2. Under(p, j, Append(p, j))
      BY MemberPath
    <3>3. QED
      BY <1>3, <2>1, <3>1, <3>2
  <2>3. q \in DOMAIN results /\ InfectedAt(Append(q, j)) /\ ~InfectedAt(q)
    BY <1>3, <1>7, <2>1, <2>2
  <2>4. PICK k \in DOMAIN stack : stack[k].path = q
    BY <2>1, <2>3 DEF VerdictTree, HandedOnInv, UnderWay
  <2>5. QED
    BY <1>2, <1>6, <2>4
<1>17. QED
  BY <1>9, <1>10, <1>11, <1>12, <1>13, <1>14, <1>15, <1>16 DEF VerdictTree

LEMMA VerdictInit == ScanInit => VerdictInv
<1> SUFFICES ASSUME ScanInit PROVE VerdictInv
  OBVIOUS
<1>1. /\ pc = "open" /\ stack = <<>> /\ DOMAIN results = {}
      /\ \E k \in Cases : content = k.content
  BY DEF ScanInit
<1>2. ImagesOK
  BY <1>1, CasesAssumption DEF ImagesOK, Format, Members
<1>3. ParentsInv /\ DiskInv /\ MembersInv /\ UnscannedInv
  BY <1>1 DEF ParentsInv, DiskInv, MembersInv, UnscannedInv, Waits
<1>4. ReasonInv /\ SourceInv /\ FoundInv /\ HandedOnInv
  BY <1>1 DEF ReasonInv, SourceInv, FoundInv, HandedOnInv
<1>5. QED
  BY <1>1, <1>2, <1>3, <1>4 DEF VerdictInv, VerdictTree

LEMMA VerdictUnchanged ==
  ASSUME TreeInv, TreeInv', VerdictTree, UNCHANGED scanVars
  PROVE  VerdictTree'
<1>1. UNCHANGED <<content, pc, at, stack, budget, results>>
  BY DEF scanVars, scan
<1>2. SameResults /\ \A q : (InfectedAt(q)' <=> InfectedAt(q))
  BY <1>1 DEF SameResults, InfectedAt, TreeInv, ScanTyped
<1>3. DiskInv'
  BY <1>1 DEF VerdictTree, DiskInv, Composite, Format, Members, DiskAt
<1>4. QED
  BY <1>1, <1>2, <1>3, VerdictMarked DEF VerdictTree

LEMMA VerdictStep == BudgetInv /\ VerdictInv /\ [ScanNext]_scanVars => VerdictInv'
<1> SUFFICES ASSUME BudgetInv, VerdictInv, [ScanNext]_scanVars PROVE VerdictInv'
  OBVIOUS
<1>1. TreeInv /\ TreeInv'
  BY BudgetStep DEF BudgetInv
<1>2. content' = content
  BY DEF ScanNext, OpenFile, ScanOpaque, ScanDisk, ScanPreserved, Unpack, FailToUnpack, Reserve,
         AnalyzeDisk, WalkDisk, WalkEnds, NextMember, EndArchive, Finish, scanVars
<1>3. ImagesOK'
  BY <1>2 DEF VerdictInv, ImagesOK, Format, Members
<1>4. ASSUME pc' # "failed" PROVE VerdictTree'
  <2>1. pc # "failed"
    BY <1>4 DEF ScanNext, OpenFile, ScanOpaque, ScanDisk, ScanPreserved, Unpack, FailToUnpack,
                Reserve, AnalyzeDisk, WalkDisk, WalkEnds, NextMember, EndArchive, Finish, Go,
                scanVars, scan
  <2>2. VerdictTree /\ ImagesOK
    BY <2>1 DEF VerdictInv
  <2>3. QED
    BY <1>1, <1>4, <2>2, VerdictOfOpenFile, VerdictOfMarks, VerdictOfReserve,
       VerdictOfNextMember, VerdictOfEndArchive, VerdictUnchanged DEF ScanNext
<1>5. QED
  BY <1>3, <1>4 DEF VerdictInv

-----------------------------------------------------------------------------
\* What is found below a path reaches it: the shortest part of q's path, from p on,
\* that is infected is p itself.
LEMMA HandedUp ==
  ASSUME TreeInv, VerdictTree, pc = "done", NEW p \in DOMAIN results, NEW q \in DOMAIN results,
         IsPrefix(p, q), InfectedAt(q)
  PROVE  InfectedAt(p)
<1>1. /\ p \in Seq(Nat) /\ q \in Seq(Nat) /\ stack = <<>>
      /\ \A r \in DOMAIN results : r \in Seq(Nat)
  BY DEF TreeInv, ScanTyped, VerdictTree
<1> DEFINE part(n) == SubSeq(q, 1, n)
           S == {n \in Nat : Len(p) <= n /\ n <= Len(q)
                             /\ part(n) \in DOMAIN results /\ InfectedAt(part(n))}
<1>2. Len(p) <= Len(q) /\ part(Len(p)) = p /\ Len(p) \in Nat /\ Len(q) \in Nat /\ part(Len(q)) = q
  <2>1. Len(p) <= Len(q) /\ SubSeq(p, 1, Len(p)) = SubSeq(q, 1, Len(p))
    BY DEF IsPrefix
  <2>2. SubSeq(p, 1, Len(p)) = p /\ SubSeq(q, 1, Len(q)) = q
    BY <1>1
  <2>3. QED
    BY <1>1, <2>1, <2>2
<1> HIDE DEF part
<1>3. Len(q) \in S
  BY <1>2
<1>4. PICK n \in S : \A m \in S : n <= m
  BY <1>3, LeastNumber
<1>5. n \in Nat /\ Len(p) <= n /\ n <= Len(q) /\ part(n) \in DOMAIN results /\ InfectedAt(part(n))
  BY <1>4
<1>6. CASE n = Len(p)
  BY <1>2, <1>5, <1>6
<1>7. CASE n # Len(p)
  <2>1. n - 1 \in Nat /\ Len(p) <= n - 1 /\ n - 1 <= Len(q) /\ n \in 1..Len(q)
    BY <1>2, <1>5, <1>7
  <2>2. part(n) = Append(part(n - 1), q[n]) /\ part(n - 1) \in Seq(Nat) /\ q[n] \in Nat
    BY <1>1, <1>2, <2>1, PartOf DEF part
  <2>3. PICK r \in DOMAIN results : MemberOf(r, part(n))
    BY <1>5, <2>2, MemberNotRoot DEF VerdictTree, ParentsInv
  <2>4. PICK i \in 1..Len(Members(results[r].content)) : part(n) = Append(r, i)
    BY <2>3 DEF MemberOf
  <2>5. r = part(n - 1)
    <3>1. Append(part(n - 1), q[n]) = Append(r, i)
      BY <2>2, <2>4
    <3>2. i \in Nat
      OBVIOUS
    <3>3. r \in Seq(Nat)
      BY <1>1
    <3>4. QED
      BY <2>2, <3>1, <3>2, <3>3, SameParent
  <2>6. ~UnderWay(r)
    BY <1>1 DEF UnderWay
  <2>7. InfectedAt(r)
    BY <1>5, <2>2, <2>5, <2>6 DEF VerdictTree, HandedOnInv
  <2>8. n - 1 \in S
    BY <2>1, <2>5, <2>7
  <2>9. QED
    BY <1>4, <1>5, <2>8
<1>8. QED
  BY <1>6, <1>7

LEMMA VerdictsHold == TreeInv /\ VerdictInv => VerdictsAgree
<1> SUFFICES ASSUME TreeInv, VerdictTree, pc = "done", NEW p \in DOMAIN results
             PROVE  /\ results[p].verdict = "infected"
                         <=> \E q \in DOMAIN results : IsPrefix(p, q) /\ Malicious(q)
                    /\ results[p].unpacked /\ Format(results[p].content) \in Archives =>
                         \A i \in 1..Len(Members(results[p].content)) : Append(p, i) \in DOMAIN results
                    /\ Format(results[p].content) \in Archives \cup Packed =>
                         results[p].unpacked \/ results[p].failed
                    /\ results[p].failed => HasReason(p)
  BY DEF VerdictInv, VerdictsAgree
<1>1. stack = <<>> /\ \A q : ~Waiting(q)
  BY DEF VerdictTree, Waiting, Waits
<1>2. InfectedAt(p) => \E q \in DOMAIN results : IsPrefix(p, q) /\ Malicious(q)
  BY DEF VerdictTree, SourceInv
<1>3. ASSUME NEW q \in DOMAIN results, IsPrefix(p, q), Malicious(q) PROVE InfectedAt(p)
  <2>1. InfectedAt(q)
    BY <1>1, <1>3 DEF VerdictTree, FoundInv
  <2>2. QED
    BY <1>3, <2>1, HandedUp
<1>4. results[p].unpacked /\ Format(results[p].content) \in Archives =>
        \A i \in 1..Len(Members(results[p].content)) : Append(p, i) \in DOMAIN results
  BY <1>1 DEF VerdictTree, MembersInv
<1>5. Format(results[p].content) \in Archives \cup Packed => results[p].unpacked \/ results[p].failed
  BY <1>1 DEF VerdictTree, UnscannedInv, Composite
<1>6. results[p].failed => HasReason(p)
  BY DEF VerdictTree, ReasonInv
<1>7. QED
  BY <1>2, <1>3, <1>4, <1>5, <1>6 DEF InfectedAt

(* A finished scan says "infected" of a file, an archive or a member exactly   *)
(* if a disk below it has a malicious boot block, shows every member of what   *)
(* it unpacked, and marks what it did not unpack for one of the code's reasons *)
(* (scanArchiveMembersDepth, scanMemberPayload, propagateMemberVerdict).       *)
THEOREM FinishedVerdictsAgree == ScanSpec => []VerdictsAgree
<1>1. BudgetInv /\ VerdictInv /\ [ScanNext]_scanVars => BudgetInv' /\ VerdictInv'
  BY BudgetStep, VerdictStep
<1>2. ScanInit => BudgetInv /\ VerdictInv
  BY BudgetInit, VerdictInit
<1>3. BudgetInv /\ VerdictInv => VerdictsAgree
  BY VerdictsHold DEF BudgetInv
<1>4. QED
  BY <1>1, <1>2, <1>3, PTL DEF ScanSpec
=============================================================================
