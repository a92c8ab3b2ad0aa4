------------------------ MODULE TrustInstallProofs ------------------------
(* What holds of the trust store for any set of signed updates and any number  *)
(* of kills, power losses and failing calls, as long as one installer runs at  *)
(* a time: nothing in the command takes a lock, and two of them can take the   *)
(* pointer back. The invariant says what each file may be found as after a     *)
(* power loss, and that an installer between its gate and its rename is ahead  *)
(* of every pointer the disk may still show.                                   *)
EXTENDS TrustInstall, TLAPS

OneInstaller == \A i, j \in Installers : i = j

\* What a power loss may leave includes what processes see.
DiskInv == /\ \A s \in Seqs : store[s] \in diskStore[s]
           /\ state \in diskState

\* The pointers on disk are those of one root key, and none is ahead of the state.
PointerInv == \A p \in diskState : /\ Seq(p) <= Seq(state)
                                   /\ p # NoState => state # NoState /\ p.root = state.root

\* An installer has passed the gate, and knows what it has written.
JobOK(i) ==
  /\ pc[i] \in {"make", "open", "write", "fsync", "unlink", "syncstore", "rename"} =>
       /\ job[i].seq > Seq(state)
       /\ state # NoState => job[i].root = state.root
  /\ pc[i] \in {"fsync", "syncstore", "rename", "syncstate", "report"} =>
       store[job[i].seq] = job[i].store
  /\ pc[i] \in {"syncstate", "report"} => state = job[i]
  /\ pc[i] = "report" => diskState = {job[i]}
JobInv == \A i \in Installers : JobOK(i)

\* Unless a command was killed, a store that is there with its bytes and that
\* nobody is writing has none but those on disk; the ones a pointer names, or an
\* installer is about to name, are there for good.
Writing(s) == \E i \in Installers : pc[i] \in {"write", "fsync", "unlink"} /\ job[i].seq = s
DurableInv == kills = 0 =>
  /\ \A s \in Seqs : store[s] \in Stores /\ ~Writing(s) => diskStore[s] \subseteq {Absent, store[s]}
  /\ \A p \in diskState : p # NoState => diskStore[p.seq] = {p.store}
  /\ \A i \in Installers : pc[i] = "rename" => diskStore[job[i].seq] = {job[i].store}
  /\ \A u \in Owed : diskStore[u.seq] = {u.store}

IInv == /\ TypeOK /\ DiskInv /\ PointerInv /\ JobInv /\ DurableInv
        /\ ConfirmedNeverRolledBack /\ ConfirmedStoresKept /\ OneInterruptionIsSurvived

-----------------------------------------------------------------------------
LEMMA MarksApart ==
  /\ Absent \notin Stores /\ Partial \notin Stores /\ Absent # Partial /\ NoState \notin Updates
  /\ Absent \in Files /\ Partial \in Files /\ Stores \subseteq Files
BY MarksAssumption DEF Files

LEMMA UpdateType ==
  ASSUME NEW u \in Updates
  PROVE  /\ u.seq \in Seqs /\ u.seq \in Nat \ {0} /\ u.store \in Stores
         /\ u # NoState /\ Seq(u) = u.seq /\ u \in Pointers
<1>1. u.seq \in Seqs /\ u.store \in Stores
  BY DEF Seqs, Stores
<1>2. u # NoState
  BY MarksApart
<1>3. QED
  BY <1>1, <1>2, SequencesAssumption DEF Seq, Pointers

LEMMA SeqType ==
  ASSUME NEW p \in Pointers
  PROVE  Seq(p) \in Nat /\ (p # NoState => p \in Updates) /\ (p = NoState => Seq(p) = 0)
<1>1. p # NoState => p \in Updates
  BY DEF Pointers
<1>2. QED
  BY <1>1, UpdateType DEF Seq

\* A command under way installs an update, and it is the only one.
LEMMA JobType ==
  ASSUME TypeOK, NEW i \in Installers, pc[i] # "idle"
  PROVE  /\ job[i] \in Updates /\ job[i].seq \in Seqs /\ job[i].seq \in Nat \ {0}
         /\ job[i].store \in Stores /\ job[i] # NoState /\ Seq(job[i]) = job[i].seq
<1>1. job[i] \in Updates
  BY DEF TypeOK, Pointers
<1>2. QED
  BY <1>1, UpdateType

\* The effect of the directory's fsync.
LEMMA Synced ==
  ASSUME TypeOK, DiskInv, SyncDirectory
  PROVE  /\ store' = store /\ state' = state /\ diskState' = {state}
         /\ diskStore' \in [Seqs -> (SUBSET Files) \ {{}}]
         /\ \A s \in Seqs : /\ store[s] \in diskStore'[s] /\ diskStore'[s] \subseteq diskStore[s]
                            /\ store[s] # Absent => Absent \notin diskStore'[s]
<1>1. /\ store' = store /\ state' = state /\ diskState' = {state}
      /\ diskStore' = [s \in Seqs |-> IF store[s] = Absent THEN {Absent}
                                       ELSE diskStore[s] \ {Absent}]
  BY DEF SyncDirectory
<1>2. ASSUME NEW s \in Seqs
      PROVE  /\ store[s] \in diskStore'[s] /\ diskStore'[s] \subseteq diskStore[s]
             /\ store[s] # Absent => Absent \notin diskStore'[s]
             /\ diskStore'[s] \in SUBSET Files
  BY <1>1 DEF TypeOK, DiskInv
<1>3. diskStore' \in [Seqs -> (SUBSET Files) \ {{}}]
  BY <1>1, <1>2
<1>4. QED
  BY <1>1, <1>2, <1>3

\* What is owed was confirmed; a step that tells nothing leaves it alone.
LEMMA OwedType == TypeOK => Owed \subseteq Updates
BY DEF TypeOK, Owed

LEMMA OwedStays == UNCHANGED told => Owed' = Owed
BY DEF told, Owed

\* The effect of a power loss: every name shows one of the contents it may have,
\* or the whole directory is gone.
Kept == /\ \A s \in Seqs : store'[s] \in diskStore[s]
        /\ state' \in diskState
        /\ Owed' = Owed
Gone == /\ \A s \in Seqs : store'[s] = Absent
        /\ state' = NoState
        /\ Owed' = {}

LEMMA Lost ==
  ASSUME TypeOK, PowerLoss
  PROVE  /\ store' \in [Seqs -> Files] /\ diskStore' \in [Seqs -> (SUBSET Files) \ {{}}]
         /\ \A s \in Seqs : diskStore'[s] = {store'[s]}
         /\ diskState' = {state'} /\ state' \in Pointers
         /\ Kept \/ Gone
         /\ pc' \in [Installers -> PCs] /\ job' \in [Installers -> Pointers]
         /\ \A i \in Installers : pc'[i] = "idle"
         /\ kills' = kills /\ losses' = losses + 1 /\ losses' # 0
         /\ directory' \in {"absent", "made", "durable"}
         /\ confirmed' \subseteq Updates /\ taken' \subseteq confirmed'
<1>1. /\ pc' = [i \in Installers |-> "idle"] /\ job' = [i \in Installers |-> NoState]
      /\ losses' = losses + 1 /\ kills' = kills
      /\ Survives \/ Vanishes
  BY DEF PowerLoss
<1>2. pc' \in [Installers -> PCs] /\ job' \in [Installers -> Pointers]
  BY <1>1 DEF PCs, Pointers
<1>3. losses + 1 # 0
  BY BoundsAssumption DEF TypeOK
<1>l. kills' = kills /\ losses' = losses + 1 /\ losses' # 0
  BY <1>1, <1>3
<1>i. \A i \in Installers : pc'[i] = "idle"
  BY <1>1
<1>4. CASE Survives
  <2>1. PICK left \in [Seqs -> Files] : /\ \A s \in Seqs : left[s] \in diskStore[s]
                                        /\ store' = left
                                        /\ diskStore' = [s \in Seqs |-> {left[s]}]
    BY <1>4 DEF Survives
  <2>2. diskStore' \in [Seqs -> (SUBSET Files) \ {{}}] /\ store' \in [Seqs -> Files]
    BY <2>1
  <2>3. \A s \in Seqs : store'[s] \in diskStore[s] /\ diskStore'[s] = {store'[s]}
    BY <2>1
  <2>4. state' \in diskState /\ diskState' = {state'} /\ state' \in Pointers
    BY <1>4 DEF Survives, TypeOK
  <2>5. /\ directory' \in {"absent", "made", "durable"}
        /\ confirmed' \subseteq Updates /\ taken' \subseteq confirmed'
    BY <1>4 DEF Survives, TypeOK, told
  <2>6. Kept
    BY <1>4, <2>3, <2>4, OwedStays DEF Survives, Kept
  <2>7. Kept \/ Gone
    BY <2>6
  <2>8. QED
    BY <1>2, <1>i, <1>l, <2>2, <2>3, <2>4, <2>5, <2>7
<1>5. CASE Vanishes
  <2>1. /\ store' = [s \in Seqs |-> Absent] /\ diskStore' = [s \in Seqs |-> {Absent}]
        /\ state' = NoState /\ diskState' = {NoState} /\ directory' = "absent"
        /\ confirmed' = confirmed /\ taken' = confirmed
    BY <1>5 DEF Vanishes
  <2>2. diskStore' \in [Seqs -> (SUBSET Files) \ {{}}] /\ store' \in [Seqs -> Files]
    BY <2>1, MarksApart
  <2>3. \A s \in Seqs : store'[s] = Absent /\ diskStore'[s] = {store'[s]}
    BY <2>1
  <2>4. Owed' = {}
    BY <2>1 DEF Owed
  <2>5. state' \in Pointers /\ confirmed' \subseteq Updates /\ taken' \subseteq confirmed'
    BY <2>1 DEF TypeOK, Pointers
  <2>6. Kept \/ Gone
    BY <2>1, <2>3, <2>4 DEF Gone
  <2>7. QED
    BY <1>2, <1>i, <1>l, <2>1, <2>2, <2>3, <2>5, <2>6
<1>6. QED
  BY <1>1, <1>4, <1>5

LEMMA OwedGrows ==
  ASSUME TypeOK, NEW i \in Installers, Report(i)
  PROVE  Owed' = Owed \cup {job[i]}
<1>1. confirmed' = confirmed \cup {job[i]} /\ taken' = taken \ {job[i]}
  BY DEF Report
<1>2. taken \subseteq confirmed
  BY DEF TypeOK
<1>3. QED
  BY <1>1, <1>2 DEF Owed

\* A command that ends.
LEMMA Stopped ==
  ASSUME TypeOK, NEW i \in Installers, Stop(i)
  PROVE  /\ pc' \in [Installers -> PCs] /\ job' \in [Installers -> Pointers]
         /\ pc'[i] = "idle"
         /\ \A j \in Installers : pc'[j] # "idle" => job'[j] # NoState
<1>1. pc' = [pc EXCEPT ![i] = "idle"] /\ job' = [job EXCEPT ![i] = NoState]
  BY DEF Stop
<1>2. QED
  BY <1>1 DEF TypeOK, PCs, Pointers

-----------------------------------------------------------------------------
\* The steps that leave the files and the report alone.
Ends(i) == Conflict(i) \/ Fail(i) \/ Kill(i)
Begins(i) == \E u \in Updates : Load(i, u)

LEMMA StepCases ==
  ASSUME NEW i \in Installers, Step(i)
  PROVE  \/ Begins(i) \/ MakeDirectory(i) \/ Create(i) \/ Confirm(i) \/ Ends(i) \/ Write(i) \/ Fsync(i)
         \/ WriteFails(i) \/ Unlink(i) \/ SyncStore(i) \/ Rename(i) \/ SyncState(i) \/ Report(i)
BY DEF Step, Begins, Ends

LEMMA EndsEffect ==
  ASSUME TypeOK, NEW i \in Installers, Ends(i)
  PROVE  /\ Stop(i) /\ UNCHANGED <<contents, directory, told, Owed, losses>> /\ pc[i] # "idle"
         /\ kills' = kills \/ kills' # 0
         /\ kills' \in 0..MaxKills /\ faults' \in 0..MaxFaults
<1>1. kills \in 0..MaxKills /\ faults \in 0..MaxFaults
  BY DEF TypeOK
<1>2. CASE Conflict(i)
  BY <1>1, <1>2, OwedStays DEF Conflict, bounds, files
<1>3. CASE Fail(i)
  BY <1>1, <1>3, OwedStays, BoundsAssumption DEF Fail, Fault, files
<1>4. CASE Kill(i)
  BY <1>1, <1>4, OwedStays, BoundsAssumption DEF Kill, files
<1>5. QED
  BY <1>2, <1>3, <1>4 DEF Ends

LEMMA TypeStep == TypeOK /\ DiskInv /\ [Next]_vars => TypeOK'
<1> SUFFICES ASSUME TypeOK, DiskInv, [Next]_vars PROVE TypeOK'
  OBVIOUS
<1> USE DEF TypeOK
<1>1. CASE PowerLoss
  <2>1. losses' \in 0..MaxPowerLosses /\ faults' = faults
    BY <1>1, BoundsAssumption DEF PowerLoss
  <2>2. state' \in Pointers
    BY <1>1, Lost
  <2>3. QED
    BY <1>1, <2>1, <2>2, Lost
<1>2. ASSUME NEW i \in Installers, Begins(i) PROVE TypeOK'
  <2>1. PICK u \in Updates : Load(i, u)
    BY <1>2 DEF Begins
  <2>2. pc' = [pc EXCEPT ![i] = "make"] /\ job' = [job EXCEPT ![i] = u]
        /\ UNCHANGED <<files, told, bounds>>
    BY <2>1 DEF Load
  <2>3. pc' \in [Installers -> PCs] /\ job' \in [Installers -> Pointers]
    BY <2>2 DEF PCs, Pointers
  <2>4. \A j \in Installers : pc'[j] # "idle" => job'[j] # NoState
    BY <2>2, MarksApart
  <2>5. QED
    BY <2>2, <2>3, <2>4 DEF files, contents, told, bounds
<1>3. ASSUME NEW i \in Installers, Ends(i) PROVE TypeOK'
  <2>1. /\ pc' \in [Installers -> PCs] /\ job' \in [Installers -> Pointers]
        /\ \A j \in Installers : pc'[j] # "idle" => job'[j] # NoState
        /\ UNCHANGED <<contents, directory, told, losses>>
        /\ kills' \in 0..MaxKills /\ faults' \in 0..MaxFaults
    BY <1>3, EndsEffect, Stopped
  <2>2. QED
    BY <2>1 DEF contents, told
<1>4. ASSUME NEW i \in Installers, Unlink(i) PROVE TypeOK'
  <2>1. store' \in [Seqs -> Files] /\ diskStore' \in [Seqs -> (SUBSET Files) \ {{}}]
    BY <1>4, MarksApart, JobType DEF Unlink
  <2>2. QED
    BY <1>4, <2>1, Stopped DEF Unlink, bounds, told
<1>5. ASSUME NEW i \in Installers, Report(i) PROVE TypeOK'
  BY <1>5, Stopped, JobType DEF Report, files, contents, bounds
<1>6. ASSUME NEW i \in Installers, SyncStore(i) \/ SyncState(i) PROVE TypeOK'
  <2>1. /\ pc' \in [Installers -> PCs] /\ job' = job /\ SyncDirectory
        /\ \A j \in Installers : pc'[j] # "idle" => pc[j] # "idle"
        /\ UNCHANGED <<told, directory, bounds>>
    BY <1>6 DEF SyncStore, SyncState, SyncDirectory, Go, PCs
  <2>2. QED
    BY <2>1, Synced DEF bounds, told
<1>7. ASSUME NEW i \in Installers, MakeDirectory(i) \/ Create(i) \/ Confirm(i) \/ Write(i)
                                  \/ Fsync(i) \/ Rename(i) \/ WriteFails(i)
      PROVE  TypeOK'
  <2>1. /\ pc' \in [Installers -> PCs] /\ job' = job /\ UNCHANGED told
        /\ directory' \in {"absent", "made", "durable"}
        /\ \A j \in Installers : pc'[j] # "idle" => pc[j] # "idle"
    BY <1>7 DEF MakeDirectory, Create, Confirm, Write, Fsync, Rename, WriteFails, Go, PCs, files
  <2>2. kills' \in 0..MaxKills /\ losses' \in 0..MaxPowerLosses /\ faults' \in 0..MaxFaults
    BY <1>7, BoundsAssumption DEF MakeDirectory, Create, Confirm, Write, Fsync, Rename, WriteFails, Fault, bounds
  <2>3. job[i] \in Updates /\ job[i].seq \in Seqs /\ job[i].store \in Stores /\ job[i] \in Pointers
    BY <1>7, JobType, UpdateType DEF MakeDirectory, Create, Confirm, Write, Fsync, Rename, WriteFails, Go
  <2>4. store' \in [Seqs -> Files] /\ diskStore' \in [Seqs -> (SUBSET Files) \ {{}}]
    BY <1>7, <2>3, MarksApart DEF MakeDirectory, Create, Confirm, Write, Fsync, Rename, WriteFails, files, contents
  <2>5. state' \in Pointers /\ diskState' \in (SUBSET Pointers) \ {{}}
    BY <1>7, <2>3 DEF MakeDirectory, Create, Confirm, Write, Fsync, Rename, WriteFails, files, contents
  <2>6. QED
    BY <2>1, <2>2, <2>4, <2>5 DEF told
<1>8. CASE UNCHANGED vars
  BY <1>8 DEF vars, files, contents, procs, told, bounds
<1>9. QED
  BY <1>1, <1>2, <1>3, <1>4, <1>5, <1>6, <1>7, <1>8, StepCases DEF Next

-----------------------------------------------------------------------------
\* A step that writes touches the one file of its update.
WritesFile(i) == Create(i) \/ Write(i) \/ Fsync(i) \/ Unlink(i)

LEMMA FileEffect ==
  ASSUME TypeOK, NEW i \in Installers, WritesFile(i)
  PROVE  /\ \A s \in Seqs \ {job[i].seq} : store'[s] = store[s] /\ diskStore'[s] = diskStore[s]
         /\ UNCHANGED <<state, diskState, Owed, bounds>>
         /\ pc[i] \in {"open", "write", "fsync", "unlink"}
BY OwedStays DEF WritesFile, Create, Write, Fsync, Unlink, Go, TypeOK

LEMMA DiskStep == IInv /\ [Next]_vars => DiskInv'
<1> SUFFICES ASSUME IInv, [Next]_vars PROVE DiskInv'
  OBVIOUS
<1>t. TypeOK /\ DiskInv /\ JobInv
  BY DEF IInv
<1> USE <1>t DEF DiskInv
<1>1. CASE PowerLoss
  BY <1>1, Lost
<1>2. CASE UNCHANGED contents
  BY <1>2 DEF files, contents
<1>3. ASSUME NEW i \in Installers, SyncStore(i) \/ SyncState(i) PROVE DiskInv'
  BY <1>3, Synced DEF SyncStore, SyncState
<1>4. ASSUME NEW i \in Installers, Rename(i) PROVE DiskInv'
  BY <1>4 DEF Rename
<1>5. ASSUME NEW i \in Installers, WritesFile(i) PROVE DiskInv'
  <2>1. /\ \A s \in Seqs \ {job[i].seq} : store'[s] \in diskStore'[s]
        /\ state' \in diskState'
    BY <1>5, FileEffect
  <2>2. job[i].seq \in Seqs
    BY <1>5, FileEffect, JobType
  <2>3. store'[job[i].seq] \in diskStore'[job[i].seq]
    <3>1. CASE Create(i)
      BY <2>2, <3>1 DEF Create, TypeOK
    <3>2. CASE Write(i)
      BY <2>2, <3>2 DEF Write, TypeOK
    <3>3. CASE Fsync(i)
      BY <2>2, <3>3 DEF Fsync, TypeOK, JobInv, JobOK, Go
    <3>4. CASE Unlink(i)
      BY <2>2, <3>4 DEF Unlink, TypeOK
    <3>5. QED
      BY <1>5, <3>1, <3>2, <3>3, <3>4 DEF WritesFile
  <2>4. QED
    BY <2>1, <2>3
<1>6. ASSUME NEW i \in Installers, Begins(i) \/ MakeDirectory(i) \/ Confirm(i) \/ Ends(i) \/ WriteFails(i) \/ Report(i)
      PROVE  UNCHANGED contents
  BY <1>6, EndsEffect DEF Begins, Load, MakeDirectory, Confirm, WriteFails, Report, files, contents
<1>7. CASE UNCHANGED vars
  BY <1>7 DEF vars, files, contents
<1>8. QED
  BY <1>1, <1>2, <1>3, <1>4, <1>5, <1>6, <1>7, StepCases DEF Next, WritesFile

\* The pointers only move by the rename, which is gated.
LEMMA GateHolds ==
  ASSUME IInv, NEW i \in Installers, Rename(i)
  PROVE  /\ job[i] \in Updates /\ job[i].seq \in Nat /\ Seq(state) \in Nat
         /\ Seq(job[i]) = job[i].seq /\ job[i].seq > Seq(state)
         /\ state # NoState => job[i].root = state.root
         /\ state' = job[i] /\ diskState' = diskState \cup {job[i]}
         /\ UNCHANGED <<store, diskStore, Owed, bounds>>
<1>1. TypeOK /\ JobInv /\ pc[i] = "rename"
  BY DEF IInv, Rename, Go
<1>2. job[i] \in Updates /\ job[i].seq \in Nat /\ Seq(job[i]) = job[i].seq /\ Seq(state) \in Nat
  BY <1>1, JobType, SeqType DEF TypeOK
<1>3. job[i].seq > Seq(state) /\ (state # NoState => job[i].root = state.root)
  BY <1>1 DEF JobInv, JobOK
<1>4. QED
  BY <1>2, <1>3, OwedStays DEF Rename

LEMMA PointerCases ==
  ASSUME IInv, [Next]_vars
  PROVE  \/ state' = state /\ diskState' \subseteq diskState
         \/ \E i \in Installers : Rename(i)
         \/ PowerLoss
<1>1. ASSUME NEW i \in Installers, SyncStore(i) \/ SyncState(i)
      PROVE  state' = state /\ diskState' \subseteq diskState
  BY <1>1, Synced DEF SyncStore, SyncState, IInv, DiskInv
<1>2. ASSUME NEW i \in Installers, WritesFile(i) PROVE state' = state /\ diskState' \subseteq diskState
  BY <1>2, FileEffect DEF IInv
<1>3. ASSUME NEW i \in Installers, Begins(i) \/ MakeDirectory(i) \/ Confirm(i) \/ Ends(i) \/ WriteFails(i) \/ Report(i)
      PROVE  state' = state /\ diskState' \subseteq diskState
  BY <1>3, EndsEffect DEF Begins, Load, MakeDirectory, Confirm, WriteFails, Report, files, contents, IInv
<1>4. CASE UNCHANGED vars
  BY <1>4 DEF vars, files, contents
<1>5. QED
  BY <1>1, <1>2, <1>3, <1>4, StepCases DEF Next, WritesFile

LEMMA PointerStep == IInv /\ [Next]_vars => PointerInv'
<1> SUFFICES ASSUME IInv, [Next]_vars PROVE PointerInv'
  OBVIOUS
<1>t. TypeOK /\ DiskInv /\ PointerInv
  BY DEF IInv
<1>1. CASE state' = state /\ diskState' \subseteq diskState
  BY <1>t, <1>1 DEF PointerInv
<1>2. ASSUME NEW i \in Installers, Rename(i) PROVE PointerInv'
  <2>1. /\ job[i].seq \in Nat /\ Seq(state) \in Nat /\ Seq(job[i]) = job[i].seq
        /\ job[i].seq > Seq(state) /\ (state # NoState => job[i].root = state.root)
        /\ state' = job[i] /\ diskState' = diskState \cup {job[i]} /\ job[i] # NoState
    BY <1>2, GateHolds, UpdateType
  <2>2. ASSUME NEW p \in diskState
        PROVE  Seq(p) <= Seq(job[i]) /\ (p # NoState => p.root = job[i].root)
    <3>1. Seq(p) \in Nat /\ Seq(p) <= Seq(state)
      BY <1>t, SeqType DEF PointerInv, TypeOK
    <3>2. p # NoState => state # NoState /\ p.root = state.root
      BY <1>t DEF PointerInv
    <3>3. Seq(p) <= Seq(job[i])
      BY <2>1, <3>1
    <3>4. QED
      BY <2>1, <3>2, <3>3
  <2>3. Seq(job[i]) <= Seq(job[i])
    BY <2>1
  <2>4. QED
    BY <2>1, <2>2, <2>3 DEF PointerInv
<1>3. CASE PowerLoss
  <2>1. diskState' = {state'} /\ state' \in Pointers
    BY <1>t, <1>3, Lost
  <2>2. Seq(state') \in Nat
    BY <2>1, SeqType
  <2>3. Seq(state') <= Seq(state')
    BY <2>2
  <2>4. QED
    BY <2>1, <2>3 DEF PointerInv
<1>4. QED
  BY <1>1, <1>2, <1>3, PointerCases

LEMMA JobStep == ASSUME OneInstaller PROVE IInv /\ [Next]_vars => JobInv'
<1> SUFFICES ASSUME IInv, [Next]_vars PROVE JobInv'
  OBVIOUS
<1>t. TypeOK /\ DiskInv /\ JobInv
  BY DEF IInv
<1>0. ASSUME NEW i \in Installers, JobOK(i)' PROVE JobInv'
  BY <1>0 DEF OneInstaller, JobInv
<1>1. CASE PowerLoss
  BY <1>t, <1>1, Lost DEF JobInv, JobOK
<1>2. ASSUME NEW i \in Installers, Begins(i) PROVE JobInv'
  <2>1. PICK u \in Updates : Load(i, u)
    BY <1>2 DEF Begins
  <2>2. /\ pc'[i] = "make" /\ job'[i] = u /\ state' = state
        /\ u.seq > Seq(state) /\ (state # NoState => u.root = state.root)
    BY <1>t, <2>1 DEF Load, TypeOK, files, contents
  <2>3. Seq(state)' = Seq(state)
    BY <2>2
  <2>4. JobOK(i)'
    BY <2>2, <2>3 DEF JobOK
  <2>5. QED
    BY <1>0, <2>4
<1>3. ASSUME NEW i \in Installers, Ends(i) \/ Unlink(i) \/ Report(i) PROVE JobInv'
  <2>1. pc'[i] = "idle"
    BY <1>t, <1>3, EndsEffect, Stopped DEF Unlink, Report
  <2>2. JobOK(i)'
    BY <2>1 DEF JobOK
  <2>3. QED
    BY <1>0, <2>2
<1>4. ASSUME NEW i \in Installers, MakeDirectory(i) \/ Create(i) \/ Confirm(i) \/ Write(i) \/ Fsync(i) \/ WriteFails(i)
      PROVE  JobInv'
  <2>1. /\ UNCHANGED <<state, job>> /\ pc[i] # "idle"
        /\ pc[i] \in {"make", "open", "write", "fsync"} /\ pc'[i] \in {"open", "write", "syncstore", "fsync", "unlink"}
    BY <1>t, <1>4 DEF MakeDirectory, Create, Confirm, Write, Fsync, WriteFails, Go, TypeOK, files, contents
  <2>2. job[i].seq \in Seqs
    BY <1>t, <2>1, JobType
  <2>3. pc'[i] \in {"fsync", "syncstore"} => store'[job[i].seq] = job[i].store
    <3>1. CASE MakeDirectory(i) \/ Create(i) \/ WriteFails(i)
      BY <1>t, <3>1 DEF MakeDirectory, Create, WriteFails, Go, TypeOK
    <3>2. CASE Confirm(i)
      BY <3>2 DEF Confirm, files, contents
    <3>3. CASE Write(i)
      BY <1>t, <2>2, <3>3 DEF Write, TypeOK
    <3>4. CASE Fsync(i)
      BY <1>t, <3>4 DEF Fsync, Go, JobInv, JobOK
    <3>5. QED
      BY <1>4, <3>1, <3>2, <3>3, <3>4
  <2>4. job[i].seq > Seq(state) /\ (state # NoState => job[i].root = state.root)
    BY <1>t, <2>1 DEF JobInv, JobOK
  <2>5. job'[i] = job[i] /\ Seq(state)' = Seq(state)
    BY <2>1
  <2>6. JobOK(i)'
    BY <2>1, <2>3, <2>4, <2>5 DEF JobOK
  <2>7. QED
    BY <1>0, <2>6
<1>5. ASSUME NEW i \in Installers, SyncStore(i) PROVE JobInv'
  <2>1. /\ pc[i] = "syncstore" /\ pc'[i] = "rename" /\ job'[i] = job[i]
        /\ store' = store /\ state' = state
    BY <1>t, <1>5, Synced DEF SyncStore, Go, TypeOK
  <2>2. /\ job[i].seq > Seq(state) /\ (state # NoState => job[i].root = state.root)
        /\ store[job[i].seq] = job[i].store
    BY <1>t, <2>1 DEF JobInv, JobOK
  <2>3. Seq(state)' = Seq(state)
    BY <2>1
  <2>4. JobOK(i)'
    BY <2>1, <2>2, <2>3 DEF JobOK
  <2>5. QED
    BY <1>0, <2>4
<1>6. ASSUME NEW i \in Installers, Rename(i) PROVE JobInv'
  <2>1. /\ pc[i] = "rename" /\ pc'[i] = "syncstate" /\ job'[i] = job[i]
        /\ store' = store /\ state' = job[i]
    BY <1>t, <1>6 DEF Rename, Go, TypeOK
  <2>2. store[job[i].seq] = job[i].store
    BY <1>t, <2>1 DEF JobInv, JobOK
  <2>3. JobOK(i)'
    BY <2>1, <2>2 DEF JobOK
  <2>4. QED
    BY <1>0, <2>3
<1>7. ASSUME NEW i \in Installers, SyncState(i) PROVE JobInv'
  <2>1. /\ pc[i] = "syncstate" /\ pc'[i] = "report" /\ job'[i] = job[i]
        /\ store' = store /\ state' = state /\ diskState' = {state}
    BY <1>t, <1>7, Synced DEF SyncState, Go, TypeOK
  <2>2. store[job[i].seq] = job[i].store /\ state = job[i]
    BY <1>t, <2>1 DEF JobInv, JobOK
  <2>3. JobOK(i)'
    BY <2>1, <2>2 DEF JobOK
  <2>4. QED
    BY <1>0, <2>3
<1>8. CASE UNCHANGED vars
  BY <1>t, <1>8 DEF JobInv, JobOK, vars, files, contents, procs, Seq
<1>9. QED
  BY <1>1, <1>2, <1>3, <1>4, <1>5, <1>6, <1>7, <1>8, StepCases DEF Next

-----------------------------------------------------------------------------
\* What was confirmed and is still owed.
LEMMA ConfirmedStep == IInv /\ [Next]_vars => ConfirmedNeverRolledBack'
<1> SUFFICES ASSUME IInv, [Next]_vars PROVE ConfirmedNeverRolledBack'
  OBVIOUS
<1>t. TypeOK /\ DiskInv /\ JobInv /\ ConfirmedNeverRolledBack
  BY DEF IInv
<1>1. ASSUME Owed' = Owed, state' \in diskState, diskState' \subseteq diskState
      PROVE  ConfirmedNeverRolledBack'
  BY <1>t, <1>1 DEF ConfirmedNeverRolledBack
<1>2. CASE PowerLoss
  <2>1. diskState' = {state'} /\ (Kept \/ Gone)
    BY <1>t, <1>2, Lost
  <2>2. CASE Kept
    BY <1>1, <2>1, <2>2 DEF Kept
  <2>3. CASE Gone
    BY <2>3 DEF Gone, ConfirmedNeverRolledBack
  <2>4. QED
    BY <2>1, <2>2, <2>3
<1>3. ASSUME NEW i \in Installers, Rename(i) PROVE ConfirmedNeverRolledBack'
  <2>1. /\ job[i].seq \in Nat /\ Seq(state) \in Nat /\ job[i].seq > Seq(state)
        /\ (state # NoState => job[i].root = state.root)
        /\ state' = job[i] /\ diskState' = diskState \cup {job[i]}
        /\ Owed' = Owed /\ job[i] # NoState
    BY <1>3, GateHolds, UpdateType
  <2>2. ASSUME NEW u \in Owed PROVE job[i].seq >= u.seq /\ job[i].root = u.root
    <3>1. state # NoState /\ state.seq >= u.seq /\ state.root = u.root
      BY <1>t DEF ConfirmedNeverRolledBack
    <3>2. Seq(state) = state.seq /\ u.seq \in Nat
      BY <1>t, <3>1, UpdateType, OwedType DEF Seq, TypeOK
    <3>3. QED
      BY <2>1, <3>1, <3>2
  <2>3. QED
    BY <1>t, <2>1, <2>2 DEF ConfirmedNeverRolledBack
<1>4. ASSUME NEW i \in Installers, Report(i) PROVE ConfirmedNeverRolledBack'
  <2>1. pc[i] = "report" /\ Owed' = Owed \cup {job[i]} /\ UNCHANGED <<state, diskState>>
    BY <1>t, <1>4, OwedGrows DEF Report, files, contents
  <2>2. state = job[i] /\ diskState = {job[i]} /\ job[i] \in Updates
    BY <1>t, <2>1, JobType DEF JobInv, JobOK
  <2>3. job[i] # NoState /\ job[i].seq >= job[i].seq
    BY <2>2, UpdateType
  <2>4. QED
    BY <1>t, <2>1, <2>2, <2>3 DEF ConfirmedNeverRolledBack
<1>5. ASSUME NEW i \in Installers, SyncStore(i) \/ SyncState(i) PROVE ConfirmedNeverRolledBack'
  BY <1>t, <1>1, <1>5, Synced, OwedStays DEF SyncStore, SyncState, DiskInv
<1>6. ASSUME NEW i \in Installers, WritesFile(i) PROVE ConfirmedNeverRolledBack'
  BY <1>t, <1>1, <1>6, FileEffect DEF DiskInv
<1>7. ASSUME NEW i \in Installers, Begins(i) \/ MakeDirectory(i) \/ Confirm(i) \/ Ends(i) \/ WriteFails(i)
      PROVE  ConfirmedNeverRolledBack'
  <2>1. Owed' = Owed /\ UNCHANGED <<state, diskState>>
    BY <1>t, <1>7, EndsEffect, OwedStays DEF Begins, Load, MakeDirectory, Confirm, WriteFails, files, contents
  <2>2. QED
    BY <1>t, <1>1, <2>1 DEF DiskInv
<1>8. CASE UNCHANGED vars
  BY <1>t, <1>1, <1>8, OwedStays DEF vars, files, contents, DiskInv
<1>9. QED
  BY <1>2, <1>3, <1>4, <1>5, <1>6, <1>7, <1>8, StepCases DEF Next, WritesFile

-----------------------------------------------------------------------------
\* An installer that has passed the gate is ahead of every pointer and of every
\* confirmed update.
LEMMA Behind ==
  ASSUME IInv, NEW i \in Installers,
         pc[i] \in {"make", "open", "write", "fsync", "unlink", "syncstore", "rename"}
  PROVE  /\ \A p \in diskState : p # NoState => p.seq \in Seqs /\ p.seq # job[i].seq
         /\ \A u \in Owed : u.seq \in Seqs /\ u.seq # job[i].seq
         /\ state # NoState => state.seq \in Seqs /\ state.seq # job[i].seq
<1>1. /\ TypeOK /\ DiskInv /\ PointerInv /\ ConfirmedNeverRolledBack
      /\ job[i].seq > Seq(state) /\ job[i].seq \in Nat /\ Seq(state) \in Nat
  BY JobType, SeqType DEF IInv, JobInv, JobOK, TypeOK
<1>2. ASSUME NEW p \in diskState, p # NoState PROVE p.seq \in Seqs /\ p.seq # job[i].seq
  <2>1. p \in Updates /\ Seq(p) \in Nat /\ Seq(p) <= Seq(state)
    BY <1>1, <1>2, SeqType DEF TypeOK, PointerInv
  <2>2. Seq(p) = p.seq /\ p.seq \in Seqs
    BY <2>1, UpdateType
  <2>3. QED
    BY <1>1, <2>1, <2>2
<1>3. state # NoState => state.seq \in Seqs /\ state.seq # job[i].seq
  BY <1>1, <1>2 DEF DiskInv
<1>4. ASSUME NEW u \in Owed PROVE u.seq \in Seqs /\ u.seq # job[i].seq
  <2>1. u \in Updates /\ state # NoState /\ state.seq >= u.seq
    BY <1>1, OwedType DEF TypeOK, ConfirmedNeverRolledBack
  <2>2. Seq(state) = state.seq /\ u.seq \in Nat /\ u.seq \in Seqs
    BY <2>1, UpdateType DEF Seq
  <2>3. QED
    BY <1>1, <2>1, <2>2
<1>5. QED
  BY <1>2, <1>3, <1>4

LEMMA KillsStep ==
  ASSUME IInv, [Next]_vars
  PROVE  /\ kills' = 0 => kills = 0
         /\ kills' = 0 \/ losses' = 0 => kills = 0 \/ losses = 0
         /\ losses' = losses \/ PowerLoss
<1>1. ASSUME NEW i \in Installers, Ends(i)
      PROVE  losses' = losses /\ (kills' = kills \/ kills' # 0)
  BY <1>1, EndsEffect DEF IInv
<1>2. ASSUME NEW i \in Installers, WritesFile(i) PROVE losses' = losses /\ kills' = kills
  BY <1>2, FileEffect DEF IInv, bounds
<1>3. ASSUME NEW i \in Installers, Begins(i) \/ MakeDirectory(i) \/ Confirm(i) \/ WriteFails(i) \/ SyncStore(i)
                                  \/ Rename(i) \/ SyncState(i) \/ Report(i)
      PROVE  losses' = losses /\ kills' = kills
  BY <1>3 DEF Begins, Load, MakeDirectory, Confirm, WriteFails, Fault, SyncStore, Rename, SyncState, Report, bounds
<1>4. CASE PowerLoss
  BY <1>4, Lost DEF IInv
<1>5. CASE UNCHANGED vars
  BY <1>5 DEF vars, bounds
<1>6. QED
  BY <1>1, <1>2, <1>3, <1>4, <1>5, StepCases DEF Next, WritesFile

LEMMA DurableStep == ASSUME OneInstaller PROVE IInv /\ [Next]_vars => DurableInv'
<1> SUFFICES ASSUME IInv, [Next]_vars, kills' = 0 PROVE DurableInv'
  BY DEF DurableInv
<1>t. TypeOK /\ DiskInv /\ PointerInv /\ JobInv /\ DurableInv /\ kills = 0
  BY KillsStep DEF IInv
<1>d. /\ \A s \in Seqs : store[s] \in Stores /\ ~Writing(s) => diskStore[s] \subseteq {Absent, store[s]}
      /\ \A p \in diskState : p # NoState => diskStore[p.seq] = {p.store}
      /\ \A i \in Installers : pc[i] = "rename" => diskStore[job[i].seq] = {job[i].store}
      /\ \A u \in Owed : diskStore[u.seq] = {u.store}
  BY <1>t DEF DurableInv
<1>s. /\ \A p \in diskState : p # NoState => p.seq \in Seqs
      /\ \A u \in Owed : u.seq \in Seqs
  BY <1>t, SeqType, UpdateType, OwedType DEF TypeOK
<1>p. ASSUME NEW p \in diskState, p # NoState PROVE p.seq \in Seqs /\ diskStore[p.seq] = {p.store}
  BY <1>d, <1>s, <1>p
<1>u. ASSUME NEW u \in Owed PROVE u.seq \in Seqs /\ diskStore[u.seq] = {u.store}
  BY <1>d, <1>s
<1>w. ASSUME NEW i \in Installers, NEW s
      PROVE  Writing(s) <=> pc[i] \in {"write", "fsync", "unlink"} /\ job[i].seq = s
  BY DEF OneInstaller, Writing
<1>v. ASSUME NEW i \in Installers, NEW s
      PROVE  Writing(s)' <=> pc'[i] \in {"write", "fsync", "unlink"} /\ job'[i].seq = s
  BY DEF OneInstaller, Writing
<1>1. CASE PowerLoss
  <2>1. /\ \A s \in Seqs : diskStore'[s] = {store'[s]}
        /\ diskState' = {state'} /\ (Kept \/ Gone)
    BY <1>t, <1>1, Lost
  <2>2. \A s \in Seqs : diskStore'[s] \subseteq {Absent, store'[s]}
    BY <2>1
  <2>3. \A i \in Installers : pc'[i] # "rename"
    BY <1>t, <1>1, Lost
  <2>4. CASE Kept
    <3>1. ASSUME NEW s \in Seqs, NEW c, diskStore[s] = {c} PROVE diskStore'[s] = {c}
      BY <2>1, <2>4, <3>1 DEF Kept
    <3>2. diskState' \subseteq diskState /\ Owed' = Owed
      BY <2>1, <2>4 DEF Kept
    <3>3. \A p \in diskState' : p # NoState => diskStore'[p.seq] = {p.store}
      BY <1>p, <3>1, <3>2
    <3>4. \A u \in Owed' : diskStore'[u.seq] = {u.store}
      BY <1>u, <3>1, <3>2
    <3>5. QED
      BY <2>2, <2>3, <3>3, <3>4 DEF DurableInv
  <2>5. CASE Gone
    BY <2>1, <2>2, <2>3, <2>5 DEF Gone, DurableInv
  <2>6. QED
    BY <2>1, <2>4, <2>5
<1>2. ASSUME NEW i \in Installers, UNCHANGED <<contents, Owed>>, pc'[i] # "rename",
             pc[i] \in {"write", "fsync", "unlink"} =>
               pc'[i] \in {"write", "fsync", "unlink"} /\ job'[i] = job[i]
      PROVE  DurableInv'
  <2>1. \A s : ~Writing(s)' => ~Writing(s)
    BY <1>2, <1>v, <1>w
  <2>f. store' = store /\ diskStore' = diskStore
    BY <1>2 DEF files, contents
  <2>2. ASSUME NEW s \in Seqs, store'[s] \in Stores, ~Writing(s)'
        PROVE  diskStore'[s] \subseteq {Absent, store'[s]}
    <3>1. ~Writing(s)
      BY <2>1, <2>2
    <3>2. QED
      BY <1>d, <2>f, <2>2, <3>1
  <2>3. \A j \in Installers : pc'[j] # "rename"
    BY <1>2 DEF OneInstaller
  <2>4. QED
    BY <1>2, <1>d, <2>2, <2>3 DEF DurableInv, files, contents
<1>3. ASSUME NEW i \in Installers, Begins(i) \/ MakeDirectory(i) \/ Confirm(i) \/ WriteFails(i) PROVE DurableInv'
  <2>1. UNCHANGED <<contents, Owed>>
    BY <1>3, OwedStays DEF Begins, Load, MakeDirectory, Confirm, WriteFails, files
  <2>2. pc'[i] # "rename"
    BY <1>t, <1>3 DEF Begins, Load, MakeDirectory, Confirm, WriteFails, Go, TypeOK
  <2>3. pc[i] \in {"write", "fsync", "unlink"} =>
          pc'[i] \in {"write", "fsync", "unlink"} /\ job'[i] = job[i]
    BY <1>t, <1>3 DEF Begins, Load, MakeDirectory, Confirm, WriteFails, Go, TypeOK
  <2>4. QED
    BY <1>2, <2>1, <2>2, <2>3
<1>4. ASSUME NEW i \in Installers, Ends(i) PROVE DurableInv'
  <2>1. UNCHANGED <<contents, Owed>> /\ pc'[i] = "idle"
    BY <1>t, <1>4, EndsEffect, Stopped
  <2>2. ~Kill(i)
    BY <1>t DEF Kill, TypeOK
  <2>3. pc[i] \notin {"write", "fsync", "unlink"}
    BY <1>4, <2>2 DEF Ends, Conflict, Fail
  <2>4. QED
    BY <1>2, <2>1, <2>3
<1>5. ASSUME NEW i \in Installers, WritesFile(i) PROVE DurableInv'
  <2> DEFINE n == job[i].seq
  <2>1. /\ \A s \in Seqs \ {n} : store'[s] = store[s] /\ diskStore'[s] = diskStore[s]
        /\ UNCHANGED <<diskState, Owed>> /\ pc[i] \in {"open", "write", "fsync", "unlink"}
    BY <1>t, <1>5, FileEffect
  <2>2. n \in Seqs /\ job[i].store \in Stores
    BY <1>t, <2>1, JobType
  <2>3. /\ \A p \in diskState : p # NoState => p.seq \in Seqs /\ p.seq # n
        /\ \A u \in Owed : u.seq \in Seqs /\ u.seq # n
    BY <2>1, Behind
  <2>4. ASSUME NEW s \in Seqs \ {n}, store'[s] \in Stores
        PROVE  diskStore'[s] \subseteq {Absent, store'[s]}
    <3>1. ~Writing(s)
      BY <1>w
    <3>2. QED
      BY <1>d, <2>1, <2>4, <3>1
  <2>5. ASSUME NEW s \in Seqs, s = n, store'[s] \in Stores, ~Writing(s)'
        PROVE  diskStore'[s] \subseteq {Absent, store'[s]}
    <3>1. CASE Create(i) \/ Write(i)
      <4>1. pc'[i] \in {"write", "fsync"} /\ job'[i] = job[i]
        BY <1>t, <3>1 DEF Create, Write, Go, TypeOK
      <4>2. Writing(s)'
        BY <1>v, <2>5, <4>1
      <4>3. QED
        BY <2>5, <4>2
    <3>2. CASE Fsync(i)
      <4>1. store'[n] = job[i].store
        BY <1>t, <3>2 DEF Fsync, Go, JobInv, JobOK
      <4>2. diskStore'[n] = (diskStore[n] \cap {Absent}) \cup {job[i].store}
        BY <1>t, <2>2, <3>2 DEF Fsync, TypeOK
      <4>3. QED
        BY <2>5, <4>1, <4>2
    <3>3. CASE Unlink(i)
      <4>1. store'[n] = Absent
        BY <1>t, <2>2, <3>3 DEF Unlink, TypeOK
      <4>2. QED
        BY <2>5, <4>1, MarksApart
    <3>4. QED
      BY <1>5, <3>1, <3>2, <3>3 DEF WritesFile
  <2>6. \A j \in Installers : pc'[j] # "rename"
    <3>1. pc'[i] # "rename"
      BY <1>t, <1>5, Stopped DEF WritesFile, Create, Write, Fsync, Unlink, Go, TypeOK
    <3>2. QED
      BY <3>1 DEF OneInstaller
  <2>7. /\ \A p \in diskState' : p # NoState => diskStore'[p.seq] = {p.store}
        /\ \A u \in Owed' : diskStore'[u.seq] = {u.store}
    BY <1>d, <2>1, <2>3
  <2>8. \A s \in Seqs : store'[s] \in Stores /\ ~Writing(s)' => diskStore'[s] \subseteq {Absent, store'[s]}
    <3> SUFFICES ASSUME NEW s \in Seqs, store'[s] \in Stores, ~Writing(s)'
                 PROVE  diskStore'[s] \subseteq {Absent, store'[s]}
      OBVIOUS
    <3>1. QED
      BY <2>4, <2>5
  <2>9. QED
    BY <2>6, <2>7, <2>8 DEF DurableInv
<1>6. ASSUME NEW i \in Installers, SyncStore(i) \/ SyncState(i) PROVE DurableInv'
  <2>1. /\ SyncDirectory /\ Owed' = Owed /\ job' = job
        /\ pc[i] \in {"syncstore", "syncstate"} /\ pc'[i] \in {"rename", "report"}
        /\ pc'[i] = "rename" => pc[i] = "syncstore"
    BY <1>t, <1>6, OwedStays DEF SyncStore, SyncState, Go, TypeOK
  <2>2. /\ store' = store /\ diskState' = {state} /\ state \in diskState
        /\ \A s \in Seqs : /\ store[s] \in diskStore'[s] /\ diskStore'[s] \subseteq diskStore[s]
                           /\ store[s] # Absent => Absent \notin diskStore'[s]
    BY <1>t, <2>1, Synced DEF DiskInv
  <2>3. \A s : ~Writing(s)
    BY <1>w, <2>1
  <2>4. \A s \in Seqs : store'[s] \in Stores => diskStore'[s] \subseteq {Absent, store'[s]}
    BY <1>d, <2>2, <2>3
  <2>5. ASSUME NEW s \in Seqs, NEW c, diskStore[s] = {c} PROVE diskStore'[s] = {c}
    BY <2>2, <2>5
  <2>6. /\ \A p \in diskState' : p # NoState => diskStore'[p.seq] = {p.store}
        /\ \A u \in Owed' : diskStore'[u.seq] = {u.store}
    <3>1. diskState' \subseteq diskState /\ Owed' = Owed
      BY <2>1, <2>2
    <3>2. \A p \in diskState' : p # NoState => diskStore'[p.seq] = {p.store}
      BY <1>p, <2>5, <3>1
    <3>3. \A u \in Owed' : diskStore'[u.seq] = {u.store}
      BY <1>u, <2>5, <3>1
    <3>4. QED
      BY <3>2, <3>3
  <2>7. ASSUME pc'[i] = "rename" PROVE diskStore'[job'[i].seq] = {job'[i].store}
    <3>1. /\ job'[i] = job[i] /\ store[job[i].seq] = job[i].store
          /\ job[i].seq \in Seqs /\ job[i].store \in Stores
      BY <1>t, <2>1, <2>7, JobType DEF JobInv, JobOK
    <3>2. /\ diskStore'[job[i].seq] \subseteq {Absent, job[i].store}
          /\ job[i].store \in diskStore'[job[i].seq] /\ Absent \notin diskStore'[job[i].seq]
      BY <2>2, <2>4, <3>1, MarksApart
    <3>3. QED
      BY <3>1, <3>2
  <2>8. \A j \in Installers : pc'[j] = "rename" => diskStore'[job'[j].seq] = {job'[j].store}
    BY <2>7 DEF OneInstaller
  <2>9. QED
    BY <2>4, <2>6, <2>8 DEF DurableInv
<1>7. ASSUME NEW i \in Installers, Rename(i) PROVE DurableInv'
  <2>1. /\ pc[i] = "rename" /\ pc'[i] = "syncstate" /\ diskState' = diskState \cup {job[i]}
        /\ UNCHANGED <<store, diskStore, Owed>>
    BY <1>t, <1>7, OwedStays DEF Rename, Go, TypeOK
  <2>2. \A s : ~Writing(s)
    BY <1>w, <2>1
  <2>3. \A s \in Seqs : store'[s] \in Stores => diskStore'[s] \subseteq {Absent, store'[s]}
    BY <1>d, <2>1, <2>2
  <2>4. diskStore[job[i].seq] = {job[i].store}
    BY <1>d, <2>1
  <2>5. \A j \in Installers : pc'[j] # "rename"
    BY <2>1 DEF OneInstaller
  <2>6. QED
    BY <1>d, <2>1, <2>3, <2>4, <2>5 DEF DurableInv
<1>8. ASSUME NEW i \in Installers, Report(i) PROVE DurableInv'
  <2>1. /\ pc[i] = "report" /\ pc'[i] = "idle" /\ Owed' = Owed \cup {job[i]}
        /\ UNCHANGED contents
    BY <1>t, <1>8, Stopped, OwedGrows DEF Report, files
  <2>2. \A s : ~Writing(s)
    BY <1>w, <2>1
  <2>3. \A s \in Seqs : store'[s] \in Stores => diskStore'[s] \subseteq {Absent, store'[s]}
    BY <1>d, <2>1, <2>2 DEF files, contents
  <2>4. job[i] \in diskState /\ job[i] # NoState
    BY <1>t, <2>1, JobType DEF JobInv, JobOK
  <2>5. diskStore[job[i].seq] = {job[i].store}
    BY <1>d, <2>4
  <2>6. \A j \in Installers : pc'[j] # "rename"
    BY <2>1 DEF OneInstaller
  <2>7. QED
    BY <1>d, <2>1, <2>3, <2>5, <2>6 DEF DurableInv, files, contents
<1>9. CASE UNCHANGED vars
  BY <1>t, <1>9, OwedStays DEF vars, files, contents, procs, bounds, DurableInv, Writing
<1>10. QED
  BY <1>1, <1>3, <1>4, <1>5, <1>6, <1>7, <1>8, <1>9, StepCases DEF Next, WritesFile

-----------------------------------------------------------------------------
\* The stores that were confirmed. A power loss after no kill finds each of them
\* on disk as it was; an installer writes another file.
LEMMA KeptStep == IInv /\ [Next]_vars => ConfirmedStoresKept'
<1> SUFFICES ASSUME IInv, [Next]_vars, kills' = 0 \/ losses' = 0
             PROVE  \A u \in Owed' : store'[u.seq] = u.store
  BY DEF ConfirmedStoresKept
<1>t. /\ TypeOK /\ DiskInv /\ JobInv /\ DurableInv
      /\ \A u \in Owed : store[u.seq] = u.store /\ u.seq \in Seqs
  BY KillsStep, UpdateType, OwedType DEF IInv, ConfirmedStoresKept, TypeOK
<1>1. CASE PowerLoss
  <2>1. losses' # 0 /\ (Kept \/ Gone)
    BY <1>t, <1>1, Lost
  <2>2. kills = 0
    BY <2>1, KillsStep
  <2>3. \A u \in Owed : diskStore[u.seq] = {u.store}
    BY <1>t, <2>2 DEF DurableInv
  <2>4. CASE Kept
    BY <1>t, <2>3, <2>4 DEF Kept
  <2>5. CASE Gone
    BY <2>5 DEF Gone
  <2>6. QED
    BY <2>1, <2>4, <2>5
<1>2. ASSUME NEW i \in Installers, WritesFile(i) PROVE \A u \in Owed' : store'[u.seq] = u.store
  <2>1. /\ \A s \in Seqs \ {job[i].seq} : store'[s] = store[s]
        /\ Owed' = Owed /\ pc[i] \in {"open", "write", "fsync", "unlink"}
    BY <1>t, <1>2, FileEffect
  <2>2. \A u \in Owed : u.seq # job[i].seq
    BY <2>1, Behind
  <2>3. QED
    BY <1>t, <2>1, <2>2
<1>3. ASSUME NEW i \in Installers, Report(i) PROVE \A u \in Owed' : store'[u.seq] = u.store
  <2>1. pc[i] = "report" /\ Owed' = Owed \cup {job[i]} /\ store' = store
    BY <1>t, <1>3, OwedGrows DEF Report, files, contents
  <2>2. store[job[i].seq] = job[i].store
    BY <1>t, <2>1 DEF JobInv, JobOK
  <2>3. QED
    BY <1>t, <2>1, <2>2
<1>4. ASSUME NEW i \in Installers, SyncStore(i) \/ SyncState(i) PROVE store' = store /\ Owed' = Owed
  BY <1>t, <1>4, Synced, OwedStays DEF SyncStore, SyncState
<1>5. ASSUME NEW i \in Installers, Begins(i) \/ MakeDirectory(i) \/ Confirm(i) \/ Ends(i) \/ WriteFails(i) \/ Rename(i)
      PROVE  store' = store /\ Owed' = Owed
  BY <1>t, <1>5, EndsEffect, OwedStays DEF Begins, Load, MakeDirectory, Confirm, WriteFails, Rename, files, contents
<1>6. CASE UNCHANGED vars
  BY <1>t, <1>6, OwedStays DEF vars, files, contents
<1>7. QED
  BY <1>t, <1>1, <1>2, <1>3, <1>4, <1>5, <1>6, StepCases DEF Next, WritesFile

\* The directory loads.
LEMMA LoadableStep == IInv /\ [Next]_vars => OneInterruptionIsSurvived'
<1> SUFFICES ASSUME IInv, [Next]_vars, kills' = 0 \/ losses' = 0, state' # NoState
             PROVE  store'[state'.seq] = state'.store
  BY DEF OneInterruptionIsSurvived, ActiveStoreIntact, Loadable
<1>t. /\ TypeOK /\ DiskInv /\ JobInv /\ DurableInv
      /\ state # NoState => store[state.seq] = state.store /\ state.seq \in Seqs
      /\ \A p \in diskState : p # NoState => p.seq \in Seqs
  BY KillsStep, SeqType, UpdateType DEF IInv, OneInterruptionIsSurvived, ActiveStoreIntact, Loadable, TypeOK
<1>1. CASE PowerLoss
  <2>1. losses' # 0 /\ (Kept \/ Gone)
    BY <1>t, <1>1, Lost
  <2>2. kills = 0
    BY <2>1, KillsStep
  <2>3. Kept
    BY <2>1 DEF Gone
  <2>4. diskStore[state'.seq] = {state'.store}
    BY <1>t, <2>2, <2>3 DEF DurableInv, Kept
  <2>5. QED
    BY <1>t, <2>3, <2>4 DEF Kept
<1>2. ASSUME NEW i \in Installers, WritesFile(i) PROVE store'[state'.seq] = state'.store
  <2>1. /\ \A s \in Seqs \ {job[i].seq} : store'[s] = store[s]
        /\ state' = state /\ pc[i] \in {"open", "write", "fsync", "unlink"}
    BY <1>t, <1>2, FileEffect
  <2>2. state.seq # job[i].seq
    BY <2>1, Behind
  <2>3. QED
    BY <1>t, <2>1, <2>2
<1>3. ASSUME NEW i \in Installers, Rename(i) PROVE store'[state'.seq] = state'.store
  BY <1>t, <1>3 DEF Rename, Go, JobInv, JobOK
<1>4. ASSUME NEW i \in Installers, SyncStore(i) \/ SyncState(i) PROVE store' = store /\ state' = state
  BY <1>t, <1>4, Synced DEF SyncStore, SyncState
<1>5. ASSUME NEW i \in Installers, Begins(i) \/ MakeDirectory(i) \/ Confirm(i) \/ Ends(i) \/ WriteFails(i) \/ Report(i)
      PROVE  store' = store /\ state' = state
  BY <1>t, <1>5, EndsEffect DEF Begins, Load, MakeDirectory, Confirm, WriteFails, Report, files, contents
<1>6. CASE UNCHANGED vars
  BY <1>t, <1>6 DEF vars, files, contents
<1>7. QED
  BY <1>t, <1>1, <1>2, <1>3, <1>4, <1>5, <1>6, StepCases DEF Next, WritesFile

-----------------------------------------------------------------------------
LEMMA InitIInv == Init => IInv
<1> SUFFICES ASSUME Init PROVE IInv
  OBVIOUS
<1>1. TypeOK
  BY MarksApart, BoundsAssumption DEF Init, TypeOK, PCs, Pointers
<1>2. DiskInv /\ PointerInv
  BY DEF Init, DiskInv, PointerInv, Seq
<1>3. \A i \in Installers : pc[i] = "idle"
  BY DEF Init
<1>4. JobInv
  BY <1>3 DEF JobInv, JobOK
<1>5. \A s \in Seqs : store[s] \notin Stores
  BY MarksApart DEF Init
<1>6. DurableInv
  BY <1>3, <1>5 DEF DurableInv, Init, Owed
<1>7. ConfirmedNeverRolledBack /\ ConfirmedStoresKept /\ OneInterruptionIsSurvived
  BY DEF Init, Owed, ConfirmedNeverRolledBack, ConfirmedStoresKept, OneInterruptionIsSurvived,
         ActiveStoreIntact, Loadable
<1>8. QED
  BY <1>1, <1>2, <1>4, <1>6, <1>7 DEF IInv

LEMMA StepIInv == ASSUME OneInstaller PROVE IInv /\ [Next]_vars => IInv'
<1>1. IInv => TypeOK /\ DiskInv
  BY DEF IInv
<1>2. QED
  BY <1>1, TypeStep, DiskStep, PointerStep, JobStep, DurableStep, ConfirmedStep, KeptStep,
     LoadableStep DEF IInv

LEMMA Invariance == ASSUME OneInstaller PROVE Spec => []IInv
<1>1. IInv /\ [Next]_vars => IInv'
  BY StepIInv
<1>2. QED
  BY InitIInv, <1>1, PTL DEF Spec

\* Every variable keeps its type.
THEOREM TypeCorrect == ASSUME OneInstaller PROVE Spec => []TypeOK
<1>1. IInv => TypeOK
  BY DEF IInv
<1>2. QED
  BY Invariance, <1>1, PTL

\* Whatever is killed, fails or loses power, a confirmed install is taken back by
\* nothing less than a power loss that takes the whole directory, which the code
\* made and never fsynced in its parent: short of that the pointer stays at its
\* sequence or a later one of the same root.
THEOREM ConfirmedStays == ASSUME OneInstaller PROVE Spec => []ConfirmedNeverRolledBack
<1>1. IInv => ConfirmedNeverRolledBack
  BY DEF IInv
<1>2. QED
  BY Invariance, <1>1, PTL

\* Without a kill, or without a power loss, every confirmed store that was not
\* taken with the whole directory keeps its bytes.
THEOREM StoresStay == ASSUME OneInstaller PROVE Spec => []ConfirmedStoresKept
<1>1. IInv => ConfirmedStoresKept
  BY DEF IInv
<1>2. QED
  BY Invariance, <1>1, PTL

\* Any number of kills alone, or of power losses alone, leaves a directory that loads.
THEOREM DirectoryLoads == ASSUME OneInstaller PROVE Spec => []OneInterruptionIsSurvived
<1>1. IInv => OneInterruptionIsSurvived
  BY DEF IInv
<1>2. QED
  BY Invariance, <1>1, PTL
=============================================================================
