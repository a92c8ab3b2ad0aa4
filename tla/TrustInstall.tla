---------------------------- MODULE TrustInstall ----------------------------
(* Installing an authenticated trust store so that neither a crash nor a       *)
(* replay takes the appliance back: aaa trust-update install                   *)
(* (cmd/aaa/trust_update_install.go) and, line for line the same algorithm on  *)
(* another directory, aaa evidence ledger checkpoint trust-update install      *)
(* (cmd/aaa/evidence_ledger_checkpoint_trust_update.go).                       *)
(*                                                                             *)
(* The directory holds one immutable store file per sequence and one pointer,  *)
(* trust-update-state.json. A file exists twice: as processes see it, and as   *)
(* the set of contents a power loss may leave of it. fsync of a file narrows   *)
(* that set to the content, fsync of the directory settles which names exist.  *)
(* The command makes the directory itself where there is none and never fsyncs *)
(* its parent: until a power loss has left it there, the next one may take it, *)
(* with all it holds. Killing a process loses only the process; a power loss   *)
(* also picks one survivor for every name, independently.                      *)
EXTENDS Naturals, FiniteSets

CONSTANTS
  Installers,      \* concurrent runs of the command; nothing in it takes a lock
  Updates,         \* authentic updates, [seq, store, root]: the root key may have
                   \* signed several stores under one sequence
  NoState,         \* the pointer file does not exist
  Absent,          \* the store file does not exist
  Partial,         \* it exists without (all of) its bytes
  MaxKills,        \* bound on killed commands
  MaxPowerLosses,  \* bound on power losses
  MaxFaults        \* bound on failing writes, fsyncs and renames

Seqs == {u.seq : u \in Updates}
Stores == {u.store : u \in Updates}
Roots == {u.root : u \in Updates}
Files == Stores \cup {Absent, Partial}
Pointers == Updates \cup {NoState}

ASSUME UpdatesAssumption ==
  \A u \in Updates : u = [seq |-> u.seq, store |-> u.store, root |-> u.root]
ASSUME SequencesAssumption == Seqs \subseteq Nat \ {0}
ASSUME MarksAssumption == /\ {Absent, Partial} \cap Stores = {}
                          /\ Absent # Partial
                          /\ NoState \notin Updates
ASSUME BoundsAssumption == {MaxKills, MaxPowerLosses, MaxFaults} \subseteq Nat

VARIABLES
  store,      \* [Seqs -> Files]: trust-store-<seq>.json
  diskStore,  \* [Seqs -> SUBSET Files]: what a power loss may leave of it
  state,      \* the update trust-update-state.json describes, or NoState
  diskState,  \* what a power loss may leave of that pointer
  pc,         \* [Installers -> the next system call of the command]
  job,        \* [Installers -> the update it installs, NoState when idle]
  directory,  \* "absent"; "made": its own entry was never fsynced; "durable"
  confirmed,  \* updates recorded in the ledger or reported as installed
  taken,      \* those of them a power loss took with the whole directory
  kills, losses, faults

contents == <<store, diskStore, state, diskState>>
files == <<contents, directory>>
procs == <<pc, job>>
told == <<confirmed, taken>>
bounds == <<kills, losses, faults>>
vars == <<files, procs, told, bounds>>

PCs == {"idle", "make", "open", "write", "fsync", "unlink", "syncstore", "rename",
        "syncstate", "report"}

Init == /\ store = [s \in Seqs |-> Absent]
        /\ diskStore = [s \in Seqs |-> {Absent}]
        /\ state = NoState
        /\ diskState = {NoState}
        /\ directory \in {"absent", "durable"}
        /\ pc = [i \in Installers |-> "idle"]
        /\ job = [i \in Installers |-> NoState]
        /\ confirmed = {} /\ taken = {}
        /\ kills = 0 /\ losses = 0 /\ faults = 0

Seq(p) == IF p = NoState THEN 0 ELSE p.seq

\* loadInstalledTrustState accepts the directory: no pointer, or one whose store
\* has the digest the pointer names.
Loadable == state # NoState => store[state.seq] = state.store

Go(i, from, to) == pc[i] = from /\ pc' = [pc EXCEPT ![i] = to]
Stop(i) == pc' = [pc EXCEPT ![i] = "idle"] /\ job' = [job EXCEPT ![i] = NoState]
Fault == faults < MaxFaults /\ faults' = faults + 1 /\ UNCHANGED <<kills, losses>>

\* What the directory's fsync leaves: the names as they are now. A file that
\* exists but was never fsynced keeps every content it may have had.
SyncDirectory ==
  /\ diskStore' = [s \in Seqs |-> IF store[s] = Absent THEN {Absent}
                                  ELSE diskStore[s] \ {Absent}]
  /\ diskState' = {state}
  /\ UNCHANGED <<store, state, directory>>

-----------------------------------------------------------------------------
\* The plausible bugs the properties are tested with.

ConfirmAnything(i) ==  \* an existing file is taken whatever its bytes
  /\ Go(i, "open", "syncstore")
  /\ store[job[i].seq] # Absent
  /\ UNCHANGED <<files, job, told, bounds>>

RenameThenReport(i) ==  \* the final fsync of the directory is forgotten
  /\ Go(i, "rename", "report")
  /\ state' = job[i]
  /\ diskState' = diskState \cup {job[i]}
  /\ UNCHANGED <<store, diskStore, directory, job, told, bounds>>

WriteUnsynced(i) ==  \* the store file is not fsynced
  /\ Go(i, "write", "syncstore")
  /\ store' = [store EXCEPT ![job[i].seq] = job[i].store]
  /\ diskStore' = [diskStore EXCEPT ![job[i].seq] = @ \cup {job[i].store}]
  /\ UNCHANGED <<state, diskState, directory, job, told, bounds>>

-----------------------------------------------------------------------------
(* runTrustUpdateInstall up to its first write: the installed state must load, *)
(* be of the pinned root and of an older sequence. A refusal changes nothing.  *)
(* The pinned root is the update's, or its signature does not verify.          *)
Load(i, u) ==
  /\ pc[i] = "idle" /\ Loadable
  /\ state # NoState => state.root = u.root
  /\ u.seq > Seq(state)
  /\ pc' = [pc EXCEPT ![i] = "make"] /\ job' = [job EXCEPT ![i] = u]
  /\ UNCHANGED <<files, told, bounds>>

\* installVerifiedTrustStore: os.MkdirAll, after which only what the directory
\* holds is fsynced, never the directory's own entry in its parent.
MakeDirectory(i) ==
  /\ Go(i, "make", "open")
  /\ directory' = IF directory = "absent" THEN "made" ELSE directory
  /\ UNCHANGED <<contents, job, told, bounds>>

\* writeImmutableOrConfirm: the name is free and is created, empty.
Create(i) ==
  /\ Go(i, "open", "write")
  /\ store[job[i].seq] = Absent
  /\ store' = [store EXCEPT ![job[i].seq] = Partial]
  /\ diskStore' = [diskStore EXCEPT ![job[i].seq] = @ \cup {Partial}]
  /\ UNCHANGED <<state, diskState, directory, job, told, bounds>>

\* The name exists: the same bytes are accepted as they are, without an fsync.
Confirm(i) ==
  /\ Go(i, "open", "syncstore")
  /\ store[job[i].seq] = job[i].store
  /\ UNCHANGED <<files, job, told, bounds>>

\* The name exists with other bytes.
Conflict(i) ==
  /\ pc[i] = "open"
  /\ store[job[i].seq] \notin {Absent, job[i].store}
  /\ Stop(i)
  /\ UNCHANGED <<files, told, bounds>>

Write(i) ==
  /\ Go(i, "write", "fsync")
  /\ store' = [store EXCEPT ![job[i].seq] = job[i].store]
  /\ diskStore' = [diskStore EXCEPT ![job[i].seq] = @ \cup {job[i].store}]
  /\ UNCHANGED <<state, diskState, directory, job, told, bounds>>

Fsync(i) ==
  /\ Go(i, "fsync", "syncstore")
  /\ diskStore' = [diskStore EXCEPT ![job[i].seq] = (@ \cap {Absent}) \cup {job[i].store}]
  /\ UNCHANGED <<store, state, diskState, directory, job, told, bounds>>

\* The write or the fsync fails: the deferred function removes the name.
WriteFails(i) ==
  /\ pc[i] \in {"write", "fsync"}
  /\ pc' = [pc EXCEPT ![i] = "unlink"]
  /\ Fault
  /\ UNCHANGED <<files, job, told>>

Unlink(i) ==
  /\ pc[i] = "unlink"
  /\ store' = [store EXCEPT ![job[i].seq] = Absent]
  /\ diskStore' = [diskStore EXCEPT ![job[i].seq] = @ \cup {Absent}]
  /\ Stop(i)
  /\ UNCHANGED <<state, diskState, directory, told, bounds>>

SyncStore(i) ==
  /\ Go(i, "syncstore", "rename")
  /\ SyncDirectory
  /\ UNCHANGED <<job, told, bounds>>

(* atomicReplaceFile: the pointer is written under a temporary name, fsynced   *)
(* and renamed. Until the rename nothing reads it.                             *)
Rename(i) ==
  /\ Go(i, "rename", "syncstate")
  /\ state' = job[i]
  /\ diskState' = diskState \cup {job[i]}
  /\ UNCHANGED <<store, diskStore, directory, job, told, bounds>>

SyncState(i) ==
  /\ Go(i, "syncstate", "report")
  /\ SyncDirectory
  /\ UNCHANGED <<job, told, bounds>>

\* The ledger record, when --ledger is given, and the line on stdout.
Report(i) ==
  /\ pc[i] = "report"
  /\ confirmed' = confirmed \cup {job[i]} /\ taken' = taken \ {job[i]}
  /\ Stop(i)
  /\ UNCHANGED <<files, bounds>>

\* Any other failing call ends the command with an error and undoes nothing.
Fail(i) ==
  /\ pc[i] \in {"make", "open", "syncstore", "rename", "syncstate", "report"}
  /\ Stop(i)
  /\ Fault
  /\ UNCHANGED <<files, told>>

-----------------------------------------------------------------------------
Kill(i) ==
  /\ pc[i] # "idle"
  /\ kills < MaxKills /\ kills' = kills + 1
  /\ Stop(i)
  /\ UNCHANGED <<files, told, losses, faults>>

\* Every name keeps one of the contents it may have, the directory stays.
Survives ==
  /\ \E left \in [Seqs -> Files] :
       /\ \A s \in Seqs : left[s] \in diskStore[s]
       /\ store' = left
       /\ diskStore' = [s \in Seqs |-> {left[s]}]
  /\ state' \in diskState
  /\ diskState' = {state'}
  /\ directory' = IF directory = "made" THEN "durable" ELSE directory
  /\ UNCHANGED told

\* The directory was made and its entry never fsynced: all of it is gone.
Vanishes ==
  /\ directory = "made" /\ directory' = "absent"
  /\ store' = [s \in Seqs |-> Absent]
  /\ diskStore' = [s \in Seqs |-> {Absent}]
  /\ state' = NoState
  /\ diskState' = {NoState}
  /\ taken' = confirmed
  /\ UNCHANGED confirmed

PowerLoss ==
  /\ losses < MaxPowerLosses /\ losses' = losses + 1
  /\ Survives \/ Vanishes
  /\ pc' = [i \in Installers |-> "idle"]
  /\ job' = [i \in Installers |-> NoState]
  /\ UNCHANGED <<kills, faults>>

Step(i) == \/ \E u \in Updates : Load(i, u)
           \/ MakeDirectory(i) \/ Create(i) \/ Confirm(i) \/ Conflict(i)
           \/ Write(i) \/ Fsync(i) \/ WriteFails(i) \/ Unlink(i)
           \/ SyncStore(i) \/ Rename(i) \/ SyncState(i)
           \/ Report(i) \/ Fail(i) \/ Kill(i)

Next == PowerLoss \/ \E i \in Installers : Step(i)

Spec == Init /\ [][Next]_vars

-----------------------------------------------------------------------------
\* Every variable keeps its type (the files and processes of
\* cmd/aaa/trust_update_install.go).
TypeOK ==
  /\ store \in [Seqs -> Files]
  /\ diskStore \in [Seqs -> (SUBSET Files) \ {{}}]
  /\ state \in Pointers
  /\ diskState \in (SUBSET Pointers) \ {{}}
  /\ pc \in [Installers -> PCs]
  /\ job \in [Installers -> Pointers]
  /\ \A i \in Installers : pc[i] # "idle" => job[i] # NoState
  /\ directory \in {"absent", "made", "durable"}
  /\ confirmed \subseteq Updates /\ taken \subseteq confirmed
  /\ kills \in 0..MaxKills /\ losses \in 0..MaxPowerLosses /\ faults \in 0..MaxFaults

\* What was confirmed and not taken with the directory since.
Owed == confirmed \ taken

\* An install the ledger or the operator was told of is never taken back by less
\* than the loss of the whole directory: the pointer, now and after any power
\* loss that leaves the directory, names its sequence or a later one of the same
\* root key (the ordering of writes in installVerifiedTrustStore and the sequence
\* gate of VerifyTrustStoreUpdate). The exception is real: a command that made
\* the directory never fsyncs its parent, and one power loss may take the
\* directory with every install confirmed in it, after which an older update is
\* accepted again. It ends with the first power loss that leaves the directory.
ConfirmedNeverRolledBack ==
  \A u \in Owed : \A p \in diskState \cup {state} :
    p # NoState /\ p.seq >= u.seq /\ p.root = u.root

\* Every store the ledger or the operator was told of, the active one and those
\* it superseded, stays on disk with the bytes that were confirmed, whatever
\* commands are killed, fail or lose power later (the exclusive create, the fsyncs
\* and the comparison of bytes in writeImmutableOrConfirm). It has the exception
\* of ConfirmedNeverRolledBack, a directory taken whole, and that of
\* OneInterruptionIsSurvived, a kill followed by a power loss.
ConfirmedStoresKept ==
  kills = 0 \/ losses = 0 => \A u \in Owed : store[u.seq] = u.store

\* The pointer names a store file that has the bytes it was installed with, so
\* that loadInstalledTrustState accepts the directory.
ActiveStoreIntact == Loadable

\* Commands killed at any step, or power lost at any moment, leave a directory
\* that loads; only a kill followed by a power loss may not (writeImmutableOrConfirm
\* does not fsync a file it finds).
OneInterruptionIsSurvived == kills = 0 \/ losses = 0 => ActiveStoreIntact
=============================================================================
