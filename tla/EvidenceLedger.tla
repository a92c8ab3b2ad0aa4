--------------------------- MODULE EvidenceLedger ---------------------------
(* The hash-chained evidence ledger: its records and their verification        *)
(* (internal/evidenceledger/model.go), signed checkpoints of its tail          *)
(* (internal/evidenceledger/checkpoint.go) and the append command with its     *)
(* file lock, its checks and its fsyncs (cmd/aaa/evidence_ledger.go). That     *)
(* command reads and verifies the ledger once more behind a successful append  *)
(* (line 62), which changes nothing and is left out: acked holds what the      *)
(* append reported, to that command and to the others that record an entry.    *)
(*                                                                             *)
(* Several commands append to one path. A file restored from a copy, whole or  *)
(* damaged, takes the path without asking for the lock; commands that hold the *)
(* old file open go on with the old file. A digest stands for the bytes it is  *)
(* computed from.                                                              *)
EXTENDS Naturals, FiniteSets, Sequences, SequencesExt

CONSTANTS
  Appenders,       \* concurrent append commands
  Entries,         \* what a record says: event, object, time and note
  None,            \* no entry, no record
  MaxRecords,      \* maxEvidenceLedgerBytes, in records
  MaxCheckpoints,  \* bound on signed checkpoints
  MaxRestores,     \* bound on restored copies
  MaxIncidents     \* bound on kills, failing calls, power losses and restores, together

ASSUME BoundsAssumption ==
  {MaxRecords, MaxCheckpoints, MaxRestores, MaxIncidents} \subseteq Nat
ASSUME NoneAssumption == None \notin Entries

VARIABLES
  lines,        \* the complete records of the file at the ledger path
  torn,         \* "no", or the file ends in a part of a record: "cached", "disk"
  synced,       \* how many records a power loss cannot take
  linked,       \* the file's name was made durable
  directory,    \* the ledger's directory: "absent", "made" or "durable"
  inode,        \* which file the path names, by number
  pc, fd, record,  \* per append command: next step, open file, new record
  acked,        \* [file, record] whose append returned success
  checkpoints,  \* signed [seq, tail]; file and history are the properties' only
  stops,        \* kills and failing calls, counted
  losses, restores

file == <<lines, torn, synced, linked, inode>>
ledger == <<file, directory>>
procs == <<pc, fd, record>>
bounds == <<stops, losses, restores>>
vars == <<ledger, procs, acked, checkpoints, bounds>>

Digest(line) == <<"sha256", line>>
ZeroLinkHash == <<"sha256", None>>

LinkedBySequence(ls) ==  \* a plausible bug: the links are not compared
  \A k \in DOMAIN ls : ls[k].seq = k

\* Verify: sequences count from one and every record links to the one before.
\* An incomplete last record fails the whole ledger.
Linked(ls) ==
  \A k \in DOMAIN ls :
    /\ ls[k].seq = k
    /\ ls[k].previous = IF k = 1 THEN ZeroLinkHash ELSE Digest(ls[k - 1])
Verify == torn = "no" /\ Linked(lines)

BuildRecord(e) ==
  [seq |-> Len(lines) + 1, entry |-> e,
   previous |-> IF lines = <<>> THEN ZeroLinkHash ELSE Digest(Last(lines))]

\* BuildCheckpoint over the ledger at the path.
Checkpoint == [seq |-> Len(lines), tail |-> Digest(Last(lines)),
               file |-> inode, history |-> lines]

\* VerifyLedgerAgainstCheckpoint, the signature being the trusted key's.
Accepts(c) == /\ Verify
              /\ Len(lines) >= c.seq
              /\ Digest(lines[c.seq]) = c.tail

Steps == {"idle", "lock", "read", "recheck", "write", "sync", "syncdir"}
Locked == Steps \ {"idle", "lock"}

\* No ledger yet, nor its directory: one that was there before the ledger is one
\* that every power loss spares.
Init == /\ lines = <<>> /\ torn = "no" /\ synced = 0 /\ linked = FALSE /\ inode = 0
        /\ directory = "absent"
        /\ pc = [a \in Appenders |-> "idle"]
        /\ fd = [a \in Appenders |-> 0]
        /\ record = [a \in Appenders |-> None]
        /\ acked = {} /\ checkpoints = {}
        /\ stops = 0 /\ losses = 0 /\ restores = 0

Go(a, from, to) == pc[a] = from /\ pc' = [pc EXCEPT ![a] = to]
Close(a) == /\ pc' = [pc EXCEPT ![a] = "idle"]
            /\ record' = [record EXCEPT ![a] = None]
            /\ fd' = [fd EXCEPT ![a] = 0]
Incident == stops + losses + restores < MaxIncidents
Stopped == Incident /\ stops' = stops + 1 /\ UNCHANGED <<losses, restores>>

\* os.SameFile: the path still names the file the command has open.
SameFile(a) == fd[a] = inode

\* And that file still has the size it had when it was read.
Unchanged(a) == SameFile(a) /\ torn = "no" /\ Len(lines) + 1 = record[a].seq

-----------------------------------------------------------------------------
\* The plausible bugs the properties are tested with.

LockShared(a) ==  \* appenders do not exclude each other
  /\ Go(a, "lock", "read")
  /\ UNCHANGED <<ledger, fd, record, acked, checkpoints, bounds>>

PrepareTruncating(a, e) ==  \* an incomplete last record is dropped
  /\ Go(a, "read", "recheck")
  /\ SameFile(a) /\ Linked(lines) /\ Len(lines) < MaxRecords
  /\ torn' = "no"
  /\ record' = [record EXCEPT ![a] = BuildRecord(e)]
  /\ UNCHANGED <<lines, synced, linked, inode, directory, fd, acked, checkpoints, bounds>>

WriteAcked(a) ==  \* success before the fsyncs
  /\ Go(a, "write", "sync")
  /\ lines' = IF SameFile(a) THEN Append(lines, record[a]) ELSE lines
  /\ acked' = acked \cup {[file |-> fd[a], record |-> record[a]]}
  /\ UNCHANGED <<torn, synced, linked, inode, directory, fd, record, checkpoints, bounds>>

SignUnlocked ==  \* the ledger is read without the shared lock
  /\ Verify /\ lines # <<>> /\ Cardinality(checkpoints) < MaxCheckpoints
  /\ checkpoints' = checkpoints \cup {Checkpoint}
  /\ UNCHANGED <<ledger, procs, acked, bounds>>

-----------------------------------------------------------------------------
\* runEvidenceLedgerAppend or recordIntegratedLedger opens or creates the ledger.
\* Of a directory MkdirAll creates, nothing fsyncs the one above.
Open(a) ==
  /\ Go(a, "idle", "lock")
  /\ fd' = [fd EXCEPT ![a] = inode]
  /\ directory' = IF directory = "absent" THEN "made" ELSE directory
  /\ UNCHANGED <<file, record, acked, checkpoints, bounds>>

\* LOCK_EX: no other command holds a lock on the same open file.
Lock(a) ==
  /\ Go(a, "lock", "read")
  /\ \A b \in Appenders \ {a} : pc[b] \in Locked => fd[b] # fd[a]
  /\ UNCHANGED <<ledger, fd, record, acked, checkpoints, bounds>>

\* The whole file is read and verified, the next record built from its tail.
\* (The object e was hashed before the file was opened; only here is it used.)
Prepare(a, e) ==
  /\ Go(a, "read", "recheck")
  /\ SameFile(a) /\ Verify /\ Len(lines) < MaxRecords
  /\ record' = [record EXCEPT ![a] = BuildRecord(e)]
  /\ UNCHANGED <<ledger, fd, acked, checkpoints, bounds>>

\* The path must still name that file, and the file have its size.
Recheck(a) ==
  /\ Go(a, "recheck", "write")
  /\ Unchanged(a)
  /\ UNCHANGED <<ledger, fd, record, acked, checkpoints, bounds>>

\* A check fails: error, nothing written, the lock goes with the open file.
Refuse(a) ==
  /\ \/ pc[a] = "read" /\ ~(SameFile(a) /\ Verify /\ Len(lines) < MaxRecords)
     \/ pc[a] = "recheck" /\ ~Unchanged(a)
  /\ Close(a)
  /\ UNCHANGED <<ledger, acked, checkpoints, bounds>>

\* The record reaches the open file, which need no longer be the ledger.
Write(a) ==
  /\ Go(a, "write", "sync")
  /\ lines' = IF SameFile(a) THEN Append(lines, record[a]) ELSE lines
  /\ UNCHANGED <<torn, synced, linked, inode, directory, fd, record, acked, checkpoints, bounds>>

\* The write fails and may have left a part of the record.
WriteFails(a) ==
  /\ pc[a] = "write"
  /\ torn' \in {torn, IF SameFile(a) THEN "cached" ELSE torn}
  /\ Close(a)
  /\ Stopped
  /\ UNCHANGED <<lines, synced, linked, inode, directory, acked, checkpoints>>

Sync(a) ==
  /\ Go(a, "sync", "syncdir")
  /\ synced' = IF SameFile(a) /\ linked THEN Len(lines) ELSE synced
  /\ UNCHANGED <<lines, torn, linked, inode, directory, fd, record, acked, checkpoints, bounds>>

\* The directory is fsynced and append returns success.
SyncDir(a) ==
  /\ pc[a] = "syncdir"
  /\ linked' = TRUE
  /\ synced' = IF SameFile(a) THEN Len(lines) ELSE synced
  /\ acked' = acked \cup {[file |-> fd[a], record |-> record[a]]}
  /\ Close(a)
  /\ UNCHANGED <<lines, torn, inode, directory, checkpoints, bounds>>

\* Any other call fails: an error, although the record may have been written.
Fail(a) ==
  /\ pc[a] \in {"read", "recheck", "sync", "syncdir"}
  /\ Close(a)
  /\ Stopped
  /\ UNCHANGED <<ledger, acked, checkpoints>>

(* checkpoint sign: the ledger is read under a shared lock, so no append of it *)
(* is under way, verified, and its tail signed into a new file.                *)
Sign ==
  /\ Verify /\ lines # <<>> /\ Cardinality(checkpoints) < MaxCheckpoints
  /\ \A a \in Appenders : pc[a] \in Locked => ~SameFile(a)
  /\ checkpoints' = checkpoints \cup {Checkpoint}
  /\ UNCHANGED <<ledger, procs, acked, bounds>>

-----------------------------------------------------------------------------
Kill(a) ==
  /\ pc[a] # "idle"
  /\ Close(a)
  /\ Stopped
  /\ UNCHANGED <<ledger, acked, checkpoints>>

\* The file loses records that were not fsynced, the first of them perhaps not
\* entirely.
LedgerSurvives ==
  /\ \E n \in synced..Len(lines) :
       /\ lines' = SubSeq(lines, 1, n)
       /\ synced' = n
       /\ torn' \in CASE n < Len(lines) -> {"no", "disk"}
                      [] torn = "cached" -> {"no", "disk"}
                      [] OTHER -> {torn}
  /\ directory' = IF directory = "absent" THEN "absent" ELSE "durable"
  /\ UNCHANGED <<linked, inode>>

\* Or the directory an append created was never on disk, and all in it is lost.
LedgerVanishes ==
  /\ directory = "made" /\ directory' = "absent"
  /\ lines' = <<>> /\ torn' = "no" /\ synced' = 0 /\ linked' = FALSE
  /\ inode' = inode + 1

PowerLoss ==
  /\ Incident /\ losses' = losses + 1
  /\ LedgerSurvives \/ LedgerVanishes
  /\ pc' = [a \in Appenders |-> "idle"]
  /\ fd' = [a \in Appenders |-> 0]
  /\ record' = [a \in Appenders |-> None]
  /\ UNCHANGED <<acked, checkpoints, stops, restores>>

(* Another file takes the path: an older copy, or one in which a record was    *)
(* lost or made again with a statement hash of its own.                        *)
Copies ==
  {SubSeq(lines, 1, n) : n \in 0..Len(lines)}
    \cup {RemoveAt(lines, k) : k \in DOMAIN lines}
    \cup {ReplaceAt(lines, k, [lines[k] EXCEPT !.entry = e]) : k \in DOMAIN lines, e \in Entries}

Restore ==
  /\ Incident /\ restores < MaxRestores /\ restores' = restores + 1
  /\ directory # "absent"
  /\ lines' \in Copies
  /\ torn' = "no" /\ synced' = Len(lines') /\ linked' = TRUE
  /\ inode' = inode + 1
  /\ UNCHANGED <<directory, procs, acked, checkpoints, stops, losses>>

Step(a) == \/ Open(a) \/ Lock(a)
           \/ \E e \in Entries : Prepare(a, e)
           \/ Recheck(a) \/ Refuse(a)
           \/ Write(a) \/ WriteFails(a) \/ Sync(a) \/ SyncDir(a)
           \/ Fail(a) \/ Kill(a)

Next == Sign \/ PowerLoss \/ Restore \/ \E a \in Appenders : Step(a)

Spec == Init /\ [][Next]_vars

-----------------------------------------------------------------------------
\* A record by its fields, previous standing for the whole chain behind it.
IsRecord(r) == /\ DOMAIN r = {"seq", "entry", "previous"}
               /\ r.seq \in 1..MaxRecords
               /\ r.entry \in Entries

\* Every variable keeps its type (evidenceledger.Record, Checkpoint).
TypeOK ==
  /\ lines \in Seq(Range(lines))
  /\ \A k \in DOMAIN lines : IsRecord(lines[k])
  /\ Len(lines) <= MaxRecords
  /\ torn \in {"no", "cached", "disk"}
  /\ synced \in 0..Len(lines)
  /\ linked \in BOOLEAN
  /\ directory \in {"absent", "made", "durable"}
  /\ inode \in 0..(restores + losses)
  /\ pc \in [Appenders -> Steps]
  /\ fd \in [Appenders -> 0..inode]
  /\ DOMAIN record = Appenders
  /\ \A a \in Appenders :
       pc[a] \in {"recheck", "write", "sync", "syncdir"} => IsRecord(record[a])
  /\ \A x \in acked : x.file \in 0..inode
  /\ \A c \in checkpoints : c.seq \in 1..MaxRecords /\ c.file \in 0..inode
  /\ {stops, losses, restores} \subseteq 0..MaxIncidents

\* A ledger that verifies against a checkpoint holds, up to the checkpoint,
\* exactly the records that were signed: no restored copy with records lost,
\* changed or appended anew instead passes (VerifyLedgerAgainstCheckpoint).
CheckpointBinds ==
  \A c \in checkpoints : Accepts(c) => SubSeq(lines, 1, c.seq) = c.history

\* A record whose append succeeded stays at its place in its file, and no power
\* loss takes it while the path names that file: until a copy takes the path, or
\* a power loss the whole directory that the append had created and that was
\* never fsynced above (the lock and the two fsyncs of appendEvidenceLedgerRecord).
AckedIsInLedger ==
  \A x \in acked :
    x.file = inode => x.record.seq <= synced /\ lines[x.record.seq] = x.record

\* What append writes makes a ledger that verifies: a ledger that does not is
\* never extended, and two commands never write the same sequence
\* (appendEvidenceLedgerRecord under LOCK_EX).
ExtensionVerifies ==
  [][inode' = inode /\ Len(lines') > Len(lines) => Verify /\ Linked(lines')]_vars

\* No command repairs, truncates or overwrites the ledger: short of a power loss
\* a file only grows, and not behind an incomplete record.
NeverRewritten ==
  [][inode' = inode /\ losses' = losses =>
       /\ IsPrefix(lines, lines')
       /\ torn # "no" => lines' = lines /\ torn' = torn]_vars

\* A signed checkpoint keeps verifying as the file it was signed over grows. The
\* exceptions are a file with an incomplete record, and a tail signed after its
\* append stopped before the fsync, which a power loss can take.
CheckpointsStayValid ==
  torn = "no" /\ (stops = 0 \/ losses = 0)
    => \A c \in checkpoints : c.file = inode => Accepts(c)
=============================================================================
