-------------------------- MODULE ReplicaSession --------------------------
(* Replicating evidence to a mounted directory: cmd/aaa/evidence_replica.go,   *)
(* cmd/aaa/evidence_replica_session.go and the documents of                    *)
(* internal/evidencereplica.                                                   *)
(*                                                                             *)
(* An object lies in the replica under the digest of its bytes. A command      *)
(* hashes its sources first and copies them later, so a source may change in   *)
(* between; commands take no lock and meet under the same names. "replicate"   *)
(* copies one object and leaves a receipt, "replicate-session" goes on after   *)
(* an object that failed and leaves one document of all results.               *)
(*                                                                             *)
(* A content stands for its digest and its size. The directories above an      *)
(* object are created and never fsynced: a power loss may take any object that *)
(* no earlier one has left in place. The replica may also be damaged, as the   *)
(* storage it is meant for can be.                                             *)
EXTENDS Naturals, Sequences, FiniteSets

CONSTANTS
  Commands,    \* replicate and replicate-session commands that may be under way
  Paths,       \* source files named on command lines
  Kinds,       \* object kinds
  Contents,    \* what a source may hold
  Absent,      \* no object under a name, no temporary file
  Broken,      \* bytes no source ever held
  MaxStarts,   \* bound on commands started
  MaxChanges,  \* bound on changes of the sources
  MaxHarms,    \* bound on damage and power losses
  MaxKills,    \* bound on killed commands
  MaxFaults    \* bound on failing calls

ASSUME ValuesAssumption ==
  /\ Absent # Broken /\ {Absent, Broken} \cap Contents = {}
  /\ IsFiniteSet(Paths)
ASSUME BoundsAssumption ==
  {MaxStarts, MaxChanges, MaxHarms, MaxKills, MaxFaults} \subseteq Nat

VARIABLES
  source,      \* what each path holds
  object,      \* what the replica holds under the name of each content
  anchored,    \* the names whose directories are durable
  unflushed,   \* the objects whose bytes are not on disk
  damaged,     \* the objects damaged since they were published
  pc,          \* per command: its next step
  single,      \* per command: it is "replicate", not "replicate-session"
  todo,        \* per command: the arguments left, [path, kind] and later the digest
  results,     \* per command: what it has recorded
  temp,        \* per command: its temporary file, [bytes, synced] or Absent
  intact,      \* per command: nothing harmed what it has found replicated
  excused,     \* per command: something happened that may make an object fail
  documents,   \* receipts and session documents written
  scrap,       \* a stopped command left a part of a document under a name
  starts, changes, harms, kills, faults

replica == <<object, anchored, unflushed, damaged>>
procs == <<pc, single, todo, results, temp, intact, excused>>
papers == <<documents, scrap>>
bounds == <<starts, changes, harms, kills, faults>>
vars == <<source, replica, procs, papers, bounds>>

PCs == {"idle", "hash", "present", "look", "copy", "sync", "link", "verify",
        "settle", "write"}
\* SessionObject: two results are enough, the error class is wording.
Results == [kind : Kinds, digest : Contents, result : {"replicated", "present", "failed"}]

Init == /\ source \in [Paths -> Contents]
        /\ object = [c \in Contents |-> Absent]
        /\ anchored = {} /\ unflushed = {} /\ damaged = {}
        /\ pc = [p \in Commands |-> "idle"]
        /\ single = [p \in Commands |-> FALSE]
        /\ todo = [p \in Commands |-> <<>>]
        /\ results = [p \in Commands |-> {}]
        /\ temp = [p \in Commands |-> Absent]
        /\ intact = [p \in Commands |-> TRUE]
        /\ excused = [p \in Commands |-> FALSE]
        /\ documents = {} /\ scrap = FALSE
        /\ starts = 0 /\ changes = 0 /\ harms = 0 /\ kills = 0 /\ faults = 0

-----------------------------------------------------------------------------
\* Plausible bugs.
AnyCopy(bytes, digest) == TRUE             \* the copy is not hashed
AnyObject(c) == object[c] # Absent         \* a name is taken for its object
NameIsFree(c) == object[c] = Absent        \* a name taken meanwhile is an error
-----------------------------------------------------------------------------
\* The intent of an object: a receipt's kind and digest, which give its name.
Intent(o) == [kind |-> o.kind, digest |-> o.digest]

\* SessionID refuses a selection that names one object twice. The identity of a
\* session is the set of its intents, in whatever order they were given.
SessionID(objects) == {Intent(o) : o \in objects}
Duplicate(list) ==
  \E i, j \in DOMAIN list : i < j /\ Intent(list[i]) = Intent(list[j])

\* hashRegularFile of an object, and what is compared with it.
Holds(c) == object[c] = c
AlreadyPresent(c) == Holds(c)
CopyMatches(bytes, digest) == bytes = digest
MayPublish(c) == object[c] = Absent \/ Holds(c)

Claims(objects) == {o.digest : o \in {r \in objects : r.result # "failed"}}
Failures(objects) == {o \in objects : o.result = "failed"}

\* Validate of a session: something is listed, nothing twice.
WellFormed(objects) ==
  /\ objects # {}
  /\ Cardinality(SessionID(objects)) = Cardinality(objects)

\* DecodeReceiptStrict and DecodeSessionStrict accept what their encoders write.
ReadableReceipt(d) == d.receipt /\ Cardinality(d.objects) = 1 /\ Failures(d.objects) = {}
ReadableSession(d) == ~d.receipt /\ WellFormed(d.objects)

\* replica verify hashes the one object of a receipt, verify-session every object
\* the session claims; the ones that failed are passed over, and then the session
\* is called incomplete, which ends the command with an error too.
VerifiesReceipt(d) == ReadableReceipt(d) /\ \A o \in d.objects : Holds(o.digest)
SessionIntact(d) == ReadableSession(d) /\ \A c \in Claims(d.objects) : Holds(c)
VerifySession(d) == IF ~SessionIntact(d) THEN "error"
                    ELSE IF Failures(d.objects) # {} THEN "incomplete" ELSE "verified"

Current(p) == Head(todo[p])
Go(p, from, to) == pc[p] = from /\ pc' = [pc EXCEPT ![p] = to]
Stop(P) == /\ pc' = [p \in Commands |-> IF p \in P THEN "idle" ELSE pc[p]]
           /\ single' = [p \in Commands |-> IF p \in P THEN FALSE ELSE single[p]]
           /\ todo' = [p \in Commands |-> IF p \in P THEN <<>> ELSE todo[p]]
           /\ results' = [p \in Commands |-> IF p \in P THEN {} ELSE results[p]]
           /\ temp' = [p \in Commands |-> IF p \in P THEN Absent ELSE temp[p]]
           /\ intact' = [p \in Commands |-> p \in P \/ intact[p]]
           /\ excused' = [p \in Commands |-> p \notin P /\ excused[p]]

-----------------------------------------------------------------------------
\* The command line: one source, or several for a session.
Arguments == {list \in UNION {[1..n -> [path : Paths, kind : Kinds, digest : {Absent}]] :
                              n \in 1..Cardinality(Paths)} :
                \A i, j \in DOMAIN list : i # j => list[i].path # list[j].path}

Start(p) == /\ starts < MaxStarts /\ starts' = starts + 1
            /\ Go(p, "idle", "hash")
            /\ \E list \in Arguments, one \in BOOLEAN :
                 /\ one => Len(list) = 1
                 /\ todo' = [todo EXCEPT ![p] = list]
                 /\ single' = [single EXCEPT ![p] = one]
            /\ UNCHANGED <<source, replica, results, temp, intact, excused, papers, changes, harms, kills, faults>>

\* Every source is hashed before anything is copied; a selection with a
\* duplicate is refused when all digests are known.
HashSource(p) ==
  /\ pc[p] = "hash"
  /\ LET i == CHOOSE n \in DOMAIN todo[p] : /\ todo[p][n].digest = Absent
                                            /\ \A m \in 1..(n - 1) : todo[p][m].digest # Absent
         list == [todo[p] EXCEPT ![i].digest = source[todo[p][i].path]]
     IN CASE i < Len(list) ->
               /\ todo' = [todo EXCEPT ![p] = list]
               /\ UNCHANGED <<pc, single, results, temp, intact, excused>>
          [] i = Len(list) /\ Duplicate(list) -> Stop({p})
          [] OTHER ->
               /\ todo' = [todo EXCEPT ![p] = list]
               /\ pc' = [pc EXCEPT ![p] = IF single[p] THEN "look" ELSE "present"]
               /\ UNCHANGED <<single, results, temp, intact, excused>>
  /\ UNCHANGED <<source, replica, papers, bounds>>

\* What the command records of the object at hand. "replicate" ends with the
\* first error and leaves no receipt; a session goes on.
Record(p, result, fault) ==
  IF single[p] /\ result = "failed"
    THEN Stop({p})
    ELSE /\ results' = [results EXCEPT ![p] = @ \cup
                          {[kind |-> Current(p).kind, digest |-> Current(p).digest,
                            result |-> result]}]
         /\ todo' = [todo EXCEPT ![p] = Tail(@)]
         /\ pc' = [pc EXCEPT ![p] = IF Len(todo[p]) = 1 THEN "write" ELSE "present"]
         /\ temp' = [temp EXCEPT ![p] = Absent]
         /\ excused' = [excused EXCEPT ![p] =
              @ \/ fault \/ (result = "failed" /\ Current(p).digest \in damaged)]
         /\ UNCHANGED <<single, intact>>

\* A session asks for the object first. An object with other bytes is an error
\* here, and found again by replicateObject.
FindPresent(p) ==
  /\ pc[p] = "present"
  /\ IF AlreadyPresent(Current(p).digest)
       THEN Record(p, "present", FALSE)
       ELSE /\ pc' = [pc EXCEPT ![p] = "look"]
            /\ UNCHANGED <<single, todo, results, temp, intact, excused>>
  /\ UNCHANGED <<source, replica, papers, bounds>>

\* replicateObject makes the directories and looks itself: another command may
\* have published the object since.
Look(p) ==
  /\ pc[p] = "look"
  /\ CASE Holds(Current(p).digest) -> Record(p, "replicated", FALSE)
       [] object[Current(p).digest] = Absent ->
            /\ pc' = [pc EXCEPT ![p] = "copy"]
            /\ UNCHANGED <<single, todo, results, temp, intact, excused>>
       [] OTHER -> Record(p, "failed", FALSE)
  /\ UNCHANGED <<source, replica, papers, bounds>>

\* The opened source goes to a temporary file; its digest must be the receipt's.
Copy(p) ==
  /\ pc[p] = "copy"
  /\ LET bytes == source[Current(p).path]
     IN IF CopyMatches(bytes, Current(p).digest)
          THEN /\ temp' = [temp EXCEPT ![p] = [bytes |-> bytes, synced |-> FALSE]]
               /\ pc' = [pc EXCEPT ![p] = "sync"]
               /\ UNCHANGED <<single, todo, results, intact, excused>>
          ELSE Record(p, "failed", FALSE)
  /\ UNCHANGED <<source, replica, papers, bounds>>

SyncTemp(p) == /\ Go(p, "sync", "link")
               /\ temp' = [temp EXCEPT ![p].synced = TRUE]
               /\ UNCHANGED <<source, replica, single, todo, results, intact, excused, papers, bounds>>

\* os.Link never overwrites: an object published meanwhile is compared.
Link(p) ==
  /\ pc[p] = "link"
  /\ LET c == Current(p).digest
     IN IF ~MayPublish(c)
          THEN Record(p, "failed", FALSE) /\ UNCHANGED replica
          ELSE /\ IF object[c] = Absent
                    THEN /\ object' = [object EXCEPT ![c] = temp[p].bytes]
                         /\ unflushed' = IF temp[p].synced THEN unflushed ELSE unflushed \cup {c}
                         /\ UNCHANGED <<anchored, damaged>>
                    ELSE UNCHANGED replica
               /\ temp' = [temp EXCEPT ![p] = Absent]
               /\ pc' = [pc EXCEPT ![p] = "verify"]
               /\ UNCHANGED <<single, todo, results, intact, excused>>
  /\ UNCHANGED <<source, papers, bounds>>

VerifyPublished(p) ==
  /\ pc[p] = "verify"
  /\ IF Holds(Current(p).digest)
       THEN /\ pc' = [pc EXCEPT ![p] = "settle"]
            /\ UNCHANGED <<single, todo, results, temp, intact, excused>>
       ELSE Record(p, "failed", FALSE)
  /\ UNCHANGED <<source, replica, papers, bounds>>

\* syncDirectory of the directory the object lies in; those above are not.
SettleObject(p) == /\ pc[p] = "settle"
                   /\ Record(p, "replicated", FALSE)
                   /\ UNCHANGED <<source, replica, papers, bounds>>

\* The document is built of all results and written to a new file: a document, or
\* a part of one, that has the name given ends the command.
WriteDocument(p) ==
  /\ pc[p] = "write"
  /\ \/ documents' = IF WellFormed(results[p])
                       THEN documents \cup {[receipt |-> single[p], objects |-> results[p],
                                             intact |-> intact[p], excused |-> excused[p]]}
                       ELSE documents
     \/ (documents # {} \/ scrap) /\ documents' = documents
  /\ Stop({p})
  /\ UNCHANGED <<source, replica, scrap, bounds>>

-----------------------------------------------------------------------------
\* A call fails. Before the copies, and for the document, it ends the command;
\* asking for the object it is ignored; else the object has failed.
FailingCall(p) ==
  /\ faults < MaxFaults /\ faults' = faults + 1
  /\ \/ /\ pc[p] \in {"hash", "write"}
        /\ Stop({p})
     \/ /\ Go(p, "present", "look")
        /\ UNCHANGED <<single, todo, results, temp, intact, excused>>
     \/ /\ pc[p] \notin {"idle", "hash", "present", "write"}
        /\ Record(p, "failed", TRUE)
  /\ UNCHANGED <<source, replica, papers, starts, changes, harms, kills>>

\* A killed command leaves at most a temporary file nobody reads, and a part of
\* its document.
Kill(p) == /\ pc[p] # "idle"
           /\ kills < MaxKills /\ kills' = kills + 1
           /\ Stop({p})
           /\ scrap' \in {scrap, scrap \/ pc[p] = "write"}
           /\ UNCHANGED <<source, replica, documents, starts, changes, harms, faults>>

\* A source is rewritten or replaced. Every command that has it on its list may
\* fail for that.
ChangeSource(s) ==
  /\ changes < MaxChanges /\ changes' = changes + 1
  /\ \E c \in Contents \ {source[s]} : source' = [source EXCEPT ![s] = c]
  /\ excused' = [p \in Commands |->
                   excused[p] \/ \E i \in DOMAIN todo[p] : todo[p][i].path = s]
  /\ UNCHANGED <<replica, pc, single, todo, results, temp, intact, papers, starts, harms, kills, faults>>

\* Harm to the objects C: what was found or published before is no longer owed.
Harm(C) ==
  /\ harms < MaxHarms /\ harms' = harms + 1
  /\ documents' = {[d EXCEPT !.intact = @ /\ Claims(d.objects) \cap C = {}] : d \in documents}
  /\ UNCHANGED <<source, starts, changes, kills, faults>>

Damage(c) ==
  /\ object[c] \notin {Absent, Broken}
  /\ object' = [object EXCEPT ![c] = Broken]
  /\ damaged' = damaged \cup {c}
  /\ intact' = [p \in Commands |->
                  /\ intact[p] /\ c \notin Claims(results[p])
                  /\ pc[p] = "settle" => Current(p).digest # c]
  /\ Harm({c})
  /\ UNCHANGED <<anchored, unflushed, scrap, pc, single, todo, results, temp, excused>>

\* A power loss ends all commands and takes objects whose directories are not
\* durable, and the bytes of objects that were not flushed. The documents are
\* held by the operator, elsewhere.
PowerLoss ==
  \E taken \in SUBSET {c \in Contents \ anchored : object[c] # Absent} :
    /\ object' = [c \in Contents |-> CASE c \in taken -> Absent
                                       [] c \in unflushed \ taken -> Broken
                                       [] OTHER -> object[c]]
    /\ anchored' = {c \in Contents : object'[c] # Absent}
    /\ unflushed' = {}
    /\ damaged' = damaged \ taken
    /\ scrap' \in {scrap, scrap \/ \E p \in Commands : pc[p] = "write"}
    /\ Stop(Commands)
    /\ Harm(taken)

Step(p) == \/ HashSource(p) \/ FindPresent(p) \/ Look(p) \/ Copy(p) \/ SyncTemp(p)
           \/ Link(p) \/ VerifyPublished(p) \/ SettleObject(p) \/ WriteDocument(p)

Next == \/ \E p \in Commands : Start(p) \/ Step(p) \/ FailingCall(p) \/ Kill(p)
        \/ \E s \in Paths : ChangeSource(s)
        \/ \E c \in Contents : Damage(c)
        \/ PowerLoss

Spec == Init /\ [][Next]_vars

-----------------------------------------------------------------------------
\* The types of the variables.
TypeOK ==
  /\ source \in [Paths -> Contents]
  /\ object \in [Contents -> Contents \cup {Absent, Broken}]
  /\ anchored \subseteq Contents /\ unflushed \subseteq Contents /\ damaged \subseteq Contents
  /\ pc \in [Commands -> PCs]
  /\ single \in [Commands -> BOOLEAN] /\ intact \in [Commands -> BOOLEAN]
  /\ excused \in [Commands -> BOOLEAN]
  /\ todo \in [Commands -> Seq([path : Paths, kind : Kinds, digest : Contents \cup {Absent}])]
  /\ results \in [Commands -> SUBSET Results]
  /\ temp \in [Commands -> [bytes : Contents, synced : BOOLEAN] \cup {Absent}]
  /\ documents \subseteq [receipt : BOOLEAN, objects : SUBSET Results,
                       intact : BOOLEAN, excused : BOOLEAN]
  /\ scrap \in BOOLEAN
  /\ {starts, changes, harms, kills, faults} \subseteq Nat

\* A name in the replica never shows other bytes than those of its digest, unless
\* they were damaged there: not while sources change under the copy, not with two
\* commands publishing the same object, not after a kill or a power loss
\* (replicateObject hashes, flushes and links in that order).
NamesAreDigests == \A c \in Contents : Holds(c) \/ object[c] = Absent \/ c \in damaged

\* A receipt or session document verifies from the moment it is written until harm
\* comes to an object it claims; in particular nothing is called replicated or
\* already present that was missing or damaged when the command came to it. Only a
\* session with failed objects is called incomplete (runEvidenceReplicateSession,
\* replicaObjectAlreadyPresent, runEvidenceReplicaVerifySession).
DocumentsHold ==
  \A d \in documents :
    d.intact => IF d.receipt THEN VerifiesReceipt(d)
                ELSE VerifySession(d) = IF Failures(d.objects) = {} THEN "verified"
                                                                    ELSE "incomplete"

\* A session records failed objects only when it met a cause: a call of it failed, a
\* source on its list changed or the replica held damaged bytes under a name it came
\* to. Two commands that publish the same object, or one session that lists it under
\* two kinds, do not make each other fail (the os.ErrExist branch of replicateObject).
FailuresHaveCauses == \A d \in documents : Failures(d.objects) # {} => d.excused

=============================================================================
