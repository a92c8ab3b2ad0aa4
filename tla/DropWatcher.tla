----------------------------- MODULE DropWatcher -----------------------------
(* The drop folder: internal/dropfolder polls a directory that network users   *)
(* write to, waits until a file has not changed for a while, copies it into    *)
(* the incoming directory, submits the copy and keeps a receipt, so that a     *)
(* restart does not scan again what lies there (watcher.go, dropfolder.go,     *)
(* receipts.go; its place in the daemon is in cmd/aaa/daemon.go).              *)
(*                                                                             *)
(* The users' writes fall between any two of the watcher's system calls. Every *)
(* write gives the file a new modification time; a file that is created or     *)
(* moved into place is a new inode.                                            *)
(*                                                                             *)
(* Time is counted in ticks of PollInterval. The ticker's channel holds one    *)
(* tick and drops the next ones, and a poll reckons with the time its tick was *)
(* sent, however late it is received and however long ago that is by the time  *)
(* a file is looked at.                                                        *)
EXTENDS Naturals, FiniteSets

CONSTANTS
  Names,        \* visible names in the drop root, numbered as os.ReadDir sorts them
  Contents,     \* non-empty contents of files
  Large,        \* those of more than MaxBytes
  Mixed,        \* a copy taken partly before and partly after a change in place
  None,         \* no file, no observation, no receipt
  StableTicks,  \* StableFor, in ticks
  MaxDelay,     \* bound on the ticks between one poll's start and the next's
  MaxWrites,    \* bound on the users' writes
  MaxDowns      \* bound on crashes, stops and failing writes of the daemon

ASSUME NamesAssumption == Names \subseteq Nat
ASSUME LargeAssumption == Large \subseteq Contents
ASSUME TicksAssumption == {StableTicks, MaxDelay} \subseteq Nat \ {0}
ASSUME BoundsAssumption == {MaxWrites, MaxDowns} \subseteq Nat

Copies == Contents \cup {Mixed}
Files == [ino : 1..MaxWrites, mtime : 1..MaxWrites, content : Contents]
Observations == [mtime : 1..MaxWrites, age : 0..StableTicks, handled : BOOLEAN,
                 late : 0..StableTicks]
Sources == [ino : 1..MaxWrites, mtime : 1..MaxWrites, content : Contents, dirty : BOOLEAN]

ASSUME MarksAssumption ==
  Mixed \notin Contents /\ None \notin Names \cup Copies \cup Files \cup Observations \cup Sources

VARIABLES
  file,      \* [Names -> None or [ino, mtime, content]]: the drop directory
  observed,  \* the map of Watcher.Run: [Names -> None or [mtime, age, handled, late]];
             \* age is the poll's now less firstSeen, late (for the properties
             \* only) the look less firstSeen, both up to StableTicks
  receipts,  \* [Names -> content last submitted, or None]: drop-ingest.json
  accepted,  \* every submission: [name, content, mtime, life], life being downs
  late,      \* how old the poll's tick was when it was received
  elapsed,   \* ticks sent since: the first is in the channel, the others are dropped
  pc,        \* the watcher's next step; "down" when the daemon does not run
  todo, present,  \* names not yet looked at in this poll; candidates seen in it
  cur,       \* the name being staged
  opened,    \* the file being staged, as opened: [ino, mtime, content, dirty]
  snapshot,  \* the content of the copy
  quiet,     \* [Names -> ticks without a write since the watcher's first look at
             \* this version]; for the properties only
  writes, downs

poll == <<pc, todo, present, cur, opened, snapshot>>
time == <<late, elapsed, quiet>>
vars == <<file, observed, receipts, accepted, poll, time, writes, downs>>

PCs == {"down", "wait", "next", "open", "lstat", "copy", "match", "submit", "record"}
Idle == cur = None /\ opened = None /\ snapshot = None

Init == /\ file = [n \in Names |-> None]
        /\ observed = [n \in Names |-> None]
        /\ receipts = [n \in Names |-> None]
        /\ accepted = {}
        /\ late = 0 /\ elapsed = 0
        /\ pc = "down" /\ todo = {} /\ present = {} /\ Idle
        /\ quiet = [n \in Names |-> 0]
        /\ writes = 0 /\ downs = 0

\* The poll goes on with the next name.
NextName == pc' = "next" /\ cur' = None /\ opened' = None /\ snapshot' = None

\* The watcher ends: with it the daemon, the ticker and the observations.
GoDown == /\ pc' = "down"
          /\ late' = 0 /\ elapsed' = 0 /\ quiet' = [n \in Names |-> 0]
          /\ observed' = [n \in Names |-> None]
          /\ todo' = {} /\ present' = {}
          /\ cur' = None /\ opened' = None /\ snapshot' = None

UpTo(n, k) == IF k < n THEN k ELSE n

\* os.ReadDir sorts the names, and the poll takes them in that order.
IsNext(n) == pc = "next" /\ n \in todo /\ \A m \in todo : n <= m

\* The file is as it was observed.
Unchanged(n) == file[n] # None /\ observed[n] # None /\ observed[n].mtime = file[n].mtime

\* The stability window is over and the version was not handled yet.
Due(n) == observed[n].age = StableTicks /\ ~observed[n].handled

Handled == [observed EXCEPT ![cur].handled = TRUE]
Forgotten == [observed EXCEPT ![cur] = None]

-----------------------------------------------------------------------------
\* The plausible bugs the properties are tested with.

NoticeOnce(n) ==  \* a change does not restart the stability window
  /\ IsNext(n) /\ file[n] # None /\ ~Unchanged(n)
  /\ todo' = todo \ {n} /\ present' = present \cup {n}
  /\ observed' = [observed EXCEPT ![n] =
       [mtime |-> file[n].mtime, age |-> IF observed[n] = None THEN 0 ELSE observed[n].age,
        handled |-> FALSE, late |-> UpTo(StableTicks, late + elapsed)]]
  /\ UNCHANGED <<file, receipts, accepted, pc, cur, opened, snapshot, time, writes, downs>>

MatchRecords ==  \* the receipt is written before the submission
  /\ pc = "match" /\ receipts[cur] # snapshot
  /\ pc' = "submit"
  /\ receipts' = [receipts EXCEPT ![cur] = snapshot]
  /\ UNCHANGED <<file, observed, accepted, todo, present, cur, opened, snapshot, time, writes, downs>>

RejectHandled ==  \* a rejected submission counts as handled
  /\ pc = "submit" /\ NextName
  /\ observed' = Handled
  /\ UNCHANGED <<file, receipts, accepted, todo, present, time, writes, downs>>

RecordUnhandled ==  \* the receipt is kept but the observation is not marked
  /\ pc = "record" /\ NextName
  /\ observed' = Forgotten
  /\ UNCHANGED <<file, receipts, accepted, todo, present, time, writes, downs>>

ReceiptsKept ==  \* receipts of removed sources stay
  /\ pc = "next" /\ todo = {}
  /\ pc' = "wait" /\ present' = {}
  /\ observed' = [n \in Names |-> IF n \in present THEN observed[n] ELSE None]
  /\ UNCHANGED <<file, receipts, accepted, todo, cur, opened, snapshot, time, writes, downs>>

-----------------------------------------------------------------------------
\* poll: the directory is listed.
Listing == pc' = "next" /\ todo' = {n \in Names : file[n] # None} /\ present' = {}

\* The daemon starts, and with it the ticker; the first poll takes the time from
\* the clock.
Start ==
  /\ pc = "down" /\ Listing
  /\ UNCHANGED <<file, observed, receipts, accepted, cur, opened, snapshot, time, writes, downs>>

\* The other polls take it from the tick in the channel, the first one sent after the
\* last was received: it is late + 1 ticks after that one's time.
Poll ==
  /\ pc = "wait" /\ elapsed > 0 /\ Listing
  /\ late' = elapsed - 1 /\ elapsed' = 0
  /\ observed' = [n \in Names |-> IF observed[n] = None THEN None
       ELSE [observed[n] EXCEPT !.age = UpTo(StableTicks, @ + late + 1)]]
  /\ UNCHANGED <<file, receipts, accepted, cur, opened, snapshot, quiet, writes, downs>>

\* Observe finds no candidate under a listed name.
Gone(n) ==
  /\ IsNext(n) /\ file[n] = None
  /\ todo' = todo \ {n}
  /\ UNCHANGED <<file, observed, receipts, accepted, pc, present, cur, opened, snapshot, time, writes, downs>>

\* Seen for the first time, or changed since: the window starts, at the poll's now.
Notice(n) ==
  /\ IsNext(n) /\ file[n] # None /\ ~Unchanged(n)
  /\ todo' = todo \ {n} /\ present' = present \cup {n}
  /\ observed' = [observed EXCEPT ![n] =
       [mtime |-> file[n].mtime, age |-> 0, handled |-> FALSE, late |-> UpTo(StableTicks, late + elapsed)]]
  /\ UNCHANGED <<file, receipts, accepted, pc, cur, opened, snapshot, time, writes, downs>>

\* Unchanged, and handled already or not for long enough.
Revisit(n) ==
  /\ IsNext(n) /\ Unchanged(n) /\ ~Due(n)
  /\ todo' = todo \ {n} /\ present' = present \cup {n}
  /\ UNCHANGED <<file, observed, receipts, accepted, pc, cur, opened, snapshot, time, writes, downs>>

Stage(n) ==
  /\ IsNext(n) /\ Unchanged(n) /\ Due(n) /\ file[n].content \notin Large
  /\ todo' = todo \ {n} /\ present' = present \cup {n}
  /\ pc' = "open" /\ cur' = n
  /\ UNCHANGED <<file, observed, receipts, accepted, opened, snapshot, time, writes, downs>>

\* "drop file size outside allowed range" is not among the errors poll retries:
\* it ends the daemon, now and once the window is over after every start.
TooLarge(n) ==
  /\ IsNext(n) /\ Unchanged(n) /\ Due(n) /\ file[n].content \in Large
  /\ GoDown
  /\ UNCHANGED <<file, receipts, accepted, writes, downs>>

\* Stage opens the source and reads its size and time from the open file.
Open ==
  /\ pc = "open" /\ file[cur] # None
  /\ pc' = "lstat"
  /\ opened' = [ino |-> file[cur].ino, mtime |-> file[cur].mtime,
                content |-> file[cur].content, dirty |-> FALSE]
  /\ UNCHANGED <<file, observed, receipts, accepted, todo, present, cur, snapshot, time, writes, downs>>

\* The path still names the open file, whose size and time are the candidate's.
Revalidate ==
  /\ pc = "lstat" /\ file[cur] # None
  /\ file[cur].ino = opened.ino /\ opened.mtime = observed[cur].mtime
  /\ pc' = "copy"
  /\ UNCHANGED <<file, observed, receipts, accepted, todo, present, cur, opened, snapshot, time, writes, downs>>

\* The copy is hashed, fsynced and linked under its digest. A change in place
\* is noticed only by the number of bytes copied.
Copy ==
  /\ pc = "copy"
  /\ pc' = "match"
  /\ snapshot' \in IF opened.dirty THEN {opened.content, Mixed} \cup
                     IF file[cur] # None /\ file[cur].ino = opened.ino
                     THEN {file[cur].content} \ Large ELSE {}
                   ELSE {opened.content}
  /\ UNCHANGED <<file, observed, receipts, accepted, todo, present, cur, opened, time, writes, downs>>

\* The source vanished, or it changed before or (in length) during the copy: it
\* is observed anew.
Retry ==
  /\ \/ pc = "open" /\ file[cur] = None
     \/ pc = "lstat" /\ file[cur] = None
     \/ pc = "lstat" /\ file[cur] # None /\ file[cur].ino = opened.ino
        /\ opened.mtime # observed[cur].mtime
     \/ pc = "copy" /\ opened.dirty
  /\ observed' = Forgotten
  /\ NextName
  /\ UNCHANGED <<file, receipts, accepted, todo, present, time, writes, downs>>

\* "drop file path changed before staging" is not among the errors poll retries.
PathChanged ==
  /\ pc = "lstat" /\ file[cur] # None /\ file[cur].ino # opened.ino
  /\ GoDown
  /\ UNCHANGED <<file, receipts, accepted, writes, downs>>

\* The receipt names the same content: nothing to submit.
Matches ==
  /\ pc = "match" /\ receipts[cur] = snapshot
  /\ observed' = Handled
  /\ NextName
  /\ UNCHANGED <<file, receipts, accepted, todo, present, time, writes, downs>>

Differs ==
  /\ pc = "match" /\ receipts[cur] # snapshot
  /\ pc' = "submit"
  /\ UNCHANGED <<file, observed, receipts, accepted, todo, present, cur, opened, snapshot, time, writes, downs>>

Submit ==
  /\ pc = "submit"
  /\ pc' = "record"
  /\ accepted' = accepted \cup
       {[name |-> cur, content |-> snapshot, mtime |-> opened.mtime, life |-> downs]}
  /\ UNCHANGED <<file, observed, receipts, todo, present, cur, opened, snapshot, time, writes, downs>>

\* Manager.Submit fails, the queue being full: the observation stays unhandled.
Reject ==
  /\ pc = "submit" /\ NextName
  /\ UNCHANGED <<file, observed, receipts, accepted, todo, present, time, writes, downs>>

\* ReceiptStore.Record: temporary file, fsync, rename.
Record ==
  /\ pc = "record"
  /\ receipts' = [receipts EXCEPT ![cur] = snapshot]
  /\ observed' = Handled
  /\ NextName
  /\ UNCHANGED <<file, accepted, todo, present, time, writes, downs>>

\* The end of poll: names not seen lose their observation and their receipt.
Prune ==
  /\ pc = "next" /\ todo = {}
  /\ pc' = "wait" /\ present' = {}
  /\ observed' = [n \in Names |-> IF n \in present THEN observed[n] ELSE None]
  /\ receipts' = [n \in Names |-> IF n \in present THEN receipts[n] ELSE None]
  /\ UNCHANGED <<file, accepted, todo, cur, opened, snapshot, time, writes, downs>>

(* A crash or a stop of the daemon, or any other failing system call: a copy   *)
(* that cannot be written, a receipt file that cannot be saved. Receipts stay  *)
(* as the last rename left them.                                               *)
Down ==
  /\ pc # "down"
  /\ downs < MaxDowns /\ downs' = downs + 1
  /\ GoDown
  /\ UNCHANGED <<file, receipts, accepted, writes>>

\* A tick is sent; it is dropped when the channel holds one.
Tick ==
  /\ pc # "down"
  /\ elapsed < MaxDelay /\ elapsed' = elapsed + 1
  /\ quiet' = [n \in Names |-> IF Unchanged(n) THEN UpTo(StableTicks, quiet[n] + 1) ELSE 0]
  /\ UNCHANGED <<file, observed, receipts, accepted, poll, late, writes, downs>>

-----------------------------------------------------------------------------
\* The users of the share.
Touch(n) == /\ writes < MaxWrites /\ writes' = writes + 1
            /\ quiet' = [quiet EXCEPT ![n] = 0]

\* A file is created, or moved over another.
Place(n, c) ==
  /\ Touch(n)
  /\ file' = [file EXCEPT ![n] = [ino |-> writes', mtime |-> writes', content |-> c]]
  /\ UNCHANGED <<observed, receipts, accepted, poll, late, elapsed, downs>>

\* A file is written in place, perhaps under the watcher's hands.
Overwrite(n, c) ==
  /\ file[n] # None
  /\ Touch(n)
  /\ file' = [file EXCEPT ![n].mtime = writes', ![n].content = c]
  /\ opened' = IF cur = n /\ opened # None /\ opened.ino = file[n].ino
               THEN [opened EXCEPT !.dirty = TRUE] ELSE opened
  /\ UNCHANGED <<observed, receipts, accepted, pc, todo, present, cur, snapshot, late, elapsed, downs>>

Remove(n) ==
  /\ file[n] # None
  /\ Touch(n)
  /\ file' = [file EXCEPT ![n] = None]
  /\ UNCHANGED <<observed, receipts, accepted, poll, late, elapsed, downs>>

Users == \E n \in Names : Remove(n) \/ \E c \in Contents : Place(n, c) \/ Overwrite(n, c)

Watch == \/ Poll \/ Open \/ Revalidate \/ Copy \/ Retry \/ PathChanged
         \/ Matches \/ Differs \/ Submit \/ Reject \/ Record \/ Prune
         \/ \E n \in Names : Gone(n) \/ Notice(n) \/ Revisit(n) \/ Stage(n) \/ TooLarge(n)

Next == Watch \/ Down \/ Start \/ Tick \/ Users

(* The ticker ticks and system calls return; systemd restarts the daemon; the  *)
(* queue that rejects a job has room again and again, its workers running.     *)
Fairness == WF_vars(Watch) /\ WF_vars(Start) /\ WF_vars(Tick) /\ SF_vars(Submit)
Spec == Init /\ [][Next]_vars /\ Fairness

-----------------------------------------------------------------------------
\* Every variable keeps its type (Watcher, observation, Receipt).
TypeOK ==
  /\ file \in [Names -> Files \cup {None}]
  /\ observed \in [Names -> Observations \cup {None}]
  /\ receipts \in [Names -> Copies \cup {None}]
  /\ accepted \subseteq [name : Names, content : Copies, mtime : 1..MaxWrites, life : 0..MaxDowns]
  /\ pc \in PCs /\ todo \subseteq Names /\ present \subseteq Names
  /\ cur \in Names \cup {None}
  /\ cur # None <=> pc \notin {"down", "wait", "next"}
  /\ opened \in Sources \cup {None}
  /\ opened # None <=> pc \in {"lstat", "copy", "match", "submit", "record"}
  /\ snapshot \in Copies \cup {None}
  /\ late \in 0..MaxDelay /\ elapsed \in 0..MaxDelay
  /\ quiet \in [Names -> 0..StableTicks]
  /\ writes \in 0..MaxWrites /\ downs \in 0..MaxDowns

\* A receipt is kept only for content that was submitted under that name, so
\* that a restart never skips a file nobody scanned (poll submits, then records).
ReceiptsAreEarned ==
  \A n \in Names : receipts[n] # None =>
    \E a \in accepted : a.name = n /\ a.content = receipts[n]

\* A copy that the users did not disturb is of a file that was left alone for the
\* stability window, less what the first look at it was behind the tick its poll
\* reckoned with, although the watcher sees it only once a poll and opens it later
\* (Stable, the time stamps of Watcher.Run, and the checks of Stage). Less than
\* the window: after a slow poll the tick is old, and docs/M11_1_SPEC.md:23
\* promises the whole of it.
OnlyQuietFilesAreStaged ==
  pc = "copy" /\ ~opened.dirty /\ file[cur] # None /\ file[cur].ino = opened.ino
    => quiet[cur] + observed[cur].late >= StableTicks

\* Between two crashes, stops or failing calls a source that is not written while
\* it is staged is submitted once, also when the watcher ended in between because
\* a path changed (observation.handled, and the receipts).
SubmittedOnce ==
  [][pc = "submit" /\ pc' = "record" /\ ~opened.dirty =>
       \A a \in accepted : a.name = cur /\ a.mtime = opened.mtime => a.life # downs]_vars

\* When the users leave a file alone its content is submitted and receipted,
\* whatever happened before, and when they remove it the receipt goes. The
\* exception is a file of more than MaxBytes: it is never receipted, and as long
\* as it lies there the daemon ends at every start before a name sorted after it
\* is staged.
Holds(n, contents) == file[n] # None /\ file[n].content \in contents
ReceiptsFollowFiles ==
  \A n \in Names :
    /\ \A c \in Contents \ Large :
         <>[](Holds(n, {c}) /\ \A m \in Names : m < n => ~Holds(m, Large))
           => <>[](receipts[n] = c)
    /\ <>[](file[n] = None) => <>[](receipts[n] = None)

\* Only a crash, a stop or a failing call ends the watcher, never a file that
\* changes while it is staged.
ChangesAreRetried == [][pc # "down" /\ pc' = "down" => downs' > downs]_vars
=============================================================================
