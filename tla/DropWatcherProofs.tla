-------------------------- MODULE DropWatcherProofs --------------------------
(* The safety properties of DropWatcher for any number of names, contents,     *)
(* writes of the users and ends of the daemon, and any stability window.       *)
EXTENDS DropWatcher, TLAPS

-----------------------------------------------------------------------------
(* The inductive invariant.                                                    *)

\* What is staged was seen in this poll, unchanged for the whole window.
StageInv ==
  /\ cur # None => /\ cur \in present /\ cur \notin todo
                   /\ observed[cur] # None /\ observed[cur].age = StableTicks
  /\ pc \in {"copy", "match", "submit", "record"} => opened.mtime = observed[cur].mtime
  /\ pc \in {"match", "submit", "record"} => snapshot \in Copies

\* Every write is newer than all the watcher has seen.
ClockInv ==
  /\ \A n \in Names : file[n] # None => file[n].ino <= writes /\ file[n].mtime <= writes
  /\ \A n \in Names : observed[n] # None => observed[n].mtime <= writes
  /\ opened # None => opened.ino <= writes /\ opened.mtime <= writes
  /\ \A a \in accepted : a.mtime <= writes /\ a.life <= downs

\* A modification time tells the versions of a file apart.
VersionInv ==
  opened # None /\ file[cur] # None =>
    /\ opened.mtime <= file[cur].mtime
    /\ opened.mtime = file[cur].mtime => opened.content = file[cur].content /\ ~opened.dirty
    /\ opened.ino = file[cur].ino /\ ~opened.dirty => opened.mtime = file[cur].mtime

\* The copy of a file nobody wrote to is its content, and it is submitted only
\* when the receipt says otherwise.
CopyInv ==
  /\ pc \in {"match", "submit", "record"} /\ ~opened.dirty => snapshot = opened.content
  /\ pc = "submit" => receipts[cur] # snapshot

\* What an observation has aged, and what the poll in progress and the ticks since
\* will add to it, are ticks without a write, or the first look came that late.
QuietInv ==
  \A n \in Names : Unchanged(n) =>
    \/ quiet[n] = StableTicks
    \/ observed[n].late = StableTicks
    \/ quiet[n] + observed[n].late >= observed[n].age + late + elapsed

EarnedInv ==
  /\ ReceiptsAreEarned
  /\ pc = "record" => \E a \in accepted : a.name = cur /\ a.content = snapshot

\* Submissions of a name follow the versions of its file.
OrderInv ==
  \A a \in accepted :
    /\ file[a.name] # None => a.mtime <= file[a.name].mtime
    /\ cur = a.name /\ opened # None => a.mtime <= opened.mtime

\* Of the version that lies in the drop folder, and of the one being staged, a
\* submission since the last crash is in the receipts, or about to be, and the
\* poll will not prune it.
OnceInv ==
  \A a \in accepted : a.life = downs =>
    /\ file[a.name] # None /\ file[a.name].mtime = a.mtime =>
         /\ pc \in {"wait", "down"} \/ a.name \in todo \cup present
         /\ receipts[a.name] = file[a.name].content
              \/ (pc = "record" /\ cur = a.name /\ opened.mtime = a.mtime)
    /\ cur = a.name /\ opened # None /\ opened.mtime = a.mtime =>
         receipts[cur] = opened.content \/ pc = "record"

IInv == /\ TypeOK
        /\ StageInv
        /\ ClockInv
        /\ VersionInv
        /\ CopyInv
        /\ QuietInv
        /\ EarnedInv
        /\ OrderInv
        /\ OnceInv

-----------------------------------------------------------------------------
(* Type correctness.                                                           *)

LEMMA InitType == Init => TypeOK
  BY TicksAssumption, BoundsAssumption, MarksAssumption DEF Init, TypeOK, Idle, PCs


\* The observation of the name being staged is there to be marked.
LEMMA HandledEffect ==
  ASSUME TypeOK, StageInv, cur # None
  PROVE  /\ Handled \in [Names -> Observations \cup {None}]
         /\ cur \in Names /\ Handled[cur] = [observed[cur] EXCEPT !.handled = TRUE]
         /\ Handled[cur].mtime = observed[cur].mtime /\ Handled[cur].age = observed[cur].age
         /\ Handled[cur].late = observed[cur].late
         /\ Handled[cur] \in Observations
         /\ \A n \in Names : n # cur => Handled[n] = observed[n]
<1>1. cur \in Names /\ observed \in [Names -> Observations \cup {None}]
  BY DEF TypeOK
<1>2. observed[cur] \in Observations
  BY <1>1 DEF StageInv
<1>3. [observed[cur] EXCEPT !.handled = TRUE] \in Observations
  BY <1>2 DEF Observations
<1>4. Handled = [observed EXCEPT ![cur] = [observed[cur] EXCEPT !.handled = TRUE]]
  BY DEF Handled
<1>5. /\ [observed[cur] EXCEPT !.handled = TRUE].mtime = observed[cur].mtime
      /\ [observed[cur] EXCEPT !.handled = TRUE].age = observed[cur].age
      /\ [observed[cur] EXCEPT !.handled = TRUE].late = observed[cur].late
  BY <1>2 DEF Observations
<1>6. QED
  BY <1>1, <1>3, <1>4, <1>5

LEMMA ClockTicks ==
  ASSUME TypeOK, writes' = writes + 1, writes < MaxWrites
  PROVE  /\ writes' \in 1..MaxWrites /\ writes' \in 0..MaxWrites
         /\ \A k \in 1..MaxWrites : k <= writes => k <= writes' /\ k # writes'
<1>1. writes \in Nat /\ MaxWrites \in Nat
  BY BoundsAssumption DEF TypeOK
<1>2. QED
  BY <1>1

\* What a file system call of the users does to the file itself.
LEMMA PlaceEffect ==
  ASSUME TypeOK, NEW n \in Names, NEW c \in Contents, Place(n, c)
  PROVE  /\ writes' \in 1..MaxWrites /\ writes' \in 0..MaxWrites
         /\ \A k \in 1..MaxWrites : k <= writes => k <= writes' /\ k # writes'
         /\ file'[n] \in Files /\ file'[n].ino = writes' /\ file'[n].mtime = writes'
         /\ file'[n].content = c
         /\ \A m \in Names : m # n => file'[m] = file[m]
         /\ file' \in [Names -> Files \cup {None}]
<1>1. writes' = writes + 1 /\ writes < MaxWrites
  BY DEF Place, Touch
<1>2. /\ writes' \in 1..MaxWrites /\ writes' \in 0..MaxWrites
      /\ \A k \in 1..MaxWrites : k <= writes => k <= writes' /\ k # writes'
  BY <1>1, ClockTicks
<1>3. file' = [file EXCEPT ![n] = [ino |-> writes', mtime |-> writes', content |-> c]]
  BY DEF Place
<1>4. [ino |-> writes', mtime |-> writes', content |-> c] \in Files
  BY <1>2 DEF Files
<1>5. file \in [Names -> Files \cup {None}]
  BY DEF TypeOK
<1>6. QED
  BY <1>1, <1>2, <1>3, <1>4, <1>5

LEMMA OverwriteEffect ==
  ASSUME TypeOK, NEW n \in Names, NEW c \in Contents, Overwrite(n, c)
  PROVE  /\ writes' \in 1..MaxWrites /\ writes' \in 0..MaxWrites
         /\ \A k \in 1..MaxWrites : k <= writes => k <= writes' /\ k # writes'
         /\ file[n] \in Files
         /\ file'[n] \in Files /\ file'[n].ino = file[n].ino /\ file'[n].mtime = writes'
         /\ file'[n].content = c
         /\ \A m \in Names : m # n => file'[m] = file[m]
         /\ file' \in [Names -> Files \cup {None}]
<1>1. writes' = writes + 1 /\ writes < MaxWrites /\ file[n] # None
  BY DEF Overwrite, Touch
<1>2. /\ writes' \in 1..MaxWrites /\ writes' \in 0..MaxWrites
      /\ \A k \in 1..MaxWrites : k <= writes => k <= writes' /\ k # writes'
  BY <1>1, ClockTicks
<1>3. file \in [Names -> Files \cup {None}] /\ file[n] \in Files
  BY <1>1 DEF TypeOK
<1>4. file' = [file EXCEPT ![n] = [file[n] EXCEPT !.mtime = writes', !.content = c]]
  BY <1>3 DEF Overwrite
<1>5. /\ [file[n] EXCEPT !.mtime = writes', !.content = c] \in Files
      /\ [file[n] EXCEPT !.mtime = writes', !.content = c].ino = file[n].ino
      /\ [file[n] EXCEPT !.mtime = writes', !.content = c].mtime = writes'
      /\ [file[n] EXCEPT !.mtime = writes', !.content = c].content = c
  BY <1>2, <1>3 DEF Files
<1>6. QED
  BY <1>1, <1>2, <1>3, <1>4, <1>5

\* What it does to the copy under way.
LEMMA SourceEffect ==
  ASSUME TypeOK, NEW n \in Names, NEW c \in Contents, Overwrite(n, c)
  PROVE  /\ opened' \in Sources \cup {None} /\ (opened' = None <=> opened = None)
         /\ opened # None => /\ opened \in Sources
                             /\ opened'.ino = opened.ino /\ opened'.mtime = opened.mtime
                             /\ opened'.content = opened.content
                             /\ ~opened'.dirty =>
                                  ~opened.dirty /\ (cur # n \/ opened.ino # file[n].ino)
                             /\ cur # n \/ opened.ino # file[n].ino => opened' = opened
<1>1. opened' = IF cur = n /\ opened # None /\ opened.ino = file[n].ino
                THEN [opened EXCEPT !.dirty = TRUE] ELSE opened
  BY DEF Overwrite
<1>2. opened \in Sources \cup {None}
  BY DEF TypeOK
<1>3. CASE opened' = opened
  BY <1>1, <1>2, <1>3 DEF Sources
<1>4. CASE /\ cur = n /\ opened # None /\ opened.ino = file[n].ino
           /\ opened' = [opened EXCEPT !.dirty = TRUE]
  <2>1. opened \in Sources
    BY <1>2, <1>4
  <2>2. /\ opened' \in Sources /\ opened'.ino = opened.ino /\ opened'.mtime = opened.mtime
        /\ opened'.content = opened.content /\ opened'.dirty
    BY <1>4, <2>1 DEF Sources
  <2>3. QED
    BY <1>4, <2>1, <2>2, MarksAssumption
<1>5. QED
  BY <1>1, <1>3, <1>4

LEMMA OpenEffect ==
  ASSUME TypeOK, Open
  PROVE  /\ cur \in Names /\ file[cur] \in Files
         /\ opened' \in Sources /\ opened' # None
         /\ opened'.ino = file[cur].ino /\ opened'.mtime = file[cur].mtime
         /\ opened'.content = file[cur].content /\ ~opened'.dirty
<1>1. cur \in Names /\ file[cur] # None
  BY DEF TypeOK, Open
<1>2. file[cur] \in Files
  BY <1>1 DEF TypeOK
<1>3. opened' = [ino |-> file[cur].ino, mtime |-> file[cur].mtime,
                 content |-> file[cur].content, dirty |-> FALSE]
  BY DEF Open
<1>4. opened' \in Sources
  BY <1>2, <1>3 DEF Files, Sources
<1>5. QED
  BY <1>1, <1>2, <1>3, <1>4, MarksAssumption

LEMMA CopyEffect ==
  ASSUME TypeOK, Copy
  PROVE  /\ opened \in Sources /\ snapshot' \in Copies
         /\ ~opened.dirty => snapshot' = opened.content
<1>1. opened \in Sources /\ cur \in Names
  BY DEF TypeOK, Copy
<1>2. opened.content \in Contents
  BY <1>1 DEF Sources
<1>3. file[cur] # None => file[cur].content \in Contents
  BY <1>1 DEF TypeOK, Files
<1>4. QED
  BY <1>1, <1>2, <1>3 DEF Copy, Copies

LEMMA SubmitEffect ==
  ASSUME TypeOK, Submit
  PROVE  /\ opened \in Sources
         /\ \E r : /\ accepted' = accepted \cup {r}
                   /\ r.name = cur /\ r.content = snapshot
                   /\ r.mtime = opened.mtime /\ r.life = downs
<1>1. opened \in Sources
  BY DEF TypeOK, Submit
<1> DEFINE r == [name |-> cur, content |-> snapshot, mtime |-> opened.mtime, life |-> downs]
<1>2. accepted' = accepted \cup {r}
  BY DEF Submit
<1>3. r.name = cur /\ r.content = snapshot /\ r.mtime = opened.mtime /\ r.life = downs
  OBVIOUS
<1>4. QED
  BY <1>1, <1>2, <1>3

LEMMA UpToBound ==
  ASSUME NEW k \in Nat
  PROVE  UpTo(StableTicks, k) \in 0..StableTicks /\ UpTo(StableTicks, k) <= k
  BY TicksAssumption DEF UpTo

LEMMA NoticeEffect ==
  ASSUME TypeOK, NEW n \in Names, Notice(n)
  PROVE  /\ observed' \in [Names -> Observations \cup {None}]
         /\ file[n] \in Files
         /\ observed'[n] \in Observations /\ observed'[n] # None
         /\ observed'[n].mtime = file[n].mtime /\ observed'[n].age = 0 /\ ~observed'[n].handled
         /\ observed'[n].late = UpTo(StableTicks, late + elapsed)
         /\ \A m \in Names : m # n => observed'[m] = observed[m]
<1> DEFINE behind == UpTo(StableTicks, late + elapsed)
<1>1. file[n] \in Files
  BY DEF TypeOK, Notice
<1>2. late + elapsed \in Nat
  BY TicksAssumption DEF TypeOK
<1>3. behind \in 0..StableTicks
  BY <1>2, UpToBound
<1>4. observed' = [observed EXCEPT ![n] =
        [mtime |-> file[n].mtime, age |-> 0, handled |-> FALSE, late |-> behind]]
  BY DEF Notice
<1> HIDE DEF behind
<1>5. [mtime |-> file[n].mtime, age |-> 0, handled |-> FALSE, late |-> behind] \in Observations
  BY <1>1, <1>3, TicksAssumption DEF Files, Observations
<1>6. observed \in [Names -> Observations \cup {None}]
  BY DEF TypeOK
<1>7. QED
  BY <1>1, <1>4, <1>5, <1>6, MarksAssumption DEF behind

\* A poll ages every observation by the ticks from the last poll's time to its own.
LEMMA PollEffect ==
  ASSUME TypeOK, Poll
  PROVE  /\ observed' \in [Names -> Observations \cup {None}]
         /\ \A n \in Names :
              /\ observed'[n] = None <=> observed[n] = None
              /\ observed[n] # None =>
                   /\ observed[n] \in Observations /\ observed'[n] \in Observations
                   /\ observed'[n].mtime = observed[n].mtime
                   /\ observed'[n].late = observed[n].late
                   /\ observed'[n].age <= observed[n].age + late + 1
<1> DEFINE grown(n) == UpTo(StableTicks, observed[n].age + late + 1)
<1>1. observed' = [n \in Names |-> IF observed[n] = None THEN None
                                   ELSE [observed[n] EXCEPT !.age = grown(n)]]
  BY DEF Poll
<1>2. ASSUME NEW n \in Names, observed[n] # None
      PROVE  observed[n] \in Observations /\ grown(n) \in 0..StableTicks
               /\ grown(n) <= observed[n].age + late + 1
  <2>1. observed[n] \in Observations
    BY <1>2 DEF TypeOK
  <2>2. observed[n].age + late + 1 \in Nat
    BY <2>1, TicksAssumption DEF TypeOK, Observations
  <2>3. QED
    BY <2>1, <2>2, UpToBound
<1> HIDE DEF grown
<1>3. ASSUME NEW n \in Names, observed[n] # None
      PROVE  LET r == [observed[n] EXCEPT !.age = grown(n)] IN
             /\ r \in Observations /\ r # None
             /\ r.mtime = observed[n].mtime /\ r.late = observed[n].late /\ r.age = grown(n)
  BY <1>2, <1>3, MarksAssumption DEF Observations
<1>4. QED
  BY <1>1, <1>2, <1>3

LEMMA StageEffect ==
  ASSUME TypeOK, NEW n \in Names, Stage(n)
  PROVE  /\ pc = "next" /\ cur = None /\ opened = None /\ pc' = "open" /\ cur' = n
         /\ observed[n] # None /\ observed[n].age = StableTicks
         /\ todo' = todo \ {n} /\ present' = present \cup {n}
         /\ UNCHANGED <<file, observed, receipts, accepted, opened, snapshot, late, elapsed,
                        quiet, writes, downs>>
  BY DEF Stage, IsNext, Unchanged, Due, TypeOK, time

LEMMA TickEffect ==
  ASSUME TypeOK, Tick
  PROVE  /\ UNCHANGED <<file, observed, receipts, accepted, poll, late, writes, downs>>
         /\ elapsed' = elapsed + 1 /\ elapsed' \in 0..MaxDelay
         /\ quiet' \in [Names -> 0..StableTicks]
         /\ \A n \in Names : Unchanged(n) => quiet'[n] = UpTo(StableTicks, quiet[n] + 1)
<1>1. elapsed' = elapsed + 1 /\ elapsed' \in 0..MaxDelay
  BY TicksAssumption DEF Tick, TypeOK
<1>2. quiet' = [n \in Names |-> IF Unchanged(n) THEN UpTo(StableTicks, quiet[n] + 1) ELSE 0]
  BY DEF Tick
<1>3. \A n \in Names : UpTo(StableTicks, quiet[n] + 1) \in 0..StableTicks
  BY TicksAssumption DEF TypeOK, UpTo
<1>4. 0 \in 0..StableTicks
  BY TicksAssumption
<1>5. QED
  BY <1>1, <1>2, <1>3, <1>4 DEF Tick

\* Every step keeps every variable in its type.
LEMMA TypeStep == TypeOK /\ StageInv /\ [Next]_vars => TypeOK'
<1> SUFFICES ASSUME TypeOK, StageInv, [Next]_vars PROVE TypeOK'
  OBVIOUS
<1> USE TicksAssumption, BoundsAssumption, MarksAssumption DEF TypeOK, StageInv, PCs, poll, time
<1>1. ASSUME Poll PROVE TypeOK'
  <2>1. observed' \in [Names -> Observations \cup {None}]
    BY <1>1, PollEffect
  <2>2. late' \in 0..MaxDelay /\ elapsed' \in 0..MaxDelay
    BY <1>1 DEF Poll
  <2>3. /\ pc = "wait" /\ Listing
        /\ UNCHANGED <<file, receipts, accepted, cur, opened, snapshot, quiet, writes, downs>>
    BY <1>1 DEF Poll
  <2>4. QED
    BY <2>1, <2>2, <2>3 DEF Listing
<1>2. ASSUME NEW n \in Names, Gone(n) PROVE TypeOK'
  BY <1>2 DEF Gone
<1>3. ASSUME NEW n \in Names, Notice(n) PROVE TypeOK'
  <2>1. observed' \in [Names -> Observations \cup {None}]
    BY <1>3, NoticeEffect
  <2>2. /\ todo' = todo \ {n} /\ present' = present \cup {n}
        /\ UNCHANGED <<file, receipts, accepted, pc, cur, opened, snapshot, time, writes, downs>>
    BY <1>3 DEF Notice
  <2>3. QED
    BY <2>1, <2>2
<1>4. ASSUME NEW n \in Names, Revisit(n) PROVE TypeOK'
  BY <1>4 DEF Revisit
<1>5. ASSUME Open PROVE TypeOK'
  BY <1>5, OpenEffect DEF Open
<1>6. ASSUME Revalidate PROVE TypeOK'
  BY <1>6 DEF Revalidate
<1>7. ASSUME Copy PROVE TypeOK'
  BY <1>7, CopyEffect DEF Copy
<1>8. ASSUME Retry PROVE TypeOK'
  BY <1>8 DEF Retry, NextName, Forgotten
<1>9. ASSUME PathChanged PROVE TypeOK'
  BY <1>9 DEF PathChanged, GoDown
<1>10. ASSUME Matches PROVE TypeOK'
  BY <1>10, HandledEffect DEF Matches, NextName
<1>11. ASSUME Differs PROVE TypeOK'
  BY <1>11 DEF Differs
<1>12. ASSUME Submit PROVE TypeOK'
  <2>1. opened \in Sources /\ cur \in Names /\ snapshot \in Copies
    BY <1>12 DEF Submit
  <2>2. [name |-> cur, content |-> snapshot, mtime |-> opened.mtime, life |-> downs]
          \in [name : Names, content : Copies, mtime : 1..MaxWrites, life : 0..MaxDowns]
    BY <2>1 DEF Sources
  <2>3. QED
    BY <1>12, <2>2 DEF Submit
<1>13. ASSUME Reject PROVE TypeOK'
  BY <1>13 DEF Reject, NextName
<1>14. ASSUME Record PROVE TypeOK'
  BY <1>14, HandledEffect DEF Record, NextName
<1>15. ASSUME Prune PROVE TypeOK'
  BY <1>15 DEF Prune
<1>16. ASSUME Down PROVE TypeOK'
  BY <1>16 DEF Down, GoDown
<1>17. ASSUME Start PROVE TypeOK'
  BY <1>17 DEF Start, Listing
<1>18. ASSUME NEW n \in Names, Remove(n) PROVE TypeOK'
  BY <1>18 DEF Remove, Touch
<1>19. ASSUME NEW n \in Names, NEW c \in Contents, Place(n, c) PROVE TypeOK'
  <2>1. file' \in [Names -> Files \cup {None}] /\ writes' \in 0..MaxWrites
    BY <1>19, PlaceEffect
  <2>2. quiet' \in [Names -> 0..StableTicks] /\ UNCHANGED <<late, elapsed>>
    BY <1>19 DEF Place, Touch
  <2>3. UNCHANGED <<observed, receipts, accepted, pc, todo, present, cur, opened, snapshot, downs>>
    BY <1>19 DEF Place
  <2>4. QED
    BY <2>1, <2>2, <2>3
<1>20. ASSUME NEW n \in Names, NEW c \in Contents, Overwrite(n, c) PROVE TypeOK'
  <2>1. file' \in [Names -> Files \cup {None}] /\ writes' \in 0..MaxWrites
    BY <1>20, OverwriteEffect
  <2>2. quiet' \in [Names -> 0..StableTicks] /\ UNCHANGED <<late, elapsed>>
    BY <1>20 DEF Overwrite, Touch
  <2>3. opened' \in Sources \cup {None} /\ (opened' = None <=> opened = None)
    BY <1>20, SourceEffect
  <2>4. UNCHANGED <<observed, receipts, accepted, pc, todo, present, cur, snapshot, downs>>
    BY <1>20 DEF Overwrite
  <2>5. QED
    BY <2>1, <2>2, <2>3, <2>4
<1>21. CASE UNCHANGED vars
  BY <1>21 DEF vars
<1>22. ASSUME NEW n \in Names, Stage(n) PROVE TypeOK'
  BY <1>22, StageEffect
<1>23. ASSUME NEW n \in Names, TooLarge(n) PROVE TypeOK'
  BY <1>23 DEF TooLarge, GoDown
<1>24. ASSUME Tick PROVE TypeOK'
  BY <1>24, TickEffect
<1>25. QED
  BY <1>1, <1>2, <1>3, <1>4, <1>5, <1>6, <1>7, <1>8, <1>9, <1>10, <1>11, <1>12, <1>13, <1>14, <1>15, <1>16, <1>17, <1>18, <1>19, <1>20, <1>21,
     <1>22, <1>23, <1>24
  DEF Next, Watch, Users

-----------------------------------------------------------------------------
(* The invariant is preserved, one conjunct at a time.                         *)

\* The name being staged stays observed and seen until its staging ends.
LEMMA StageInvStep == TypeOK /\ StageInv /\ [Next]_vars => StageInv'
<1> SUFFICES ASSUME TypeOK, StageInv, [Next]_vars PROVE StageInv'
  OBVIOUS
<1> USE DEF StageInv, poll, time
<1>1. ASSUME Poll PROVE StageInv'
  BY <1>1 DEF Poll, Listing, TypeOK
<1>2. ASSUME NEW n \in Names, Gone(n) PROVE StageInv'
  BY <1>2 DEF Gone
<1>3. ASSUME NEW n \in Names, Notice(n) PROVE StageInv'
  <2>1. pc = "next" /\ cur' = None
    BY <1>3 DEF Notice, IsNext, TypeOK
  <2>2. QED
    BY <1>3, <2>1 DEF Notice
<1>4. ASSUME NEW n \in Names, Revisit(n) PROVE StageInv'
  BY <1>4 DEF Revisit, IsNext, TypeOK
<1>5. ASSUME Open PROVE StageInv'
  BY <1>5 DEF Open
<1>6. ASSUME Revalidate PROVE StageInv'
  BY <1>6 DEF Revalidate
<1>7. ASSUME Copy PROVE StageInv'
  BY <1>7, CopyEffect DEF Copy
<1>8. ASSUME Retry PROVE StageInv'
  BY <1>8 DEF Retry, NextName, Forgotten
<1>9. ASSUME PathChanged PROVE StageInv'
  BY <1>9 DEF PathChanged, GoDown
<1>10. ASSUME Matches PROVE StageInv'
  BY <1>10 DEF Matches, NextName, Handled
<1>11. ASSUME Differs PROVE StageInv'
  BY <1>11 DEF Differs
<1>12. ASSUME Submit PROVE StageInv'
  BY <1>12 DEF Submit
<1>13. ASSUME Reject PROVE StageInv'
  BY <1>13 DEF Reject, NextName
<1>14. ASSUME Record PROVE StageInv'
  <2>1. cur' = None /\ pc' = "next"
    BY <1>14 DEF Record, NextName, Handled
  <2>2. QED
    BY <2>1
<1>15. ASSUME Prune PROVE StageInv'
  BY <1>15 DEF Prune, TypeOK
<1>16. ASSUME Down PROVE StageInv'
  BY <1>16 DEF Down, GoDown
<1>17. ASSUME Start PROVE StageInv'
  BY <1>17 DEF Start, Listing, TypeOK
<1>18. ASSUME NEW n \in Names, Remove(n) PROVE StageInv'
  BY <1>18 DEF Remove, Touch
<1>19. ASSUME NEW n \in Names, NEW c \in Contents, Place(n, c) PROVE StageInv'
  BY <1>19 DEF Place, Touch
<1>20. ASSUME NEW n \in Names, NEW c \in Contents, Overwrite(n, c) PROVE StageInv'
  <2>1. opened # None => opened'.mtime = opened.mtime
    BY <1>20, SourceEffect
  <2>2. UNCHANGED <<observed, pc, todo, present, cur, snapshot>>
    BY <1>20 DEF Overwrite
  <2>3. QED
    BY <2>1, <2>2 DEF TypeOK
<1>21. CASE UNCHANGED vars
  BY <1>21 DEF vars
<1>22. ASSUME NEW n \in Names, Stage(n) PROVE StageInv'
  BY <1>22, StageEffect
<1>23. ASSUME NEW n \in Names, TooLarge(n) PROVE StageInv'
  BY <1>23 DEF TooLarge, GoDown
<1>24. ASSUME Tick PROVE StageInv'
  BY <1>24, TickEffect
<1>25. QED
  BY <1>1, <1>2, <1>3, <1>4, <1>5, <1>6, <1>7, <1>8, <1>9, <1>10, <1>11, <1>12, <1>13, <1>14, <1>15, <1>16, <1>17, <1>18, <1>19, <1>20, <1>21,
     <1>22, <1>23, <1>24
  DEF Next, Watch, Users

\* The clock is ahead of every stamp.
LEMMA ClockInvStep == TypeOK /\ StageInv /\ ClockInv /\ [Next]_vars => ClockInv'
<1> SUFFICES ASSUME TypeOK, StageInv, ClockInv, [Next]_vars PROVE ClockInv'
  OBVIOUS
<1> USE DEF ClockInv, poll, time
<1>1. ASSUME Poll PROVE ClockInv'
  <2>1. \A m \in Names : observed'[m] # None => observed'[m].mtime <= writes
    BY <1>1, PollEffect
  <2>2. QED
    BY <1>1, <2>1 DEF Poll
<1>2. ASSUME NEW n \in Names, Gone(n) PROVE ClockInv'
  BY <1>2 DEF Gone
<1>3. ASSUME NEW n \in Names, Notice(n) PROVE ClockInv'
  <2>1. \A m \in Names : observed'[m] # None => observed'[m].mtime <= writes
    BY <1>3, NoticeEffect DEF Notice
  <2>2. QED
    BY <1>3, <2>1 DEF Notice
<1>4. ASSUME NEW n \in Names, Revisit(n) PROVE ClockInv'
  BY <1>4 DEF Revisit
<1>5. ASSUME Open PROVE ClockInv'
  <2>1. opened'.ino <= writes /\ opened'.mtime <= writes
    BY <1>5, OpenEffect DEF Open
  <2>2. QED
    BY <1>5, <2>1 DEF Open
<1>6. ASSUME Revalidate PROVE ClockInv'
  BY <1>6 DEF Revalidate
<1>7. ASSUME Copy PROVE ClockInv'
  BY <1>7 DEF Copy
<1>8. ASSUME Retry PROVE ClockInv'
  <2>1. observed' = [observed EXCEPT ![cur] = None] /\ cur \in Names
    BY <1>8 DEF Retry, NextName, Forgotten, TypeOK
  <2>2. \A m \in Names : observed'[m] # None => observed'[m].mtime <= writes
    BY <2>1 DEF TypeOK
  <2>3. QED
    BY <1>8, <2>2 DEF Retry, NextName
<1>9. ASSUME PathChanged PROVE ClockInv'
  BY <1>9 DEF PathChanged, GoDown
<1>10. ASSUME Matches PROVE ClockInv'
  <2>1. cur # None /\ observed' = Handled
    BY <1>10 DEF TypeOK, Matches
  <2>2. \A m \in Names : observed'[m] # None => observed'[m].mtime <= writes
    BY <2>1, HandledEffect DEF StageInv
  <2>3. QED
    BY <1>10, <2>2 DEF Matches, NextName
<1>11. ASSUME Differs PROVE ClockInv'
  BY <1>11 DEF Differs
<1>12. ASSUME Submit PROVE ClockInv'
  <2>1. opened # None /\ opened.mtime <= writes /\ downs <= downs
    BY <1>12 DEF Submit, TypeOK
  <2>2. QED
    BY <1>12, <2>1 DEF Submit
<1>13. ASSUME Reject PROVE ClockInv'
  BY <1>13 DEF Reject, NextName
<1>14. ASSUME Record PROVE ClockInv'
  <2>1. cur # None /\ observed' = Handled
    BY <1>14 DEF TypeOK, Record
  <2>2. \A m \in Names : observed'[m] # None => observed'[m].mtime <= writes
    BY <2>1, HandledEffect DEF StageInv
  <2>3. QED
    BY <1>14, <2>2 DEF Record, NextName
<1>15. ASSUME Prune PROVE ClockInv'
  BY <1>15 DEF Prune
<1>16. ASSUME Down PROVE ClockInv'
  <2>1. \A a \in accepted : a.life <= downs'
    BY <1>16 DEF Down, TypeOK
  <2>2. QED
    BY <1>16, <2>1 DEF Down, GoDown
<1>17. ASSUME Start PROVE ClockInv'
  BY <1>17 DEF Start, Listing
<1>18. ASSUME NEW n \in Names, Remove(n) PROVE ClockInv'
  <2>1. \A k \in 1..MaxWrites : k <= writes => k <= writes'
    BY <1>18, ClockTicks DEF Remove, Touch
  <2>2. \A m \in Names : file'[m] # None => file'[m] = file[m]
    BY <1>18 DEF TypeOK, Remove
  <2>3. \A m \in Names : file'[m] # None => file'[m].ino <= writes' /\ file'[m].mtime <= writes'
    BY <2>1, <2>2 DEF TypeOK, Files
  <2>4. \A m \in Names : observed[m] # None => observed[m].mtime <= writes'
    BY <2>1 DEF TypeOK, Observations
  <2>5. opened # None => opened.ino <= writes' /\ opened.mtime <= writes'
    BY <2>1 DEF TypeOK, Sources
  <2>6. \A a \in accepted : a.mtime <= writes'
    BY <2>1 DEF TypeOK
  <2>7. UNCHANGED <<observed, opened, accepted, downs>>
    BY <1>18 DEF Remove
  <2>8. QED
    BY <2>3, <2>4, <2>5, <2>6, <2>7
<1>19. ASSUME NEW n \in Names, NEW c \in Contents, Place(n, c) PROVE ClockInv'
  <2>1. \A k \in 1..MaxWrites : k <= writes => k <= writes'
    BY <1>19, PlaceEffect
  <2>2. \A m \in Names : file'[m] # None => file'[m].ino <= writes' /\ file'[m].mtime <= writes'
    <3>1. \A m \in Names : m # n /\ file'[m] # None => file'[m].ino <= writes' /\ file'[m].mtime <= writes'
      BY <1>19, <2>1, PlaceEffect DEF TypeOK, Files
    <3>2. file'[n].ino = writes' /\ file'[n].mtime = writes' /\ writes' <= writes'
      BY <1>19, PlaceEffect
    <3>3. QED
      BY <3>1, <3>2
  <2>3. \A m \in Names : observed[m] # None => observed[m].mtime <= writes'
    BY <2>1 DEF TypeOK, Observations
  <2>4. opened # None => opened.ino <= writes' /\ opened.mtime <= writes'
    BY <2>1 DEF TypeOK, Sources
  <2>5. \A a \in accepted : a.mtime <= writes'
    BY <2>1 DEF TypeOK
  <2>6. UNCHANGED <<observed, opened, accepted, downs>>
    BY <1>19 DEF Place
  <2>7. QED
    BY <2>2, <2>3, <2>4, <2>5, <2>6
<1>20. ASSUME NEW n \in Names, NEW c \in Contents, Overwrite(n, c) PROVE ClockInv'
  <2>1. \A k \in 1..MaxWrites : k <= writes => k <= writes'
    BY <1>20, OverwriteEffect
  <2>2. \A m \in Names : file'[m] # None => file'[m].ino <= writes' /\ file'[m].mtime <= writes'
    <3>1. \A m \in Names : m # n /\ file'[m] # None => file'[m].ino <= writes' /\ file'[m].mtime <= writes'
      BY <1>20, <2>1, OverwriteEffect DEF TypeOK, Files
    <3>2. file[n].ino <= writes
      BY <1>20 DEF Overwrite
    <3>3. file'[n].ino <= writes' /\ file'[n].mtime <= writes'
      BY <1>20, <2>1, <3>2, OverwriteEffect DEF Files
    <3>4. QED
      BY <3>1, <3>3
  <2>3. \A m \in Names : observed[m] # None => observed[m].mtime <= writes'
    BY <2>1 DEF TypeOK, Observations
  <2>4. opened' # None => opened'.ino <= writes' /\ opened'.mtime <= writes'
    BY <1>20, <2>1, SourceEffect DEF Sources
  <2>5. \A a \in accepted : a.mtime <= writes'
    BY <2>1 DEF TypeOK
  <2>6. UNCHANGED <<observed, accepted, downs>>
    BY <1>20 DEF Overwrite
  <2>7. QED
    BY <2>2, <2>3, <2>4, <2>5, <2>6
<1>21. CASE UNCHANGED vars
  BY <1>21 DEF vars
<1>22. ASSUME NEW n \in Names, Stage(n) PROVE ClockInv'
  BY <1>22, StageEffect
<1>23. ASSUME NEW n \in Names, TooLarge(n) PROVE ClockInv'
  BY <1>23 DEF TooLarge, GoDown
<1>24. ASSUME Tick PROVE ClockInv'
  BY <1>24, TickEffect
<1>25. QED
  BY <1>1, <1>2, <1>3, <1>4, <1>5, <1>6, <1>7, <1>8, <1>9, <1>10, <1>11, <1>12, <1>13, <1>14, <1>15, <1>16, <1>17, <1>18, <1>19, <1>20, <1>21,
     <1>22, <1>23, <1>24
  DEF Next, Watch, Users

\* A source and the file under its name are the same version or not.
LEMMA VersionInvStep == TypeOK /\ ClockInv /\ VersionInv /\ [Next]_vars => VersionInv'
<1> SUFFICES ASSUME TypeOK, ClockInv, VersionInv, [Next]_vars PROVE VersionInv'
  OBVIOUS
<1> USE DEF VersionInv, poll, time
<1>1. ASSUME Poll PROVE VersionInv'
  BY <1>1 DEF Poll, Listing
<1>2. ASSUME NEW n \in Names, Gone(n) PROVE VersionInv'
  BY <1>2 DEF Gone
<1>3. ASSUME NEW n \in Names, Notice(n) PROVE VersionInv'
  BY <1>3 DEF Notice, TypeOK
<1>4. ASSUME NEW n \in Names, Revisit(n) PROVE VersionInv'
  BY <1>4 DEF Revisit
<1>5. ASSUME Open PROVE VersionInv'
  <2>1. UNCHANGED <<file, cur>> /\ file[cur].mtime \in 1..MaxWrites
    BY <1>5, OpenEffect DEF Open, Files
  <2>2. QED
    BY <1>5, <2>1, OpenEffect
<1>6. ASSUME Revalidate PROVE VersionInv'
  BY <1>6 DEF Revalidate
<1>7. ASSUME Copy PROVE VersionInv'
  BY <1>7 DEF Copy
<1>8. ASSUME Retry PROVE VersionInv'
  <2>1. opened' = None
    BY <1>8 DEF Retry, NextName, Forgotten, TypeOK
  <2>2. QED
    BY <2>1
<1>9. ASSUME PathChanged PROVE VersionInv'
  <2>1. opened' = None
    BY <1>9 DEF PathChanged, GoDown, TypeOK
  <2>2. QED
    BY <2>1
<1>10. ASSUME Matches PROVE VersionInv'
  <2>1. opened' = None
    BY <1>10 DEF Matches, NextName, Handled, TypeOK
  <2>2. QED
    BY <2>1
<1>11. ASSUME Differs PROVE VersionInv'
  BY <1>11 DEF Differs
<1>12. ASSUME Submit PROVE VersionInv'
  BY <1>12 DEF Submit
<1>13. ASSUME Reject PROVE VersionInv'
  <2>1. opened' = None
    BY <1>13 DEF Reject, NextName, TypeOK
  <2>2. QED
    BY <2>1
<1>14. ASSUME Record PROVE VersionInv'
  <2>1. opened' = None
    BY <1>14 DEF Record, NextName, Handled, TypeOK
  <2>2. QED
    BY <2>1
<1>15. ASSUME Prune PROVE VersionInv'
  BY <1>15 DEF Prune
<1>16. ASSUME Down PROVE VersionInv'
  <2>1. opened' = None
    BY <1>16 DEF Down, GoDown, TypeOK
  <2>2. QED
    BY <2>1
<1>17. ASSUME Start PROVE VersionInv'
  BY <1>17 DEF Start, Listing
<1>18. ASSUME NEW n \in Names, Remove(n) PROVE VersionInv'
  <2>1. UNCHANGED <<opened, cur>> /\ (cur # n => file'[cur] = file[cur]) /\ file'[n] = None
    BY <1>18 DEF Remove, TypeOK
  <2>2. CASE cur = n
    BY <2>1, <2>2
  <2>3. CASE cur # n
    BY <2>1, <2>3
  <2>4. QED
    BY <2>2, <2>3
<1>19. ASSUME NEW n \in Names, NEW c \in Contents, Place(n, c) PROVE VersionInv'
  <2>1. UNCHANGED <<opened, cur>> /\ cur \in Names \cup {None}
    BY <1>19 DEF Place, TypeOK
  <2>2. CASE cur # n
    <3>1. cur # None => file'[cur] = file[cur]
      BY <1>19, <2>1, <2>2, PlaceEffect
    <3>2. opened # None => cur # None
      BY DEF TypeOK
    <3>3. QED
      BY <2>1, <3>1, <3>2
  <2>3. CASE cur = n /\ opened # None
    <3>1. /\ opened \in Sources /\ opened.ino <= writes /\ opened.mtime <= writes
          /\ opened.ino \in 1..MaxWrites /\ opened.mtime \in 1..MaxWrites
      BY <2>3 DEF TypeOK, ClockInv, Sources
    <3>2. opened.mtime <= writes' /\ opened.mtime # writes' /\ opened.ino # writes'
      BY <1>19, <3>1, PlaceEffect
    <3>3. file'[cur].ino = writes' /\ file'[cur].mtime = writes'
      BY <1>19, <2>3, PlaceEffect
    <3>4. QED
      BY <2>1, <3>2, <3>3
  <2>4. CASE opened = None
    BY <2>1, <2>4
  <2>5. QED
    BY <2>2, <2>3, <2>4
<1>20. ASSUME NEW n \in Names, NEW c \in Contents, Overwrite(n, c) PROVE VersionInv'
  <2>1. UNCHANGED cur /\ cur \in Names \cup {None}
    BY <1>20 DEF Overwrite, TypeOK
  <2>2. CASE opened = None
    BY <1>20, <2>2, SourceEffect
  <2>3. CASE opened # None /\ cur # n
    <3>1. cur # None
      BY <2>3 DEF TypeOK
    <3>2. file'[cur] = file[cur]
      BY <1>20, <2>1, <2>3, <3>1, OverwriteEffect
    <3>3. opened' = opened
      BY <1>20, <2>3, SourceEffect
    <3>4. QED
      BY <2>1, <3>2, <3>3
  <2>4. CASE opened # None /\ cur = n
    <3>1. /\ opened.mtime <= writes /\ opened.mtime \in 1..MaxWrites
      BY <2>4 DEF TypeOK, ClockInv, Sources
    <3>2. opened.mtime <= writes' /\ opened.mtime # writes'
      BY <1>20, <3>1, OverwriteEffect
    <3>3. file'[cur].ino = file[cur].ino /\ file'[cur].mtime = writes'
      BY <1>20, <2>4, OverwriteEffect
    <3>4. /\ opened'.mtime = opened.mtime /\ opened'.ino = opened.ino
          /\ ~opened'.dirty => opened.ino # file[cur].ino
      BY <1>20, <2>4, SourceEffect
    <3>5. QED
      BY <2>1, <3>2, <3>3, <3>4
  <2>5. QED
    BY <2>2, <2>3, <2>4
<1>21. CASE UNCHANGED vars
  BY <1>21 DEF vars
<1>22. ASSUME NEW n \in Names, Stage(n) PROVE VersionInv'
  BY <1>22, StageEffect
<1>23. ASSUME NEW n \in Names, TooLarge(n) PROVE VersionInv'
  <2>1. opened' = None /\ UNCHANGED <<file, accepted>>
    BY <1>23 DEF TooLarge, GoDown
  <2>2. QED
    BY <2>1
<1>24. ASSUME Tick PROVE VersionInv'
  BY <1>24, TickEffect
<1>25. QED
  BY <1>1, <1>2, <1>3, <1>4, <1>5, <1>6, <1>7, <1>8, <1>9, <1>10, <1>11, <1>12, <1>13, <1>14, <1>15, <1>16, <1>17, <1>18, <1>19, <1>20, <1>21,
     <1>22, <1>23, <1>24
  DEF Next, Watch, Users

\* A copy is the content of a source nobody wrote to.
LEMMA CopyInvStep == TypeOK /\ CopyInv /\ [Next]_vars => CopyInv'
<1> SUFFICES ASSUME TypeOK, CopyInv, [Next]_vars PROVE CopyInv'
  OBVIOUS
<1> USE DEF CopyInv, poll, time
<1>1. ASSUME Poll PROVE CopyInv'
  BY <1>1 DEF Poll, Listing
<1>2. ASSUME NEW n \in Names, Gone(n) PROVE CopyInv'
  BY <1>2 DEF Gone
<1>3. ASSUME NEW n \in Names, Notice(n) PROVE CopyInv'
  BY <1>3 DEF Notice
<1>4. ASSUME NEW n \in Names, Revisit(n) PROVE CopyInv'
  BY <1>4 DEF Revisit
<1>5. ASSUME Open PROVE CopyInv'
  BY <1>5 DEF Open
<1>6. ASSUME Revalidate PROVE CopyInv'
  BY <1>6 DEF Revalidate
<1>7. ASSUME Copy PROVE CopyInv'
  <2>1. pc' = "match" /\ opened' = opened
    BY <1>7 DEF Copy
  <2>2. QED
    BY <1>7, <2>1, CopyEffect
<1>8. ASSUME Retry PROVE CopyInv'
  BY <1>8 DEF Retry, NextName, Forgotten
<1>9. ASSUME PathChanged PROVE CopyInv'
  BY <1>9 DEF PathChanged, GoDown
<1>10. ASSUME Matches PROVE CopyInv'
  BY <1>10 DEF Matches, NextName, Handled
<1>11. ASSUME Differs PROVE CopyInv'
  BY <1>11 DEF Differs
<1>12. ASSUME Submit PROVE CopyInv'
  BY <1>12 DEF Submit
<1>13. ASSUME Reject PROVE CopyInv'
  BY <1>13 DEF Reject, NextName
<1>14. ASSUME Record PROVE CopyInv'
  BY <1>14 DEF Record, NextName, Handled
<1>15. ASSUME Prune PROVE CopyInv'
  BY <1>15 DEF Prune
<1>16. ASSUME Down PROVE CopyInv'
  BY <1>16 DEF Down, GoDown
<1>17. ASSUME Start PROVE CopyInv'
  BY <1>17 DEF Start, Listing
<1>18. ASSUME NEW n \in Names, Remove(n) PROVE CopyInv'
  BY <1>18 DEF Remove, Touch
<1>19. ASSUME NEW n \in Names, NEW c \in Contents, Place(n, c) PROVE CopyInv'
  BY <1>19 DEF Place, Touch
<1>20. ASSUME NEW n \in Names, NEW c \in Contents, Overwrite(n, c) PROVE CopyInv'
  <2>1. UNCHANGED <<pc, cur, snapshot, receipts>>
    BY <1>20 DEF Overwrite
  <2>2. opened # None => opened'.content = opened.content /\ (~opened'.dirty => ~opened.dirty)
    BY <1>20, SourceEffect
  <2>3. QED
    BY <2>1, <2>2 DEF TypeOK
<1>21. CASE UNCHANGED vars
  BY <1>21 DEF vars
<1>22. ASSUME NEW n \in Names, Stage(n) PROVE CopyInv'
  BY <1>22, StageEffect
<1>23. ASSUME NEW n \in Names, TooLarge(n) PROVE CopyInv'
  BY <1>23 DEF TooLarge, GoDown
<1>24. ASSUME Tick PROVE CopyInv'
  BY <1>24, TickEffect
<1>25. QED
  BY <1>1, <1>2, <1>3, <1>4, <1>5, <1>6, <1>7, <1>8, <1>9, <1>10, <1>11, <1>12, <1>13, <1>14, <1>15, <1>16, <1>17, <1>18, <1>19, <1>20, <1>21,
     <1>22, <1>23, <1>24
  DEF Next, Watch, Users

\* A tick makes the file quieter by what the next poll will add to the age.
LEMMA QuietInvStep == TypeOK /\ StageInv /\ ClockInv /\ QuietInv /\ [Next]_vars => QuietInv'
<1> SUFFICES ASSUME TypeOK, StageInv, ClockInv, QuietInv, [Next]_vars PROVE QuietInv'
  OBVIOUS
<1> USE DEF QuietInv, Unchanged, poll, time
<1>1. ASSUME Poll PROVE QuietInv'
  <2>1. SUFFICES ASSUME NEW m \in Names, Unchanged(m)'
                 PROVE  \/ quiet[m] = StableTicks
                        \/ observed'[m].late = StableTicks
                        \/ quiet[m] + observed'[m].late >= observed'[m].age + late' + elapsed'
    BY <1>1 DEF Poll
  <2>2. /\ file[m] # None /\ observed[m] # None /\ observed[m].mtime = file[m].mtime
        /\ observed[m] \in Observations /\ observed'[m] \in Observations
        /\ observed'[m].late = observed[m].late
        /\ observed'[m].age <= observed[m].age + late + 1
    BY <1>1, <2>1, PollEffect DEF Unchanged, Poll
  <2>3. /\ observed[m].late \in 0..StableTicks /\ observed[m].age \in 0..StableTicks
        /\ observed'[m].age \in 0..StableTicks
        /\ quiet[m] \in 0..StableTicks /\ late \in 0..MaxDelay /\ elapsed \in 0..MaxDelay
    BY <2>2 DEF TypeOK, Observations
  <2>4. late' = elapsed - 1 /\ elapsed' = 0 /\ elapsed > 0
    BY <1>1 DEF Poll
  <2>5. \/ quiet[m] = StableTicks
        \/ observed[m].late = StableTicks
        \/ quiet[m] + observed[m].late >= observed[m].age + late + elapsed
    BY <2>2 DEF Unchanged
  <2>6. QED
    BY <2>2, <2>3, <2>4, <2>5, TicksAssumption
<1>2. ASSUME NEW n \in Names, Gone(n) PROVE QuietInv'
  BY <1>2 DEF Gone
<1>3. ASSUME NEW n \in Names, Notice(n) PROVE QuietInv'
  <2>1. SUFFICES ASSUME NEW m \in Names, Unchanged(m)'
                 PROVE  \/ quiet[m] = StableTicks
                        \/ observed'[m].late = StableTicks
                        \/ quiet[m] + observed'[m].late >= observed'[m].age + late + elapsed
    BY <1>3 DEF Notice
  <2>2. CASE m = n
    <3>1. observed'[m].age = 0 /\ observed'[m].late = UpTo(StableTicks, late + elapsed)
      BY <1>3, <2>2, NoticeEffect
    <3>2. quiet[m] \in 0..StableTicks /\ late \in 0..MaxDelay /\ elapsed \in 0..MaxDelay
      BY DEF TypeOK
    <3>3. QED
      BY <3>1, <3>2, TicksAssumption DEF UpTo
  <2>3. CASE m # n
    <3>1. observed'[m] = observed[m] /\ file'[m] = file[m]
      BY <1>3, <2>3, NoticeEffect DEF Notice
    <3>2. QED
      BY <2>1, <3>1 DEF Unchanged
  <2>4. QED
    BY <2>2, <2>3
<1>4. ASSUME NEW n \in Names, Revisit(n) PROVE QuietInv'
  <2>1. UNCHANGED <<file, observed, time>>
    BY <1>4 DEF Revisit
  <2>2. QED
    BY <2>1
<1>5. ASSUME Open PROVE QuietInv'
  <2>1. UNCHANGED <<file, observed, time, todo>>
    BY <1>5 DEF Open
  <2>2. QED
    BY <2>1
<1>6. ASSUME Revalidate PROVE QuietInv'
  <2>1. UNCHANGED <<file, observed, time, todo>>
    BY <1>6 DEF Revalidate
  <2>2. QED
    BY <2>1
<1>7. ASSUME Copy PROVE QuietInv'
  <2>1. UNCHANGED <<file, observed, time, todo>>
    BY <1>7 DEF Copy
  <2>2. QED
    BY <2>1
<1>8. ASSUME Retry PROVE QuietInv'
  <2>1. observed' = [observed EXCEPT ![cur] = None] /\ UNCHANGED <<file, time, todo>>
    BY <1>8 DEF Retry, NextName, Forgotten
  <2>2. \A m \in Names : observed'[m] = None \/ observed'[m] = observed[m]
    BY <2>1 DEF TypeOK
  <2>3. QED
    BY <2>1, <2>2
<1>9. ASSUME PathChanged PROVE QuietInv'
  <2>1. \A m \in Names : observed'[m] = None
    BY <1>9 DEF PathChanged, GoDown
  <2>2. QED
    BY <2>1
<1>10. ASSUME Matches PROVE QuietInv'
  <2>1. cur # None /\ observed' = Handled /\ UNCHANGED <<file, time, todo>>
    BY <1>10 DEF TypeOK, Matches
  <2>2. \A m \in Names : observed'[m] = observed[m] \/
          (m = cur /\ observed[m] # None /\ observed'[m].mtime = observed[m].mtime
                   /\ observed'[m].age = observed[m].age
                   /\ observed'[m].late = observed[m].late)
    BY <2>1, HandledEffect DEF StageInv
  <2>3. QED
    BY <2>1, <2>2
<1>11. ASSUME Differs PROVE QuietInv'
  <2>1. UNCHANGED <<file, observed, time, todo>>
    BY <1>11 DEF Differs
  <2>2. QED
    BY <2>1
<1>12. ASSUME Submit PROVE QuietInv'
  <2>1. UNCHANGED <<file, observed, time, todo>>
    BY <1>12 DEF Submit
  <2>2. QED
    BY <2>1
<1>13. ASSUME Reject PROVE QuietInv'
  <2>1. UNCHANGED <<file, observed, time, todo>>
    BY <1>13 DEF Reject, NextName
  <2>2. QED
    BY <2>1
<1>14. ASSUME Record PROVE QuietInv'
  <2>1. cur # None /\ observed' = Handled /\ UNCHANGED <<file, time, todo>>
    BY <1>14 DEF TypeOK, Record
  <2>2. \A m \in Names : observed'[m] = observed[m] \/
          (m = cur /\ observed[m] # None /\ observed'[m].mtime = observed[m].mtime
                   /\ observed'[m].age = observed[m].age
                   /\ observed'[m].late = observed[m].late)
    BY <2>1, HandledEffect DEF StageInv
  <2>3. QED
    BY <2>1, <2>2
<1>15. ASSUME Prune PROVE QuietInv'
  BY <1>15 DEF Prune
<1>16. ASSUME Down PROVE QuietInv'
  <2>1. \A m \in Names : observed'[m] = None
    BY <1>16 DEF Down, GoDown
  <2>2. QED
    BY <2>1
<1>17. ASSUME Start PROVE QuietInv'
  <2>1. UNCHANGED <<file, observed, time>>
    BY <1>17 DEF Start
  <2>2. QED
    BY <2>1
<1>18. ASSUME NEW n \in Names, Remove(n) PROVE QuietInv'
  <2>1. UNCHANGED <<observed, late, elapsed>>
    BY <1>18 DEF Remove
  <2>2. \A m \in Names : m # n => file'[m] = file[m] /\ quiet'[m] = quiet[m]
    BY <1>18 DEF Remove, Touch, TypeOK
  <2>3. file'[n] = None
    BY <1>18 DEF Remove, TypeOK
  <2>4. QED
    BY <2>1, <2>2, <2>3
<1>19. ASSUME NEW n \in Names, NEW c \in Contents, Place(n, c) PROVE QuietInv'
  <2>1. UNCHANGED <<observed, late, elapsed>>
    BY <1>19 DEF Place
  <2>2. \A m \in Names : m # n => file'[m] = file[m] /\ quiet'[m] = quiet[m]
    BY <1>19, PlaceEffect DEF Place, Touch, TypeOK
  <2>3. file'[n] # None /\ observed[n] # None => observed[n].mtime # file'[n].mtime
    <3>1. observed[n] # None => observed[n].mtime <= writes /\ observed[n].mtime \in 1..MaxWrites
      BY DEF ClockInv, TypeOK, Observations
    <3>2. QED
      BY <1>19, <3>1, PlaceEffect
  <2>4. QED
    BY <2>1, <2>2, <2>3
<1>20. ASSUME NEW n \in Names, NEW c \in Contents, Overwrite(n, c) PROVE QuietInv'
  <2>1. UNCHANGED <<observed, late, elapsed>>
    BY <1>20 DEF Overwrite
  <2>2. \A m \in Names : m # n => file'[m] = file[m] /\ quiet'[m] = quiet[m]
    BY <1>20, OverwriteEffect DEF Overwrite, Touch, TypeOK
  <2>3. file'[n] # None /\ observed[n] # None => observed[n].mtime # file'[n].mtime
    <3>1. observed[n] # None => observed[n].mtime <= writes /\ observed[n].mtime \in 1..MaxWrites
      BY DEF ClockInv, TypeOK, Observations
    <3>2. QED
      BY <1>20, <3>1, OverwriteEffect
  <2>4. QED
    BY <2>1, <2>2, <2>3
<1>21. CASE UNCHANGED vars
  BY <1>21 DEF vars
<1>22. ASSUME NEW n \in Names, Stage(n) PROVE QuietInv'
  <2>1. UNCHANGED <<file, observed, time>>
    BY <1>22 DEF Stage
  <2>2. QED
    BY <2>1
<1>23. ASSUME NEW n \in Names, TooLarge(n) PROVE QuietInv'
  <2>1. \A m \in Names : observed'[m] = None
    BY <1>23 DEF TooLarge, GoDown
  <2>2. QED
    BY <2>1
<1>24. ASSUME Tick PROVE QuietInv'
  <2>1. SUFFICES ASSUME NEW m \in Names, Unchanged(m)
                 PROVE  \/ quiet'[m] = StableTicks
                        \/ observed[m].late = StableTicks
                        \/ quiet'[m] + observed[m].late >= observed[m].age + late + elapsed'
    BY <1>24, TickEffect
  <2>2. /\ observed[m].late \in 0..StableTicks /\ observed[m].age \in 0..StableTicks
        /\ quiet[m] \in 0..StableTicks /\ late \in 0..MaxDelay /\ elapsed \in 0..MaxDelay
    BY <2>1 DEF TypeOK, Observations
  <2>3. elapsed' = elapsed + 1 /\ quiet'[m] = UpTo(StableTicks, quiet[m] + 1)
    BY <1>24, <2>1, TickEffect
  <2>4. \/ quiet[m] = StableTicks
        \/ observed[m].late = StableTicks
        \/ quiet[m] + observed[m].late >= observed[m].age + late + elapsed
    BY <2>1
  <2>5. QED
    BY <2>2, <2>3, <2>4, TicksAssumption DEF UpTo
<1>25. QED
  BY <1>1, <1>2, <1>3, <1>4, <1>5, <1>6, <1>7, <1>8, <1>9, <1>10, <1>11, <1>12, <1>13, <1>14, <1>15, <1>16, <1>17, <1>18, <1>19, <1>20, <1>21,
     <1>22, <1>23, <1>24
  DEF Next, Watch, Users

\* Submit comes before Record.
LEMMA EarnedInvStep == TypeOK /\ StageInv /\ EarnedInv /\ [Next]_vars => EarnedInv'
<1> SUFFICES ASSUME TypeOK, StageInv, EarnedInv, [Next]_vars PROVE EarnedInv'
  OBVIOUS
<1> USE DEF EarnedInv, ReceiptsAreEarned, poll, time
<1>1. ASSUME Poll PROVE EarnedInv'
  BY <1>1 DEF Poll, Listing
<1>2. ASSUME NEW n \in Names, Gone(n) PROVE EarnedInv'
  BY <1>2 DEF Gone
<1>3. ASSUME NEW n \in Names, Notice(n) PROVE EarnedInv'
  BY <1>3 DEF Notice
<1>4. ASSUME NEW n \in Names, Revisit(n) PROVE EarnedInv'
  BY <1>4 DEF Revisit
<1>5. ASSUME Open PROVE EarnedInv'
  BY <1>5 DEF Open
<1>6. ASSUME Revalidate PROVE EarnedInv'
  BY <1>6 DEF Revalidate
<1>7. ASSUME Copy PROVE EarnedInv'
  BY <1>7 DEF Copy
<1>8. ASSUME Retry PROVE EarnedInv'
  BY <1>8 DEF Retry, NextName, Forgotten
<1>9. ASSUME PathChanged PROVE EarnedInv'
  BY <1>9 DEF PathChanged, GoDown
<1>10. ASSUME Matches PROVE EarnedInv'
  BY <1>10 DEF Matches, NextName, Handled
<1>11. ASSUME Differs PROVE EarnedInv'
  BY <1>11 DEF Differs
<1>12. ASSUME Submit PROVE EarnedInv'
  <2>1. PICK r : accepted' = accepted \cup {r} /\ r.name = cur /\ r.content = snapshot
    BY <1>12, SubmitEffect
  <2>2. UNCHANGED <<receipts, cur, snapshot>>
    BY <1>12 DEF Submit
  <2>3. QED
    BY <2>1, <2>2
<1>13. ASSUME Reject PROVE EarnedInv'
  BY <1>13 DEF Reject, NextName
<1>14. ASSUME Record PROVE EarnedInv'
  <2>1. /\ \E a \in accepted : a.name = cur /\ a.content = snapshot
        /\ receipts' = [receipts EXCEPT ![cur] = snapshot]
        /\ accepted' = accepted /\ pc' = "next"
    BY <1>14 DEF Record, NextName
  <2>2. \A m \in Names : receipts'[m] = receipts[m] \/ (m = cur /\ receipts'[m] = snapshot)
    BY <2>1 DEF TypeOK
  <2>3. QED
    BY <2>1, <2>2
<1>15. ASSUME Prune PROVE EarnedInv'
  BY <1>15 DEF Prune
<1>16. ASSUME Down PROVE EarnedInv'
  BY <1>16 DEF Down, GoDown
<1>17. ASSUME Start PROVE EarnedInv'
  BY <1>17 DEF Start, Listing
<1>18. ASSUME NEW n \in Names, Remove(n) PROVE EarnedInv'
  BY <1>18 DEF Remove, Touch
<1>19. ASSUME NEW n \in Names, NEW c \in Contents, Place(n, c) PROVE EarnedInv'
  BY <1>19 DEF Place, Touch
<1>20. ASSUME NEW n \in Names, NEW c \in Contents, Overwrite(n, c) PROVE EarnedInv'
  BY <1>20 DEF Overwrite, Touch
<1>21. CASE UNCHANGED vars
  BY <1>21 DEF vars
<1>22. ASSUME NEW n \in Names, Stage(n) PROVE EarnedInv'
  BY <1>22, StageEffect
<1>23. ASSUME NEW n \in Names, TooLarge(n) PROVE EarnedInv'
  BY <1>23 DEF TooLarge, GoDown
<1>24. ASSUME Tick PROVE EarnedInv'
  BY <1>24, TickEffect
<1>25. QED
  BY <1>1, <1>2, <1>3, <1>4, <1>5, <1>6, <1>7, <1>8, <1>9, <1>10, <1>11, <1>12, <1>13, <1>14, <1>15, <1>16, <1>17, <1>18, <1>19, <1>20, <1>21,
     <1>22, <1>23, <1>24
  DEF Next, Watch, Users

\* A submission is of a version no newer than what came after.
LEMMA OrderInvStep == TypeOK /\ ClockInv /\ VersionInv /\ OrderInv /\ [Next]_vars => OrderInv'
<1> SUFFICES ASSUME TypeOK, ClockInv, VersionInv, OrderInv, [Next]_vars PROVE OrderInv'
  OBVIOUS
<1> USE DEF OrderInv, poll, time
<1>1. ASSUME Poll PROVE OrderInv'
  BY <1>1 DEF Poll, Listing
<1>2. ASSUME NEW n \in Names, Gone(n) PROVE OrderInv'
  BY <1>2 DEF Gone
<1>3. ASSUME NEW n \in Names, Notice(n) PROVE OrderInv'
  BY <1>3 DEF Notice
<1>4. ASSUME NEW n \in Names, Revisit(n) PROVE OrderInv'
  BY <1>4 DEF Revisit
<1>5. ASSUME Open PROVE OrderInv'
  <2>1. UNCHANGED <<file, accepted, cur>> /\ file[cur] # None /\ opened'.mtime = file[cur].mtime
    BY <1>5, OpenEffect DEF Open
  <2>2. QED
    BY <2>1
<1>6. ASSUME Revalidate PROVE OrderInv'
  BY <1>6 DEF Revalidate
<1>7. ASSUME Copy PROVE OrderInv'
  BY <1>7 DEF Copy
<1>8. ASSUME Retry PROVE OrderInv'
  <2>1. opened' = None /\ UNCHANGED <<file, accepted>>
    BY <1>8 DEF Retry, NextName, Forgotten
  <2>2. QED
    BY <2>1
<1>9. ASSUME PathChanged PROVE OrderInv'
  <2>1. opened' = None /\ UNCHANGED <<file, accepted>>
    BY <1>9 DEF PathChanged, GoDown
  <2>2. QED
    BY <2>1
<1>10. ASSUME Matches PROVE OrderInv'
  <2>1. opened' = None /\ UNCHANGED <<file, accepted>>
    BY <1>10 DEF Matches, NextName, Handled
  <2>2. QED
    BY <2>1
<1>11. ASSUME Differs PROVE OrderInv'
  BY <1>11 DEF Differs
<1>12. ASSUME Submit PROVE OrderInv'
  <2>1. PICK r : accepted' = accepted \cup {r} /\ r.name = cur /\ r.mtime = opened.mtime
    BY <1>12, SubmitEffect
  <2>2. UNCHANGED <<file, cur, opened>> /\ opened # None
    BY <1>12 DEF Submit, TypeOK
  <2>3. opened.mtime \in 1..MaxWrites
    BY <2>2 DEF TypeOK, Sources
  <2>4. r.mtime <= opened.mtime /\ (file[cur] # None => r.mtime <= file[cur].mtime)
    BY <2>1, <2>2, <2>3 DEF VersionInv
  <2>5. QED
    BY <2>1, <2>2, <2>4
<1>13. ASSUME Reject PROVE OrderInv'
  <2>1. opened' = None /\ UNCHANGED <<file, accepted>>
    BY <1>13 DEF Reject, NextName
  <2>2. QED
    BY <2>1
<1>14. ASSUME Record PROVE OrderInv'
  <2>1. opened' = None /\ UNCHANGED <<file, accepted>>
    BY <1>14 DEF Record, NextName, Handled
  <2>2. QED
    BY <2>1
<1>15. ASSUME Prune PROVE OrderInv'
  BY <1>15 DEF Prune
<1>16. ASSUME Down PROVE OrderInv'
  <2>1. opened' = None /\ UNCHANGED <<file, accepted>>
    BY <1>16 DEF Down, GoDown
  <2>2. QED
    BY <2>1
<1>17. ASSUME Start PROVE OrderInv'
  BY <1>17 DEF Start, Listing
<1>18. ASSUME NEW n \in Names, Remove(n) PROVE OrderInv'
  <2>1. UNCHANGED <<opened, cur, accepted>> /\ file'[n] = None
    BY <1>18 DEF Remove, TypeOK
  <2>2. \A m \in Names : m # n => file'[m] = file[m]
    BY <1>18 DEF Remove, TypeOK
  <2>3. \A a \in accepted : a.name \in Names
    BY DEF TypeOK
  <2>4. QED
    BY <2>1, <2>2, <2>3
<1>19. ASSUME NEW n \in Names, NEW c \in Contents, Place(n, c) PROVE OrderInv'
  <2>1. UNCHANGED <<accepted, cur, pc, todo, present, receipts, downs>>
    BY <1>19 DEF Place
  <2>2. \A m \in Names : m # n => file'[m] = file[m]
    BY <1>19, PlaceEffect
  <2>3. \A a \in accepted : a.name \in Names /\ a.mtime \in 1..MaxWrites /\ a.mtime <= writes
    BY DEF TypeOK, ClockInv
  <2>4. \A a \in accepted : a.mtime <= file'[n].mtime /\ a.mtime # file'[n].mtime
    BY <1>19, <2>3, PlaceEffect
  <2>5. opened' = opened
    BY <1>19 DEF Place
  <2>6. QED
    BY <2>1, <2>2, <2>3, <2>4, <2>5
<1>20. ASSUME NEW n \in Names, NEW c \in Contents, Overwrite(n, c) PROVE OrderInv'
  <2>1. UNCHANGED <<accepted, cur, pc, todo, present, receipts, downs>>
    BY <1>20 DEF Overwrite
  <2>2. \A m \in Names : m # n => file'[m] = file[m]
    BY <1>20, OverwriteEffect
  <2>3. \A a \in accepted : a.name \in Names /\ a.mtime \in 1..MaxWrites /\ a.mtime <= writes
    BY DEF TypeOK, ClockInv
  <2>4. \A a \in accepted : a.mtime <= file'[n].mtime /\ a.mtime # file'[n].mtime
    BY <1>20, <2>3, OverwriteEffect
  <2>5. /\ opened' = None <=> opened = None
        /\ opened # None => opened'.mtime = opened.mtime /\ opened'.content = opened.content
    BY <1>20, SourceEffect
  <2>6. QED
    BY <2>1, <2>2, <2>3, <2>4, <2>5
<1>21. CASE UNCHANGED vars
  BY <1>21 DEF vars
<1>22. ASSUME NEW n \in Names, Stage(n) PROVE OrderInv'
  BY <1>22, StageEffect
<1>23. ASSUME NEW n \in Names, TooLarge(n) PROVE OrderInv'
  <2>1. opened' = None /\ UNCHANGED <<file, accepted>>
    BY <1>23 DEF TooLarge, GoDown
  <2>2. QED
    BY <2>1
<1>24. ASSUME Tick PROVE OrderInv'
  BY <1>24, TickEffect
<1>25. QED
  BY <1>1, <1>2, <1>3, <1>4, <1>5, <1>6, <1>7, <1>8, <1>9, <1>10, <1>11, <1>12, <1>13, <1>14, <1>15, <1>16, <1>17, <1>18, <1>19, <1>20, <1>21,
     <1>22, <1>23, <1>24
  DEF Next, Watch, Users

\* A version that was submitted stays in the receipts while it lies there.
LEMMA OnceInvStep == TypeOK /\ StageInv /\ ClockInv /\ VersionInv /\ CopyInv /\ OrderInv /\ OnceInv /\ [Next]_vars => OnceInv'
<1> SUFFICES ASSUME TypeOK, StageInv, ClockInv, VersionInv, CopyInv, OrderInv, OnceInv, [Next]_vars PROVE OnceInv'
  OBVIOUS
<1> USE DEF OnceInv, poll, time
<1>1. ASSUME Poll PROVE OnceInv'
  <2>1. /\ pc = "wait" /\ todo' = {m \in Names : file[m] # None}
        /\ UNCHANGED <<file, receipts, accepted, cur, opened, downs>>
    BY <1>1 DEF Poll, Listing
  <2>2. \A a \in accepted : a.name \in Names
    BY DEF TypeOK
  <2>3. QED
    BY <2>1, <2>2
<1>2. ASSUME NEW n \in Names, Gone(n) PROVE OnceInv'
  BY <1>2 DEF Gone
<1>3. ASSUME NEW n \in Names, Notice(n) PROVE OnceInv'
  <2>1. /\ todo' = todo \ {n} /\ present' = present \cup {n} /\ pc = "next" /\ opened' = None
        /\ UNCHANGED <<file, receipts, accepted, pc, downs>>
    BY <1>3 DEF Notice, IsNext, TypeOK
  <2>2. QED
    BY <2>1
<1>4. ASSUME NEW n \in Names, Revisit(n) PROVE OnceInv'
  <2>1. /\ todo' = todo \ {n} /\ present' = present \cup {n} /\ pc = "next" /\ opened' = None
        /\ UNCHANGED <<file, receipts, accepted, pc, downs>>
    BY <1>4 DEF Revisit, IsNext, TypeOK
  <2>2. QED
    BY <2>1
<1>5. ASSUME Open PROVE OnceInv'
  <2>1. /\ pc = "open" /\ UNCHANGED <<file, accepted, receipts, todo, present, cur, downs>>
        /\ pc' = "lstat"
    BY <1>5 DEF Open
  <2>2. /\ file[cur] # None /\ opened'.mtime = file[cur].mtime
        /\ opened'.content = file[cur].content
    BY <1>5, OpenEffect DEF Open
  <2>3. QED
    BY <2>1, <2>2
<1>6. ASSUME Revalidate PROVE OnceInv'
  BY <1>6 DEF Revalidate
<1>7. ASSUME Copy PROVE OnceInv'
  BY <1>7 DEF Copy
<1>8. ASSUME Retry PROVE OnceInv'
  <2>1. /\ opened' = None /\ pc # "record" /\ pc' \in {"next", "down"}
        /\ pc \notin {"wait", "down"} /\ todo' = todo /\ present' = present
        /\ UNCHANGED <<file, receipts, accepted, downs>>
    BY <1>8 DEF Retry, NextName, Forgotten
  <2>2. QED
    BY <2>1
<1>9. ASSUME PathChanged PROVE OnceInv'
  <2>1. /\ opened' = None /\ pc = "lstat" /\ pc' = "down"
        /\ UNCHANGED <<file, receipts, accepted, downs>>
    BY <1>9 DEF PathChanged, GoDown
  <2>2. QED
    BY <2>1
<1>10. ASSUME Matches PROVE OnceInv'
  <2>1. /\ opened' = None /\ pc # "record" /\ pc' \in {"next", "down"}
        /\ pc \notin {"wait", "down"} /\ todo' = todo /\ present' = present
        /\ UNCHANGED <<file, receipts, accepted, downs>>
    BY <1>10 DEF Matches, NextName, Handled
  <2>2. QED
    BY <2>1
<1>11. ASSUME Differs PROVE OnceInv'
  BY <1>11 DEF Differs
<1>12. ASSUME Submit PROVE OnceInv'
  <2>1. PICK r : accepted' = accepted \cup {r} /\ r.name = cur /\ r.mtime = opened.mtime
    BY <1>12, SubmitEffect
  <2>2. /\ UNCHANGED <<file, receipts, cur, opened, todo, present, downs>>
        /\ pc = "submit" /\ pc' = "record"
    BY <1>12 DEF Submit
  <2>3. cur \in present
    BY <1>12 DEF Submit, TypeOK, StageInv
  <2>4. QED
    BY <2>1, <2>2, <2>3
<1>13. ASSUME Reject PROVE OnceInv'
  <2>1. /\ opened' = None /\ pc # "record" /\ pc' \in {"next", "down"}
        /\ pc \notin {"wait", "down"} /\ todo' = todo /\ present' = present
        /\ UNCHANGED <<file, receipts, accepted, downs>>
    BY <1>13 DEF Reject, NextName
  <2>2. QED
    BY <2>1
<1>14. ASSUME Record PROVE OnceInv'
  <2>1. /\ opened' = None /\ pc = "record" /\ pc' = "next" /\ cur \in Names /\ opened # None
        /\ receipts' = [receipts EXCEPT ![cur] = snapshot]
        /\ UNCHANGED <<file, accepted, todo, present, downs>>
    BY <1>14 DEF Record, NextName, TypeOK
  <2>2. SUFFICES ASSUME NEW a \in accepted, a.life = downs,
                        file[a.name] # None, file[a.name].mtime = a.mtime
                 PROVE  /\ a.name \in todo \cup present
                        /\ receipts'[a.name] = file[a.name].content
    BY <2>1
  <2>3. a.name \in todo \cup present /\ a.name \in Names
    BY <2>1, <2>2 DEF TypeOK
  <2>4. CASE a.name # cur
    BY <2>1, <2>2, <2>3, <2>4 DEF TypeOK
  <2>5. CASE a.name = cur
    <3>1. a.mtime <= opened.mtime /\ opened.mtime <= file[cur].mtime
      BY <2>1, <2>2, <2>5 DEF OrderInv, VersionInv
    <3>2. opened.mtime = file[cur].mtime
      BY <2>1, <2>2, <2>5, <3>1 DEF TypeOK, Sources
    <3>3. snapshot = file[cur].content
      BY <2>1, <2>2, <2>5, <3>2 DEF VersionInv, CopyInv
    <3>4. receipts'[cur] = snapshot
      BY <2>1 DEF TypeOK
    <3>5. QED
      BY <2>3, <2>5, <3>3, <3>4
  <2>6. QED
    BY <2>4, <2>5
<1>15. ASSUME Prune PROVE OnceInv'
  <2>1. /\ pc = "next" /\ pc' = "wait" /\ todo = {} /\ opened' = None
        /\ receipts' = [m \in Names |-> IF m \in present THEN receipts[m] ELSE None]
        /\ UNCHANGED <<file, accepted, downs>>
    BY <1>15 DEF Prune, TypeOK
  <2>2. \A a \in accepted : a.name \in Names
    BY DEF TypeOK
  <2>3. QED
    BY <2>1, <2>2
<1>16. ASSUME Down PROVE OnceInv'
  <2>1. accepted' = accepted /\ downs' = downs + 1 /\ downs \in Nat
    BY <1>16 DEF Down, TypeOK
  <2>2. \A a \in accepted : a.life <= downs /\ a.life \in Nat
    BY DEF ClockInv, TypeOK
  <2>3. \A a \in accepted : a.life # downs'
    BY <2>1, <2>2
  <2>4. QED
    BY <2>1, <2>3
<1>17. ASSUME Start PROVE OnceInv'
  <2>1. /\ pc = "down" /\ todo' = {m \in Names : file[m] # None} /\ opened' = None
        /\ UNCHANGED <<file, receipts, accepted, cur, opened, downs>>
    BY <1>17 DEF Start, Listing, TypeOK
  <2>2. \A a \in accepted : a.name \in Names
    BY DEF TypeOK
  <2>3. QED
    BY <2>1, <2>2
<1>18. ASSUME NEW n \in Names, Remove(n) PROVE OnceInv'
  <2>1. UNCHANGED <<opened, cur, accepted, pc, todo, present, receipts, downs>> /\ file'[n] = None
    BY <1>18 DEF Remove, TypeOK
  <2>2. \A m \in Names : m # n => file'[m] = file[m]
    BY <1>18 DEF Remove, TypeOK
  <2>3. \A a \in accepted : a.name \in Names
    BY DEF TypeOK
  <2>4. QED
    BY <2>1, <2>2, <2>3
<1>19. ASSUME NEW n \in Names, NEW c \in Contents, Place(n, c) PROVE OnceInv'
  <2>1. UNCHANGED <<accepted, cur, pc, todo, present, receipts, downs>>
    BY <1>19 DEF Place
  <2>2. \A m \in Names : m # n => file'[m] = file[m]
    BY <1>19, PlaceEffect
  <2>3. \A a \in accepted : a.name \in Names /\ a.mtime \in 1..MaxWrites /\ a.mtime <= writes
    BY DEF TypeOK, ClockInv
  <2>4. \A a \in accepted : a.mtime <= file'[n].mtime /\ a.mtime # file'[n].mtime
    BY <1>19, <2>3, PlaceEffect
  <2>5. opened' = opened
    BY <1>19 DEF Place
  <2>6. QED
    BY <2>1, <2>2, <2>3, <2>4, <2>5
<1>20. ASSUME NEW n \in Names, NEW c \in Contents, Overwrite(n, c) PROVE OnceInv'
  <2>1. UNCHANGED <<accepted, cur, pc, todo, present, receipts, downs>>
    BY <1>20 DEF Overwrite
  <2>2. \A m \in Names : m # n => file'[m] = file[m]
    BY <1>20, OverwriteEffect
  <2>3. \A a \in accepted : a.name \in Names /\ a.mtime \in 1..MaxWrites /\ a.mtime <= writes
    BY DEF TypeOK, ClockInv
  <2>4. \A a \in accepted : a.mtime <= file'[n].mtime /\ a.mtime # file'[n].mtime
    BY <1>20, <2>3, OverwriteEffect
  <2>5. /\ opened' = None <=> opened = None
        /\ opened # None => opened'.mtime = opened.mtime /\ opened'.content = opened.content
    BY <1>20, SourceEffect
  <2>6. QED
    BY <2>1, <2>2, <2>3, <2>4, <2>5
<1>21. CASE UNCHANGED vars
  BY <1>21 DEF vars
<1>22. ASSUME NEW n \in Names, Stage(n) PROVE OnceInv'
  BY <1>22, StageEffect
<1>23. ASSUME NEW n \in Names, TooLarge(n) PROVE OnceInv'
  <2>1. /\ opened' = None /\ pc = "next" /\ pc' = "down"
        /\ UNCHANGED <<file, receipts, accepted, downs>>
    BY <1>23 DEF TooLarge, IsNext, GoDown
  <2>2. QED
    BY <2>1
<1>24. ASSUME Tick PROVE OnceInv'
  BY <1>24, TickEffect
<1>25. QED
  BY <1>1, <1>2, <1>3, <1>4, <1>5, <1>6, <1>7, <1>8, <1>9, <1>10, <1>11, <1>12, <1>13, <1>14, <1>15, <1>16, <1>17, <1>18, <1>19, <1>20, <1>21,
     <1>22, <1>23, <1>24
  DEF Next, Watch, Users

-----------------------------------------------------------------------------
(* The theorems.                                                               *)

LEMMA InitIInv == Init => IInv
<1> SUFFICES ASSUME Init PROVE IInv
  OBVIOUS
<1>1. TypeOK
  BY InitType
<1>2. StageInv /\ VersionInv /\ CopyInv
  BY DEF Init, Idle, StageInv, VersionInv, CopyInv
<1>3. ClockInv /\ QuietInv
  BY DEF Init, Idle, ClockInv, QuietInv, Unchanged
<1>4. EarnedInv /\ OrderInv /\ OnceInv
  BY DEF Init, EarnedInv, ReceiptsAreEarned, OrderInv, OnceInv
<1>5. QED
  BY <1>1, <1>2, <1>3, <1>4 DEF IInv

LEMMA IInvStep == IInv /\ [Next]_vars => IInv'
  BY TypeStep, StageInvStep, ClockInvStep, VersionInvStep, CopyInvStep, QuietInvStep,
     EarnedInvStep, OrderInvStep, OnceInvStep DEF IInv

LEMMA Invariance == Spec => []IInv
  BY InitIInv, IInvStep, PTL DEF Spec

\* Every variable keeps its type.
THEOREM TypeCorrect == Spec => []TypeOK
<1>1. IInv => TypeOK
  BY DEF IInv
<1>2. QED
  BY Invariance, <1>1, PTL

\* A receipt is kept only for content that was submitted under that name.
THEOREM ReceiptsEarned == Spec => []ReceiptsAreEarned
<1>1. IInv => ReceiptsAreEarned
  BY DEF IInv, EarnedInv
<1>2. QED
  BY Invariance, <1>1, PTL

\* A copy the users did not disturb is of a file that lay untouched for the
\* stability window, less what the first look at it was behind its poll's tick.
THEOREM QuietIsStaged == Spec => []OnlyQuietFilesAreStaged
<1>1. IInv => OnlyQuietFilesAreStaged
  <2>1. SUFFICES ASSUME IInv, pc = "copy", ~opened.dirty, file[cur] # None,
                        file[cur].ino = opened.ino
                 PROVE  quiet[cur] + observed[cur].late >= StableTicks
    BY DEF OnlyQuietFilesAreStaged
  <2>2. cur \in Names /\ opened # None
    BY <2>1 DEF IInv, TypeOK
  <2>3. opened.mtime = file[cur].mtime /\ opened.mtime = observed[cur].mtime
    BY <2>1, <2>2 DEF IInv, VersionInv, StageInv
  <2>4. observed[cur] \in Observations /\ observed[cur] # None /\ observed[cur].age = StableTicks
    BY <2>1, <2>2 DEF IInv, StageInv, TypeOK
  <2>5. /\ quiet[cur] \in 0..StableTicks /\ observed[cur].late \in 0..StableTicks
        /\ late \in 0..MaxDelay /\ elapsed \in 0..MaxDelay
    BY <2>1, <2>2, <2>4 DEF IInv, TypeOK, Observations
  <2>6. \/ quiet[cur] = StableTicks
        \/ observed[cur].late = StableTicks
        \/ quiet[cur] + observed[cur].late >= observed[cur].age + late + elapsed
    BY <2>1, <2>2, <2>3, <2>4 DEF IInv, QuietInv, Unchanged
  <2>7. QED
    BY <2>4, <2>5, <2>6, TicksAssumption
<1>2. QED
  BY Invariance, <1>1, PTL

\* Between two crashes, stops or failing calls a source that is not written
\* while it is staged is submitted once.
THEOREM SubmissionsAreNotRepeated == Spec => SubmittedOnce
<1>1. ASSUME IInv, [Next]_vars, pc = "submit", pc' = "record", ~opened.dirty,
             NEW a \in accepted, a.name = cur, a.mtime = opened.mtime
      PROVE  a.life # downs
  <2>1. SUFFICES ASSUME a.life = downs PROVE FALSE
    OBVIOUS
  <2>2. opened # None
    BY <1>1 DEF IInv, TypeOK
  <2>3. receipts[cur] = opened.content
    BY <1>1, <2>1, <2>2 DEF IInv, OnceInv
  <2>4. snapshot = opened.content /\ receipts[cur] # snapshot
    BY <1>1 DEF IInv, CopyInv
  <2>5. QED
    BY <2>3, <2>4
<1>2. IInv /\ [Next]_vars =>
        [pc = "submit" /\ pc' = "record" /\ ~opened.dirty =>
           \A a \in accepted : a.name = cur /\ a.mtime = opened.mtime => a.life # downs]_vars
  BY <1>1
<1>3. QED
  BY Invariance, <1>2, PTL DEF Spec, SubmittedOnce
===============================================================================
