----------------------- MODULE ReplicaSessionProofs -----------------------
(* What holds of the evidence replica for any number of commands, sources,     *)
(* contents, kills, power losses and damaged objects. The invariant adds to    *)
(* the properties what a command relies on between its steps: where it is in   *)
(* its list, what its temporary file holds, that what it has recorded as       *)
(* replicated is in place, and why anything it recorded as failed has failed.  *)
EXTENDS ReplicaSession, FiniteSetTheorems, TLAPS

Items == [path : Paths, kind : Kinds, digest : Contents \cup {Absent}]
Working == {"present", "look", "copy", "sync", "link", "verify", "settle"}

\* A list is hashed from its first argument to its last, then worked off.
ListInv(p) ==
  /\ pc[p] \in Working => /\ todo[p] # <<>>
                          /\ \A i \in DOMAIN todo[p] : todo[p][i].digest \in Contents
  /\ pc[p] = "hash" => \E n \in DOMAIN todo[p] : \A i \in DOMAIN todo[p] :
                         todo[p][i].digest = Absent <=> n <= i

\* "replicate" has one argument, and goes on with no result until it succeeds.
SingleInv(p) ==
  /\ pc[p] \in {"idle", "hash"} => results[p] = {}
  /\ single[p] => /\ pc[p] # "present"
                  /\ pc[p] # "write" => results[p] = {} /\ Len(todo[p]) <= 1
                  /\ pc[p] = "write" => \E r \in Results : results[p] = {r} /\ r.result # "failed"

\* The temporary file holds the bytes of the digest it will be linked under, and
\* they are on disk before it is.
TempInv(p) ==
  /\ pc[p] \in {"sync", "link"} => /\ temp[p] \in [bytes : Contents, synced : BOOLEAN]
                                  /\ temp[p].bytes = Current(p).digest
  /\ pc[p] = "link" => temp[p].synced

\* What is recorded as replicated is in place until harm comes to it.
HeldInv(p) ==
  /\ intact[p] => \A c \in Claims(results[p]) : Holds(c)
  /\ intact[p] /\ pc[p] = "settle" => Holds(Current(p).digest)
  /\ pc[p] \in {"verify", "settle"} => object[Current(p).digest] # Absent

\* A failure is excused, and so is a source that is not what was hashed.
ExcuseInv(p) ==
  /\ Failures(results[p]) # {} => excused[p]
  /\ \A i \in DOMAIN todo[p] :
       todo[p][i].digest \in {Absent, source[todo[p][i].path]} \/ excused[p]

Sound(p) == ListInv(p) /\ SingleInv(p) /\ TempInv(p) /\ HeldInv(p) /\ ExcuseInv(p)
AllSound == \A p \in Commands : Sound(p)
Flushed == unflushed = {}

IInv == /\ TypeOK /\ AllSound /\ Flushed
        /\ NamesAreDigests /\ DocumentsHold /\ FailuresHaveCauses

\* What a step of another command leaves alone.
Same(q) == /\ pc'[q] = pc[q] /\ single'[q] = single[q] /\ todo'[q] = todo[q]
           /\ results'[q] = results[q] /\ temp'[q] = temp[q]
           /\ intact'[q] = intact[q] /\ excused'[q] = excused[q]

\* No object is lost or harmed.
Grows == \A c \in Contents : /\ Holds(c) => object'[c] = c
                             /\ object[c] # Absent => object'[c] # Absent

ProcsOK ==
  /\ pc \in [Commands -> PCs]
  /\ single \in [Commands -> BOOLEAN] /\ intact \in [Commands -> BOOLEAN]
  /\ excused \in [Commands -> BOOLEAN]
  /\ todo \in [Commands -> Seq(Items)]
  /\ results \in [Commands -> SUBSET Results]
  /\ temp \in [Commands -> [bytes : Contents, synced : BOOLEAN] \cup {Absent}]

-----------------------------------------------------------------------------
LEMMA Apart == Absent # Broken /\ Absent \notin Contents /\ Broken \notin Contents
BY ValuesAssumption

LEMMA One == \A n \in Nat \ {0} : (n <= 1 => n = 1) /\ (n - 1 = 0 => n = 1)
OBVIOUS

LEMMA TailOf ==
  ASSUME NEW S, NEW s \in Seq(S), s # <<>>
  PROVE  /\ Tail(s) \in Seq(S) /\ Len(s) \in Nat \ {0} /\ Len(Tail(s)) = Len(s) - 1
         /\ \A i \in DOMAIN Tail(s) : i + 1 \in DOMAIN s /\ Tail(s)[i] = s[i + 1]
OBVIOUS

LEMMA ElementOf == ASSUME NEW S, NEW s \in Seq(S), NEW i \in DOMAIN s PROVE s[i] \in S
OBVIOUS

ReplacesAt(S, s, i, e, t) ==
  /\ t \in Seq(S) /\ DOMAIN t = DOMAIN s /\ Len(t) = Len(s)
  /\ t[i] = e /\ \A j \in DOMAIN s : j # i => t[j] = s[j]

LEMMA EntryOf ==
  ASSUME NEW S, NEW s, s \in Seq(S), NEW i, i \in DOMAIN s, NEW e, e \in S,
         NEW t, t = [s EXCEPT ![i] = e]
  PROVE  ReplacesAt(S, s, i, e, t)
BY DEF ReplacesAt

\* The object a working command is at.
LEMMA CurrentType ==
  ASSUME ProcsOK, NEW p \in Commands, ListInv(p), pc[p] \in Working
  PROVE  /\ 1 \in DOMAIN todo[p] /\ Current(p) = todo[p][1]
         /\ Current(p) \in Items /\ Current(p).digest \in Contents
         /\ Current(p).kind \in Kinds /\ Current(p).path \in Paths
         /\ Len(todo[p]) \in Nat \ {0}
<1>1. todo[p] \in Seq(Items) /\ todo[p] # <<>>
  BY DEF ProcsOK, ListInv
<1>2. 1 \in DOMAIN todo[p] /\ Current(p) = todo[p][1] /\ Len(todo[p]) \in Nat \ {0}
  BY <1>1 DEF Current
<1>3. Current(p) \in Items
  BY <1>1, <1>2
<1>4. Current(p).digest \in Contents
  BY <1>2 DEF ListInv
<1>5. QED
  BY <1>2, <1>3, <1>4 DEF Items

\* A command that stops holds nothing; the others go on.
LEMMA StopSound ==
  ASSUME ProcsOK, NEW P \in SUBSET Commands, Stop(P)
  PROVE  /\ ProcsOK'
         /\ \A p \in P : Sound(p)'
         /\ \A q \in Commands \ P : Same(q)
<1>1. ProcsOK'
  <2>1. <<>> \in Seq(Items) /\ "idle" \in PCs
    BY DEF PCs
  <2>2. pc' \in [Commands -> PCs] /\ single' \in [Commands -> BOOLEAN]
    BY <2>1 DEF Stop, ProcsOK
  <2>3. todo' \in [Commands -> Seq(Items)] /\ results' \in [Commands -> SUBSET Results]
    BY <2>1 DEF Stop, ProcsOK
  <2>4. temp' \in [Commands -> [bytes : Contents, synced : BOOLEAN] \cup {Absent}]
    BY DEF Stop, ProcsOK
  <2>5. intact' \in [Commands -> BOOLEAN]
    BY ZenonT(30) DEF Stop, ProcsOK
  <2>6. excused' \in [Commands -> BOOLEAN]
    BY ZenonT(30) DEF Stop, ProcsOK
  <2>7. QED
    BY <2>2, <2>3, <2>4, <2>5, <2>6 DEF ProcsOK
<1>2. ASSUME NEW p \in P PROVE Sound(p)'
  <2>1. /\ pc'[p] = "idle" /\ single'[p] = FALSE /\ todo'[p] = <<>> /\ results'[p] = {}
    BY DEF Stop
  <2>2. (ListInv(p) /\ SingleInv(p) /\ TempInv(p))'
    BY <2>1 DEF ListInv, SingleInv, TempInv, Working
  <2>3. (HeldInv(p) /\ ExcuseInv(p))'
    BY <2>1 DEF HeldInv, ExcuseInv, Claims, Failures
  <2>4. QED
    BY <2>2, <2>3 DEF Sound
<1>3. ASSUME NEW q \in Commands \ P PROVE Same(q)
  <2>1. /\ pc'[q] = pc[q] /\ single'[q] = single[q] /\ todo'[q] = todo[q]
        /\ results'[q] = results[q] /\ temp'[q] = temp[q]
    BY DEF Stop
  <2>2. intact'[q] = intact[q] /\ excused'[q] = excused[q]
    BY DEF Stop, ProcsOK
  <2>3. QED
    BY <2>1, <2>2 DEF Same
<1>4. QED
  BY <1>1, <1>2, <1>3

\* What a command relies on survives the steps of others.
LEMMA Undisturbed ==
  ASSUME ProcsOK, NEW q \in Commands, Sound(q), Same(q), Grows, source' = source
  PROVE  Sound(q)'
<1>1. Current(q)' = Current(q)
  BY DEF Same, Current
<1>2. (ListInv(q) /\ SingleInv(q) /\ TempInv(q))'
  BY <1>1 DEF Sound, ListInv, SingleInv, TempInv, Same
<1>3. ExcuseInv(q)'
  BY DEF Sound, ExcuseInv, Same
<1>4. HeldInv(q)'
  <2>1. Claims(results[q]) \subseteq Contents
    BY DEF Claims, ProcsOK, Results
  <2>2. pc[q] \in {"verify", "settle"} => Current(q).digest \in Contents
    BY CurrentType DEF Sound, Working
  <2>3. HeldInv(q)
    BY DEF Sound
  <2>4. ASSUME intact'[q], NEW c \in Claims(results'[q]) PROVE (Holds(c))'
    BY <2>1, <2>3, <2>4 DEF HeldInv, Same, Grows, Holds
  <2>5. intact'[q] /\ pc'[q] = "settle" => (Holds(Current(q).digest))'
    BY <1>1, <2>2, <2>3 DEF HeldInv, Same, Grows, Holds
  <2>6. pc'[q] \in {"verify", "settle"} => object'[Current(q)'.digest] # Absent
    BY <1>1, <2>2, <2>3 DEF HeldInv, Same, Grows
  <2>7. QED
    BY <2>4, <2>5, <2>6 DEF HeldInv
<1>5. QED
  BY <1>2, <1>3, <1>4 DEF Sound

\* A step that moves one command, and takes nothing from the replica.
LEMMA OneMoves ==
  ASSUME ProcsOK, AllSound, NEW p \in Commands, Sound(p)',
         \A q \in Commands \ {p} : Same(q), Grows, source' = source
  PROVE  AllSound'
<1>1. ASSUME NEW q \in Commands \ {p} PROVE Sound(q)'
  BY Undisturbed DEF AllSound
<1>2. QED
  BY <1>1 DEF AllSound

LEMMA StopOne ==
  ASSUME ProcsOK, AllSound, NEW p \in Commands, Stop({p}), Grows, source' = source
  PROVE  ProcsOK' /\ AllSound'
<1>1. /\ ProcsOK' /\ Sound(p)' /\ \A q \in Commands \ {p} : Same(q)
  BY StopSound
<1>2. QED
  BY <1>1, OneMoves

\* The result a working command records, and what stays of its list.
LEMMA RecordEffect ==
  ASSUME ProcsOK, NEW p \in Commands, ListInv(p), pc[p] \in Working,
         NEW result \in {"replicated", "present", "failed"}, NEW fault \in BOOLEAN,
         Record(p, result, fault), ~(single[p] /\ result = "failed")
  PROVE  LET r == [kind |-> Current(p).kind, digest |-> Current(p).digest, result |-> result]
         IN  /\ ProcsOK'
             /\ \A q \in Commands \ {p} : Same(q)
             /\ r \in Results /\ results'[p] = results[p] \cup {r}
             /\ todo'[p] = Tail(todo[p])
             /\ pc'[p] = IF Len(todo[p]) = 1 THEN "write" ELSE "present"
             /\ single'[p] = single[p] /\ intact'[p] = intact[p]
             /\ excused'[p] = (excused[p] \/ fault
                                \/ (result = "failed" /\ Current(p).digest \in damaged))
<1> DEFINE r == [kind |-> Current(p).kind, digest |-> Current(p).digest, result |-> result]
<1>1. r \in Results
  BY CurrentType DEF Results
<1>2. /\ results' = [results EXCEPT ![p] = @ \cup {r}]
      /\ todo' = [todo EXCEPT ![p] = Tail(@)]
      /\ pc' = [pc EXCEPT ![p] = IF Len(todo[p]) = 1 THEN "write" ELSE "present"]
      /\ temp' = [temp EXCEPT ![p] = Absent]
      /\ UNCHANGED <<single, intact>>
  BY DEF Record
<1>3. excused' = [excused EXCEPT ![p] =
                    @ \/ fault \/ (result = "failed" /\ Current(p).digest \in damaged)]
  BY DEF Record
<1>4. Tail(todo[p]) \in Seq(Items)
  BY CurrentType DEF ProcsOK, ListInv
<1>5. ProcsOK'
  <2>1. results' \in [Commands -> SUBSET Results]
    BY <1>1, <1>2 DEF ProcsOK
  <2>2. todo' \in [Commands -> Seq(Items)] /\ pc' \in [Commands -> PCs]
    BY <1>2, <1>4 DEF ProcsOK, PCs
  <2>3. temp' \in [Commands -> [bytes : Contents, synced : BOOLEAN] \cup {Absent}]
    BY <1>2 DEF ProcsOK
  <2>4. excused' \in [Commands -> BOOLEAN]
    BY <1>3, Zenon DEF ProcsOK
  <2>5. single' \in [Commands -> BOOLEAN] /\ intact' \in [Commands -> BOOLEAN]
    BY <1>2 DEF ProcsOK
  <2>6. QED
    BY <2>1, <2>2, <2>3, <2>4, <2>5 DEF ProcsOK
<1>6. ASSUME NEW q \in Commands \ {p} PROVE Same(q)
  BY <1>2, <1>3 DEF ProcsOK, Same
<1>7. /\ results'[p] = results[p] \cup {r} /\ todo'[p] = Tail(todo[p])
      /\ pc'[p] = IF Len(todo[p]) = 1 THEN "write" ELSE "present"
      /\ single'[p] = single[p] /\ intact'[p] = intact[p]
  BY <1>2 DEF ProcsOK
<1>8. excused'[p] = (excused[p] \/ fault
                      \/ (result = "failed" /\ Current(p).digest \in damaged))
  BY <1>3 DEF ProcsOK
<1>9. QED
  BY <1>1, <1>5, <1>6, <1>7, <1>8

\* Recording a result is sound when an object called replicated or present is in
\* place, and a failed one had a cause.
LEMMA RecordSound ==
  ASSUME ProcsOK, AllSound, NEW p \in Commands, pc[p] \in Working,
         NEW result \in {"replicated", "present", "failed"}, NEW fault \in BOOLEAN,
         Record(p, result, fault),
         source' = source, object' = object,
         result # "failed" => (intact[p] => Holds(Current(p).digest)),
         result = "failed" => excused[p] \/ fault \/ Current(p).digest \in damaged
  PROVE  ProcsOK' /\ AllSound'
<1>1. Sound(p) /\ ListInv(p)
  BY DEF AllSound, Sound
<1>2. Grows
  BY DEF Grows, Holds
<1>3. CASE single[p] /\ result = "failed"
  BY <1>2, <1>3, StopOne DEF Record
<1>4. CASE ~(single[p] /\ result = "failed")
  <2> DEFINE r == [kind |-> Current(p).kind, digest |-> Current(p).digest, result |-> result]
  <2>1. /\ ProcsOK'
        /\ \A q \in Commands \ {p} : Same(q)
        /\ r \in Results /\ results'[p] = results[p] \cup {r}
        /\ todo'[p] = Tail(todo[p])
        /\ pc'[p] = IF Len(todo[p]) = 1 THEN "write" ELSE "present"
        /\ single'[p] = single[p] /\ intact'[p] = intact[p]
        /\ excused'[p] = (excused[p] \/ fault
                           \/ (result = "failed" /\ Current(p).digest \in damaged))
    BY <1>1, <1>4, RecordEffect
  <2>2. /\ todo[p] \in Seq(Items) /\ todo[p] # <<>>
        /\ \A i \in DOMAIN todo[p] : todo[p][i].digest \in Contents
    BY <1>1 DEF ProcsOK, ListInv
  <2>3. /\ Len(todo[p]) # 1 => todo'[p] # <<>>
        /\ \A i \in DOMAIN todo'[p] : i + 1 \in DOMAIN todo[p] /\ todo'[p][i] = todo[p][i + 1]
    <3>1. /\ Len(todo[p]) \in Nat \ {0} /\ Len(todo'[p]) = Len(todo[p]) - 1
          /\ \A i \in DOMAIN todo'[p] : i + 1 \in DOMAIN todo[p] /\ todo'[p][i] = todo[p][i + 1]
      BY <2>1, <2>2, TailOf
    <3>2. ASSUME todo'[p] = <<>> PROVE Len(todo[p]) = 1
      <4>1. Len(todo'[p]) = 0
        BY <3>2
      <4>2. Len(todo[p]) - 1 = 0
        BY <3>1, <4>1
      <4>3. QED
        BY <3>1, <4>2, One, Zenon
    <3>3. QED
      BY <3>1, <3>2
  <2>4. ListInv(p)'
    BY <2>1, <2>2, <2>3 DEF ListInv, Working
  <2>5. SingleInv(p)'
    <3>1. pc[p] # "write" /\ Len(todo[p]) \in Nat \ {0}
      BY <2>2, TailOf DEF Working
    <3>2. single[p] => results[p] = {} /\ Len(todo[p]) <= 1
      BY <1>1, <3>1 DEF Sound, SingleInv
    <3>3. single[p] => results[p] = {} /\ Len(todo[p]) = 1
      BY <3>1, <3>2, One, Zenon
    <3>4. pc'[p] \in {"write", "present"} /\ (single[p] => pc'[p] = "write" /\ results'[p] = {r})
      BY <2>1, <3>3
    <3>5. single[p] => r.result # "failed"
      BY <1>4
    <3>6. QED
      BY <2>1, <3>4, <3>5 DEF SingleInv
  <2>6. TempInv(p)'
    BY <2>1 DEF TempInv
  <2>7. HeldInv(p)'
    <3>1. Claims(results'[p]) \subseteq
            Claims(results[p]) \cup (IF result = "failed" THEN {} ELSE {Current(p).digest})
      BY <2>1 DEF Claims
    <3>2. QED
      BY <1>1, <2>1, <3>1 DEF Sound, HeldInv, Holds
  <2>8. ExcuseInv(p)'
    <3>1. Failures(results'[p]) # {} => Failures(results[p]) # {} \/ result = "failed"
      BY <2>1 DEF Failures
    <3>2. Failures(results'[p]) # {} => excused'[p]
      BY <1>1, <2>1, <3>1 DEF Sound, ExcuseInv
    <3>3. ASSUME NEW i \in DOMAIN todo'[p]
          PROVE  todo'[p][i].digest \in {Absent, source'[todo'[p][i].path]} \/ excused'[p]
      BY <1>1, <2>1, <2>3 DEF Sound, ExcuseInv
    <3>4. QED
      BY <3>2, <3>3 DEF ExcuseInv
  <2>9. Sound(p)'
    BY <2>4, <2>5, <2>6, <2>7, <2>8 DEF Sound
  <2>10. QED
    BY <1>2, <2>1, <2>9, OneMoves
<1>5. QED
  BY <1>3, <1>4

-----------------------------------------------------------------------------
\* Hashing the next argument of a list: the first that has no digest yet.
NextArgument(p, n) == /\ n \in DOMAIN todo[p] /\ todo[p][n].digest = Absent
                      /\ \A m \in 1..(n - 1) : todo[p][m].digest # Absent

HashedAt(p, i, list) ==
  /\ DOMAIN list = DOMAIN todo[p] /\ list \in Seq(Items) /\ Len(list) = Len(todo[p])
  /\ \A j \in DOMAIN list : /\ list[j].path = todo[p][j].path
                            /\ j # i => list[j] = todo[p][j]
                            /\ list[j].digest = Absent <=> i < j
  /\ list[i].digest = source[list[i].path]

LEMMA FirstUnhashed ==
  ASSUME ProcsOK, NEW p \in Commands, Sound(p), pc[p] = "hash"
  PROVE  \E n \in DOMAIN todo[p] : NextArgument(p, n)
<1>1. DOMAIN todo[p] = 1..Len(todo[p]) /\ Len(todo[p]) \in Nat
  BY DEF ProcsOK
<1>2. PICK n \in DOMAIN todo[p] : \A j \in DOMAIN todo[p] : todo[p][j].digest = Absent <=> n <= j
  BY DEF Sound, ListInv
<1>3. n \in Nat /\ todo[p][n].digest = Absent
  BY <1>1, <1>2
<1>4. ASSUME NEW m \in 1..(n - 1) PROVE todo[p][m].digest # Absent
  <2>1. m \in DOMAIN todo[p] /\ ~(n <= m)
    BY <1>1, <1>2, <1>3
  <2>2. QED
    BY <1>2, <2>1
<1>5. QED
  BY <1>3, <1>4 DEF NextArgument

LEMMA HashOne ==
  ASSUME ProcsOK, source \in [Paths -> Contents], NEW p \in Commands, Sound(p), pc[p] = "hash",
         NEW i, NextArgument(p, i),
         NEW list, list = [todo[p] EXCEPT ![i].digest = source[todo[p][i].path]]
  PROVE  HashedAt(p, i, list)
<1>1. todo[p] \in Seq(Items) /\ DOMAIN todo[p] = 1..Len(todo[p]) /\ Len(todo[p]) \in Nat
  BY DEF ProcsOK
<1>2. PICK n \in DOMAIN todo[p] : \A j \in DOMAIN todo[p] : todo[p][j].digest = Absent <=> n <= j
  BY DEF Sound, ListInv
<1>4. i \in DOMAIN todo[p] /\ NextArgument(p, i)
  BY DEF NextArgument
<1>5. i = n
  <2>1. n <= i
    BY <1>2, <1>4 DEF NextArgument
  <2>2. ~(n < i)
    <3>1. ASSUME n < i PROVE n \in 1..(i - 1) /\ todo[p][n].digest = Absent
      BY <1>1, <1>2, <1>4, <3>1
    <3>2. QED
      BY <1>4, <3>1 DEF NextArgument
  <2>3. QED
    BY <1>1, <1>4, <2>1, <2>2
<1>6. todo[p][i] \in Items /\ source[todo[p][i].path] \in Contents
  <2>1. todo[p][i] \in Items
    BY <1>1, <1>4, ElementOf
  <2>2. QED
    BY <2>1 DEF Items
<1> DEFINE entry == [todo[p][i] EXCEPT !.digest = source[todo[p][i].path]]
<1>7. /\ entry \in Items /\ entry.path = todo[p][i].path /\ entry.digest # Absent
      /\ entry.digest = source[entry.path]
  <2>1. entry.path = todo[p][i].path /\ entry.digest = source[todo[p][i].path]
    BY <1>6 DEF Items
  <2>2. entry \in Items
    BY <1>6 DEF Items
  <2>3. QED
    BY <1>6, <2>1, <2>2, Apart
<1>8. list = [todo[p] EXCEPT ![i] = entry]
  OBVIOUS
<1> HIDE DEF entry
<1>9. /\ list \in Seq(Items) /\ DOMAIN list = DOMAIN todo[p] /\ Len(list) = Len(todo[p])
      /\ list[i] = entry /\ \A j \in DOMAIN todo[p] : j # i => list[j] = todo[p][j]
  <2>1. todo[p] \in Seq(Items) /\ i \in DOMAIN todo[p] /\ entry \in Items
    BY <1>1, <1>4, <1>7
  <2>2. ReplacesAt(Items, todo[p], i, entry, list)
    BY <2>1, <1>8, EntryOf, Zenon
  <2>3. QED
    BY <2>2 DEF ReplacesAt
<1>10. list[i].path = todo[p][i].path /\ list[i].digest = source[list[i].path]
  BY <1>7, <1>9
<1>11. ASSUME NEW j \in DOMAIN list
       PROVE  list[j].path = todo[p][j].path /\ (list[j].digest = Absent <=> i < j)
  <2>1. CASE j = i
    <3>1. i \in Int /\ ~(i < i)
      BY <1>1, <1>4
    <3>2. QED
      BY <1>7, <1>9, <2>1, <3>1
  <2>2. CASE j # i
    <3>1. list[j] = todo[p][j] /\ (todo[p][j].digest = Absent <=> i <= j)
      BY <1>2, <1>5, <1>9, <2>2, <1>11
    <3>2. i <= j <=> i < j
      BY <1>1, <1>4, <1>9, <1>11, <2>2
    <3>3. QED
      BY <3>1, <3>2
  <2>3. QED
    BY <2>1, <2>2
<1>12. QED
  BY <1>4, <1>9, <1>10, <1>11 DEF HashedAt

\* The lists a command line gives are lists of arguments that are not hashed.
LEMMA ArgumentsType ==
  ASSUME NEW list \in Arguments
  PROVE  /\ list \in Seq(Items) /\ list # <<>> /\ 1 \in DOMAIN list
         /\ \A i \in DOMAIN list : list[i].digest = Absent
<1>1. Cardinality(Paths) \in Nat
  BY ValuesAssumption, FS_CardinalityType
<1>2. PICK n \in 1..Cardinality(Paths) :
        list \in [1..n -> [path : Paths, kind : Kinds, digest : {Absent}]]
  BY DEF Arguments
<1>3. n \in Nat /\ 1 \in 1..n
  BY <1>1
<1>4. list \in [1..n -> Items] /\ \A i \in DOMAIN list : list[i].digest = Absent
  BY <1>2 DEF Items
<1>5. list \in Seq(Items) /\ DOMAIN list = 1..n
  BY <1>3, <1>4
<1>6. QED
  BY <1>3, <1>4, <1>5

LEMMA SourceType == TypeOK => ProcsOK /\ source \in [Paths -> Contents]
BY DEF TypeOK, ProcsOK, Items

\* The steps of the commands, one by one.
LEMMA StartStep ==
  ASSUME IInv, NEW p \in Commands, Start(p)
  PROVE  ProcsOK' /\ AllSound'
<1>1. ProcsOK /\ Sound(p) /\ AllSound /\ pc[p] = "idle"
  BY SourceType DEF IInv, AllSound, Start, Go
<1>2. PICK list \in Arguments, one \in BOOLEAN :
        /\ one => Len(list) = 1
        /\ todo' = [todo EXCEPT ![p] = list] /\ single' = [single EXCEPT ![p] = one]
  BY DEF Start
<1>3. /\ pc' = [pc EXCEPT ![p] = "hash"]
      /\ UNCHANGED <<source, object, results, temp, intact, excused>>
  BY DEF Start, Go, replica
<1>4. /\ list \in Seq(Items) /\ list # <<>> /\ 1 \in DOMAIN list
      /\ \A i \in DOMAIN list : list[i].digest = Absent
  BY ArgumentsType
<1>5. ProcsOK'
  <2>1. pc' \in [Commands -> PCs] /\ single' \in [Commands -> BOOLEAN]
    BY <1>1, <1>2, <1>3 DEF ProcsOK, PCs
  <2>2. todo' \in [Commands -> Seq(Items)]
    BY <1>1, <1>2, <1>4 DEF ProcsOK
  <2>3. QED
    BY <1>1, <1>3, <2>1, <2>2 DEF ProcsOK
<1>6. /\ pc'[p] = "hash" /\ todo'[p] = list /\ single'[p] = one /\ results'[p] = {}
      /\ excused'[p] = excused[p] /\ temp'[p] = temp[p]
  BY <1>1, <1>2, <1>3 DEF ProcsOK, Sound, SingleInv
<1>7. ListInv(p)'
  <2>1. \A i \in DOMAIN list : i \in Nat /\ 1 <= i
    BY <1>4
  <2>2. QED
    BY <1>4, <1>6, <2>1 DEF ListInv, Working
<1>8. SingleInv(p)' /\ TempInv(p)'
  <2>1. single'[p] => Len(list) = 1 /\ 1 <= 1
    BY <1>2, <1>6
  <2>2. QED
    BY <1>6, <2>1 DEF SingleInv, TempInv
<1>9. HeldInv(p)' /\ ExcuseInv(p)'
  BY <1>4, <1>6 DEF HeldInv, ExcuseInv, Claims, Failures
<1>10. \A q \in Commands \ {p} : Same(q)
  BY <1>1, <1>2, <1>3 DEF ProcsOK, Same
<1>11. Grows /\ source' = source
  BY <1>3 DEF Grows, Holds
<1>12. Sound(p)'
  BY <1>7, <1>8, <1>9 DEF Sound
<1>13. QED
  BY <1>1, <1>5, <1>10, <1>11, <1>12, OneMoves

LEMMA HashStep ==
  ASSUME IInv, NEW p \in Commands, HashSource(p)
  PROVE  ProcsOK' /\ AllSound'
<1> DEFINE i == CHOOSE n \in DOMAIN todo[p] : /\ todo[p][n].digest = Absent
                                              /\ \A m \in 1..(n - 1) : todo[p][m].digest # Absent
           list == [todo[p] EXCEPT ![i].digest = source[todo[p][i].path]]
<1>1. ProcsOK /\ Sound(p) /\ AllSound /\ pc[p] = "hash" /\ source \in [Paths -> Contents]
  BY SourceType DEF IInv, AllSound, HashSource
<1>2. i \in DOMAIN todo[p] /\ HashedAt(p, i, list)
  <2>1. NextArgument(p, i)
    <3>1. PICK n \in DOMAIN todo[p] : NextArgument(p, n)
      BY <1>1, FirstUnhashed
    <3>2. QED
      BY <3>1 DEF NextArgument
  <2> HIDE DEF i
  <2>2. list = [todo[p] EXCEPT ![i].digest = source[todo[p][i].path]]
    OBVIOUS
  <2> HIDE DEF list
  <2>3. HashedAt(p, i, list)
    BY <1>1, <2>1, <2>2, HashOne
  <2>4. QED
    BY <2>1, <2>3 DEF NextArgument
<1>3. \/ /\ i < Len(list) /\ todo' = [todo EXCEPT ![p] = list]
         /\ UNCHANGED <<pc, single, results, temp, intact, excused>>
      \/ Stop({p})
      \/ /\ ~(i < Len(list)) /\ todo' = [todo EXCEPT ![p] = list]
         /\ pc' = [pc EXCEPT ![p] = IF single[p] THEN "look" ELSE "present"]
         /\ UNCHANGED <<single, results, temp, intact, excused>>
  BY DEF HashSource
<1>4. UNCHANGED <<source, object>>
  BY DEF HashSource, replica
<1> HIDE DEF i, list
<1>5. Grows
  BY <1>4 DEF Grows, Holds
<1>6. results[p] = {} /\ (single[p] => Len(todo[p]) <= 1)
  BY <1>1 DEF Sound, SingleInv
<1>7. CASE Stop({p})
  BY <1>1, <1>4, <1>5, <1>7, StopOne
<1>8. ASSUME todo' = [todo EXCEPT ![p] = list], UNCHANGED <<single, results, temp, intact, excused>>,
             pc' \in [Commands -> PCs], \A q \in Commands \ {p} : pc'[q] = pc[q],
             pc'[p] \in {"hash", "look", "present"}, single[p] => pc'[p] # "present", ListInv(p)'
      PROVE  ProcsOK' /\ AllSound'
  <2>1. ProcsOK'
    BY <1>1, <1>2, <1>8 DEF ProcsOK, HashedAt
  <2>2. todo'[p] = list
    BY <1>1, <1>8 DEF ProcsOK
  <2>3. (SingleInv(p) /\ TempInv(p) /\ HeldInv(p))'
    <3>1. pc'[p] \notin {"idle", "write", "sync", "link", "verify", "settle"}
      BY <1>8
    <3>2. single'[p] = single[p] /\ results'[p] = {} /\ Len(todo'[p]) = Len(todo[p])
      BY <1>2, <1>6, <1>8, <2>2 DEF HashedAt
    <3>3. SingleInv(p)'
      BY <1>6, <1>8, <3>1, <3>2 DEF SingleInv
    <3>4. (TempInv(p) /\ HeldInv(p))'
      BY <3>1, <3>2 DEF TempInv, HeldInv, Claims
    <3>5. QED
      BY <3>3, <3>4
  <2>4. ExcuseInv(p)'
    <3>1. ASSUME NEW j \in DOMAIN list
          PROVE  list[j].digest \in {Absent, source[list[j].path]} \/ excused[p]
      BY <1>1, <1>2 DEF Sound, ExcuseInv, HashedAt
    <3>2. QED
      BY <1>4, <1>6, <1>8, <2>2, <3>1 DEF ExcuseInv, Failures
  <2>5. \A q \in Commands \ {p} : Same(q)
    BY <1>1, <1>8 DEF ProcsOK, Same
  <2>6. Sound(p)'
    BY <1>8, <2>3, <2>4 DEF Sound
  <2>7. QED
    BY <1>1, <1>4, <1>5, <2>1, <2>5, <2>6, OneMoves
<1>9. i \in Nat /\ Len(list) \in Nat /\ DOMAIN list = 1..Len(list) /\ i <= Len(list)
  BY <1>2 DEF HashedAt
<1>10. CASE i < Len(list) /\ todo' = [todo EXCEPT ![p] = list]
            /\ UNCHANGED <<pc, single, results, temp, intact, excused>>
  <2>1. todo'[p] = list /\ pc'[p] = "hash"
    BY <1>1, <1>10 DEF ProcsOK
  <2>2. i + 1 \in DOMAIN list /\ \A j \in DOMAIN list : i < j <=> i + 1 <= j
    BY <1>9, <1>10
  <2>3. \A j \in DOMAIN list : list[j].digest = Absent <=> i + 1 <= j
    BY <1>2, <2>2 DEF HashedAt
  <2>4. ListInv(p)'
    BY <2>1, <2>2, <2>3 DEF ListInv, Working
  <2>5. QED
    BY <1>1, <1>8, <1>10, <2>1, <2>4 DEF ProcsOK
<1>11. CASE ~(i < Len(list)) /\ todo' = [todo EXCEPT ![p] = list]
            /\ pc' = [pc EXCEPT ![p] = IF single[p] THEN "look" ELSE "present"]
            /\ UNCHANGED <<single, results, temp, intact, excused>>
  <2>1. todo'[p] = list /\ pc'[p] = IF single[p] THEN "look" ELSE "present"
    BY <1>1, <1>11 DEF ProcsOK
  <2>2. \A j \in DOMAIN list : ~(i < j)
    BY <1>9, <1>11
  <2>3. \A j \in DOMAIN list : list[j] \in Items /\ list[j].digest # Absent
    BY <1>2, <2>2, ElementOf DEF HashedAt
  <2>4. \A j \in DOMAIN list : list[j].digest \in Contents
    BY <2>3 DEF Items
  <2>5. list # <<>>
    BY <1>2 DEF HashedAt
  <2>6. ListInv(p)'
    BY <2>1, <2>4, <2>5 DEF ListInv
  <2>7. pc' \in [Commands -> PCs]
    BY <1>1, <1>11 DEF ProcsOK, PCs
  <2>8. QED
    BY <1>1, <1>8, <1>11, <2>1, <2>6, <2>7 DEF ProcsOK
<1>12. QED
  BY <1>3, <1>7, <1>10, <1>11

\* A working command that goes on with the object at hand.
LEMMA WorkOn ==
  ASSUME ProcsOK, AllSound, NEW p \in Commands, pc[p] \in Working,
         NEW to \in Working \ {"present"}, pc' = [pc EXCEPT ![p] = to],
         UNCHANGED <<single, todo, results, intact, excused>>,
         temp' \in [Commands -> [bytes : Contents, synced : BOOLEAN] \cup {Absent}],
         \A q \in Commands \ {p} : temp'[q] = temp[q],
         TempInv(p)', Grows, source' = source,
         to \in {"verify", "settle"} => object'[Current(p).digest] # Absent,
         to = "settle" => object'[Current(p).digest] = Current(p).digest
  PROVE  ProcsOK' /\ AllSound'
<1>1. Sound(p)
  BY DEF AllSound
<1>2. ProcsOK' /\ pc'[p] = to
  BY DEF ProcsOK, PCs, Working
<1>3. Current(p)' = Current(p)
  BY DEF Current
<1>4. ListInv(p)'
  BY <1>1, <1>2 DEF Sound, ListInv, Working
<1>5. SingleInv(p)'
  BY <1>1, <1>2 DEF Sound, SingleInv, Working
<1>6. ExcuseInv(p)'
  BY <1>1 DEF Sound, ExcuseInv
<1>7. HeldInv(p)'
  <2>1. Claims(results[p]) \subseteq Contents
    BY DEF Claims, ProcsOK, Results
  <2>2. ASSUME intact'[p], NEW c \in Claims(results'[p]) PROVE (Holds(c))'
    BY <1>1, <2>1, <2>2 DEF Sound, HeldInv, Grows, Holds
  <2>3. pc'[p] = "settle" => (Holds(Current(p).digest))'
    BY <1>2, <1>3 DEF Holds
  <2>4. pc'[p] \in {"verify", "settle"} => object'[Current(p)'.digest] # Absent
    BY <1>2, <1>3
  <2>5. QED
    BY <2>2, <2>3, <2>4 DEF HeldInv
<1>8. \A q \in Commands \ {p} : Same(q)
  BY DEF ProcsOK, Same
<1>9. Sound(p)'
  BY <1>4, <1>5, <1>6, <1>7 DEF Sound
<1>10. QED
  BY <1>2, <1>8, <1>9, OneMoves

\* An object that is neither free nor what its name says was damaged.
LEMMA TakenIsDamaged ==
  ASSUME NamesAreDigests, NEW c \in Contents, object[c] # Absent, ~Holds(c)
  PROVE  c \in damaged
BY DEF NamesAreDigests

LEMMA PresentStep ==
  ASSUME IInv, NEW p \in Commands, FindPresent(p)
  PROVE  ProcsOK' /\ AllSound'
<1>1. ProcsOK /\ AllSound /\ Sound(p) /\ pc[p] = "present" /\ pc[p] \in Working
  BY SourceType DEF IInv, AllSound, FindPresent, Working
<1>2. UNCHANGED <<source, object>> /\ Grows
  BY DEF FindPresent, replica, Grows, Holds
<1>3. CASE AlreadyPresent(Current(p).digest)
  <2>1. Record(p, "present", FALSE) /\ Holds(Current(p).digest)
    BY <1>3 DEF FindPresent, AlreadyPresent
  <2>2. QED
    BY <1>1, <1>2, <2>1, RecordSound
<1>4. CASE ~AlreadyPresent(Current(p).digest)
  <2>1. pc' = [pc EXCEPT ![p] = "look"] /\ UNCHANGED <<single, todo, results, temp, intact, excused>>
    BY <1>4 DEF FindPresent
  <2>2. TempInv(p)'
    BY <1>1, <2>1 DEF TempInv, ProcsOK
  <2>3. QED
    BY <1>1, <1>2, <2>1, <2>2, WorkOn DEF ProcsOK, Working
<1>5. QED
  BY <1>3, <1>4

LEMMA LookStep ==
  ASSUME IInv, NEW p \in Commands, Look(p)
  PROVE  ProcsOK' /\ AllSound'
<1>1. ProcsOK /\ AllSound /\ Sound(p) /\ pc[p] = "look" /\ pc[p] \in Working
  BY SourceType DEF IInv, AllSound, Look, Working
<1>2. UNCHANGED <<source, object>> /\ Grows
  BY DEF Look, replica, Grows, Holds
<1>3. Current(p).digest \in Contents
  BY <1>1, CurrentType DEF Sound
<1>4. CASE Holds(Current(p).digest) /\ Record(p, "replicated", FALSE)
  BY <1>1, <1>2, <1>4, RecordSound
<1>5. CASE /\ pc' = [pc EXCEPT ![p] = "copy"]
           /\ UNCHANGED <<single, todo, results, temp, intact, excused>>
  <2>1. TempInv(p)'
    BY <1>1, <1>5 DEF TempInv, ProcsOK
  <2>2. QED
    BY <1>1, <1>2, <1>5, <2>1, WorkOn DEF ProcsOK, Working
<1>6. CASE /\ ~Holds(Current(p).digest) /\ object[Current(p).digest] # Absent
           /\ Record(p, "failed", FALSE)
  <2>1. Current(p).digest \in damaged
    BY <1>3, <1>6, TakenIsDamaged DEF IInv
  <2>2. QED
    BY <1>1, <1>2, <1>6, <2>1, RecordSound
<1>7. QED
  BY <1>4, <1>5, <1>6 DEF Look

LEMMA CopyStep ==
  ASSUME IInv, NEW p \in Commands, Copy(p)
  PROVE  ProcsOK' /\ AllSound'
<1>1. ProcsOK /\ AllSound /\ Sound(p) /\ pc[p] = "copy" /\ pc[p] \in Working
  BY SourceType DEF IInv, AllSound, Copy, Working
<1>2. UNCHANGED <<source, object>> /\ Grows
  BY DEF Copy, replica, Grows, Holds
<1>3. /\ 1 \in DOMAIN todo[p] /\ Current(p) = todo[p][1]
      /\ Current(p).path \in Paths /\ Current(p).digest \in Contents
  BY <1>1, CurrentType DEF Sound
<1>4. source[Current(p).path] \in Contents
  BY <1>3, SourceType DEF IInv
<1>5. CASE CopyMatches(source[Current(p).path], Current(p).digest)
  <2> DEFINE copied == [bytes |-> source[Current(p).path], synced |-> FALSE]
  <2>1. /\ temp' = [temp EXCEPT ![p] = copied]
        /\ pc' = [pc EXCEPT ![p] = "sync"]
        /\ UNCHANGED <<single, todo, results, intact, excused>>
    BY <1>5 DEF Copy
  <2>2. copied \in [bytes : Contents, synced : BOOLEAN] /\ copied.bytes = Current(p).digest
    BY <1>4, <1>5 DEF CopyMatches
  <2> HIDE DEF copied
  <2>4. /\ temp' \in [Commands -> [bytes : Contents, synced : BOOLEAN] \cup {Absent}]
        /\ temp'[p] = copied /\ \A q \in Commands \ {p} : temp'[q] = temp[q]
    BY <1>1, <2>1, <2>2 DEF ProcsOK
  <2>5. pc'[p] = "sync" /\ Current(p)' = Current(p)
    BY <1>1, <2>1 DEF ProcsOK, Current
  <2>6. TempInv(p)'
    BY <2>2, <2>4, <2>5 DEF TempInv
  <2>7. "sync" \in Working \ {"present"}
    BY DEF Working
  <2>8. QED
    BY <1>1, <1>2, <2>1, <2>4, <2>6, <2>7, WorkOn
<1>6. CASE ~CopyMatches(source[Current(p).path], Current(p).digest)
  <2>1. Record(p, "failed", FALSE)
    BY <1>6 DEF Copy
  <2>2. excused[p]
    <3>1. todo[p][1].digest \in {Absent, source[todo[p][1].path]} \/ excused[p]
      BY <1>1, <1>3 DEF Sound, ExcuseInv
    <3>2. QED
      BY <1>3, <1>6, <3>1, Apart DEF CopyMatches
  <2>3. QED
    BY <1>1, <1>2, <2>1, <2>2, RecordSound
<1>7. QED
  BY <1>5, <1>6

LEMMA SyncStep ==
  ASSUME IInv, NEW p \in Commands, SyncTemp(p)
  PROVE  ProcsOK' /\ AllSound'
<1>1. ProcsOK /\ AllSound /\ Sound(p) /\ pc[p] = "sync" /\ pc[p] \in Working
  BY SourceType DEF IInv, AllSound, SyncTemp, Go, Working
<1>2. UNCHANGED <<source, object>> /\ Grows
  BY DEF SyncTemp, replica, Grows, Holds
<1>3. temp[p] \in [bytes : Contents, synced : BOOLEAN] /\ temp[p].bytes = Current(p).digest
  BY <1>1 DEF Sound, TempInv
<1> DEFINE file == [temp[p] EXCEPT !.synced = TRUE]
<1>4. file \in [bytes : Contents, synced : BOOLEAN] /\ file.bytes = Current(p).digest /\ file.synced
  BY <1>3
<1>5. /\ pc' = [pc EXCEPT ![p] = "link"] /\ temp' = [temp EXCEPT ![p] = file]
      /\ UNCHANGED <<single, todo, results, intact, excused>>
  BY DEF SyncTemp, Go
<1> HIDE DEF file
<1>6. /\ temp' \in [Commands -> [bytes : Contents, synced : BOOLEAN] \cup {Absent}]
      /\ temp'[p] = file /\ \A q \in Commands \ {p} : temp'[q] = temp[q]
  BY <1>1, <1>4, <1>5 DEF ProcsOK
<1>7. Current(p)' = Current(p)
  BY <1>5 DEF Current
<1>8. TempInv(p)'
  BY <1>4, <1>6, <1>7 DEF TempInv
<1>9. "link" \in Working \ {"present"}
  BY DEF Working
<1>10. QED
  BY <1>1, <1>2, <1>5, <1>6, <1>8, <1>9, WorkOn

LEMMA LinkStep ==
  ASSUME IInv, NEW p \in Commands, Link(p)
  PROVE  ProcsOK' /\ AllSound'
<1>1. ProcsOK /\ AllSound /\ Sound(p) /\ pc[p] = "link" /\ pc[p] \in Working
  BY SourceType DEF IInv, AllSound, Link, Working
<1>2. Current(p).digest \in Contents /\ source' = source
  BY <1>1, CurrentType DEF Sound, Link
<1>3. temp[p] \in [bytes : Contents, synced : BOOLEAN] /\ temp[p].bytes = Current(p).digest
  BY <1>1 DEF Sound, TempInv
<1>4. CASE ~MayPublish(Current(p).digest)
  <2>1. Record(p, "failed", FALSE) /\ object' = object
    BY <1>4 DEF Link, replica
  <2>2. Current(p).digest \in damaged
    BY <1>2, <1>4, TakenIsDamaged DEF IInv, MayPublish
  <2>3. QED
    BY <1>1, <1>2, <2>1, <2>2, RecordSound
<1>5. CASE MayPublish(Current(p).digest)
  <2>1. /\ temp' = [temp EXCEPT ![p] = Absent] /\ pc' = [pc EXCEPT ![p] = "verify"]
        /\ UNCHANGED <<single, todo, results, intact, excused>>
    BY <1>5 DEF Link
  <2>2. IF object[Current(p).digest] = Absent
          THEN object' = [object EXCEPT ![Current(p).digest] = Current(p).digest]
          ELSE object' = object
    BY <1>3, <1>5 DEF Link, replica
  <2>3. Grows /\ object'[Current(p).digest] # Absent
    BY <1>2, <2>2, Apart DEF Grows, Holds, IInv, TypeOK
  <2>4. temp' \in [Commands -> [bytes : Contents, synced : BOOLEAN] \cup {Absent}]
    BY <1>1, <2>1 DEF ProcsOK
  <2>5. TempInv(p)'
    BY <1>1, <2>1 DEF TempInv, ProcsOK
  <2>6. "verify" \in Working \ {"present"}
    BY DEF Working
  <2>7. QED
    BY <1>1, <1>2, <2>1, <2>3, <2>4, <2>5, <2>6, WorkOn
<1>6. QED
  BY <1>4, <1>5

LEMMA VerifyStep ==
  ASSUME IInv, NEW p \in Commands, VerifyPublished(p)
  PROVE  ProcsOK' /\ AllSound'
<1>1. ProcsOK /\ AllSound /\ Sound(p) /\ pc[p] = "verify" /\ pc[p] \in Working
  BY SourceType DEF IInv, AllSound, VerifyPublished, Working
<1>2. UNCHANGED <<source, object>> /\ Grows
  BY DEF VerifyPublished, replica, Grows, Holds
<1>3. Current(p).digest \in Contents /\ object[Current(p).digest] # Absent
  BY <1>1, CurrentType DEF Sound, HeldInv
<1>4. CASE Holds(Current(p).digest)
  <2>1. /\ pc' = [pc EXCEPT ![p] = "settle"]
        /\ UNCHANGED <<single, todo, results, temp, intact, excused>>
    BY <1>4 DEF VerifyPublished
  <2>2. TempInv(p)'
    BY <1>1, <2>1 DEF TempInv, ProcsOK
  <2>3. object'[Current(p).digest] = Current(p).digest
    BY <1>2, <1>4 DEF Holds
  <2>4. "settle" \in Working \ {"present"}
    BY DEF Working
  <2>5. QED
    BY <1>1, <1>2, <1>3, <2>1, <2>2, <2>3, <2>4, WorkOn DEF ProcsOK
<1>5. CASE ~Holds(Current(p).digest)
  <2>1. Record(p, "failed", FALSE)
    BY <1>5 DEF VerifyPublished
  <2>2. Current(p).digest \in damaged
    BY <1>3, <1>5, TakenIsDamaged DEF IInv
  <2>3. QED
    BY <1>1, <1>2, <2>1, <2>2, RecordSound
<1>6. QED
  BY <1>4, <1>5

LEMMA SettleStep ==
  ASSUME IInv, NEW p \in Commands, SettleObject(p)
  PROVE  ProcsOK' /\ AllSound'
<1>1. ProcsOK /\ AllSound /\ Sound(p) /\ pc[p] = "settle" /\ pc[p] \in Working
  BY SourceType DEF IInv, AllSound, SettleObject, Working
<1>2. UNCHANGED <<source, object>> /\ Record(p, "replicated", FALSE)
  BY DEF SettleObject, replica
<1>3. intact[p] => Holds(Current(p).digest)
  BY <1>1 DEF Sound, HeldInv
<1>4. QED
  BY <1>1, <1>2, <1>3, RecordSound

LEMMA FailStep ==
  ASSUME IInv, NEW p \in Commands, FailingCall(p)
  PROVE  ProcsOK' /\ AllSound'
<1>1. ProcsOK /\ AllSound /\ Sound(p)
  BY SourceType DEF IInv, AllSound
<1>2. UNCHANGED <<source, object>> /\ Grows
  BY DEF FailingCall, replica, Grows, Holds
<1>3. CASE Stop({p})
  BY <1>1, <1>2, <1>3, StopOne
<1>4. CASE Go(p, "present", "look") /\ UNCHANGED <<single, todo, results, temp, intact, excused>>
  <2>1. TempInv(p)'
    BY <1>1, <1>4 DEF TempInv, ProcsOK, Go
  <2>2. QED
    BY <1>1, <1>2, <1>4, <2>1, WorkOn DEF ProcsOK, Working, Go
<1>5. CASE pc[p] \notin {"idle", "hash", "present", "write"} /\ Record(p, "failed", TRUE)
  <2>1. pc[p] \in Working
    BY <1>1, <1>5 DEF ProcsOK, PCs, Working
  <2>2. QED
    BY <1>1, <1>2, <1>5, <2>1, RecordSound
<1>6. QED
  BY <1>3, <1>4, <1>5 DEF FailingCall

LEMMA ChangeStep ==
  ASSUME IInv, NEW s \in Paths, ChangeSource(s)
  PROVE  ProcsOK' /\ AllSound'
<1>1. ProcsOK /\ source \in [Paths -> Contents]
  BY SourceType DEF IInv
<1>2. /\ UNCHANGED <<object, pc, single, todo, results, temp, intact>>
      /\ excused' = [p \in Commands |->
                       excused[p] \/ \E i \in DOMAIN todo[p] : todo[p][i].path = s]
  BY DEF ChangeSource, replica
<1>3. PICK c \in Contents : source' = [source EXCEPT ![s] = c]
  BY DEF ChangeSource
<1>4. ProcsOK'
  <2>1. excused' \in [Commands -> BOOLEAN]
    BY <1>2, ZenonT(30)
  <2>2. QED
    BY <1>1, <1>2, <2>1 DEF ProcsOK
<1>5. ASSUME NEW q \in Commands PROVE Sound(q)'
  <2>1. Sound(q) /\ Current(q)' = Current(q)
    BY <1>2 DEF IInv, AllSound, Current
  <2>2. (ListInv(q) /\ SingleInv(q) /\ TempInv(q))'
    BY <1>2, <2>1 DEF Sound, ListInv, SingleInv, TempInv
  <2>3. HeldInv(q)'
    BY <1>2, <2>1 DEF Sound, HeldInv, Holds
  <2>4. ExcuseInv(q)'
    <3>1. excused'[q] <=> excused[q] \/ \E i \in DOMAIN todo[q] : todo[q][i].path = s
      BY <1>2
    <3>2. Failures(results'[q]) # {} => excused'[q]
      BY <1>2, <2>1, <3>1 DEF Sound, ExcuseInv
    <3>3. ASSUME NEW i \in DOMAIN todo[q], ~excused'[q]
          PROVE  todo[q][i].digest \in {Absent, source'[todo[q][i].path]}
      <4>1. todo[q] \in Seq(Items)
        BY <1>1 DEF ProcsOK
      <4>2. todo[q][i].path \in Paths
        <5>1. todo[q][i] \in Items
          BY <4>1, ElementOf
        <5>2. QED
          BY <5>1 DEF Items
      <4>3. todo[q][i].path # s
        BY <3>1, <3>3
      <4>4. source'[todo[q][i].path] = source[todo[q][i].path]
        BY <1>1, <1>3, <4>2, <4>3
      <4>5. todo[q][i].digest \in {Absent, source[todo[q][i].path]}
        BY <2>1, <3>1, <3>3 DEF Sound, ExcuseInv
      <4>6. QED
        BY <4>4, <4>5
    <3>4. QED
      BY <1>2, <3>2, <3>3 DEF ExcuseInv
  <2>5. QED
    BY <2>2, <2>3, <2>4 DEF Sound
<1>6. QED
  BY <1>4, <1>5 DEF AllSound

LEMMA DamageStep ==
  ASSUME IInv, NEW c \in Contents, Damage(c)
  PROVE  ProcsOK' /\ AllSound'
<1>1. ProcsOK
  BY SourceType DEF IInv
<1>2. /\ UNCHANGED <<source, pc, single, todo, results, temp, excused>>
      /\ object' = [object EXCEPT ![c] = Broken]
      /\ intact' = [p \in Commands |-> /\ intact[p] /\ c \notin Claims(results[p])
                                       /\ pc[p] = "settle" => Current(p).digest # c]
  BY DEF Damage, Harm
<1>3. ProcsOK'
  <2>1. intact' \in [Commands -> BOOLEAN]
    BY <1>2, ZenonT(30)
  <2>2. QED
    BY <1>1, <1>2, <2>1 DEF ProcsOK
<1>4. \A e \in Contents : object'[e] = IF e = c THEN Broken ELSE object[e]
  BY <1>2 DEF IInv, TypeOK
<1>5. ASSUME NEW q \in Commands PROVE Sound(q)'
  <2>1. Sound(q) /\ Current(q)' = Current(q)
    BY <1>2 DEF IInv, AllSound, Current
  <2>2. (ListInv(q) /\ SingleInv(q) /\ TempInv(q) /\ ExcuseInv(q))'
    BY <1>2, <2>1 DEF Sound, ListInv, SingleInv, TempInv, ExcuseInv
  <2>3. HeldInv(q)'
    <3>1. intact'[q] <=> /\ intact[q] /\ c \notin Claims(results[q])
                         /\ pc[q] = "settle" => Current(q).digest # c
      BY <1>2
    <3>2. Claims(results[q]) \subseteq Contents
      BY <1>1 DEF Claims, ProcsOK, Results
    <3>3. pc[q] \in {"verify", "settle"} => Current(q).digest \in Contents
      BY <1>1, <2>1, CurrentType DEF Sound, Working
    <3>4. HeldInv(q)
      BY <2>1 DEF Sound
    <3>5. ASSUME intact'[q], NEW e \in Claims(results'[q]) PROVE (Holds(e))'
      BY <1>2, <1>4, <3>1, <3>2, <3>4, <3>5 DEF HeldInv, Holds
    <3>6. intact'[q] /\ pc'[q] = "settle" => (Holds(Current(q).digest))'
      BY <1>2, <1>4, <2>1, <3>1, <3>3, <3>4 DEF HeldInv, Holds
    <3>7. pc'[q] \in {"verify", "settle"} => object'[Current(q)'.digest] # Absent
      BY <1>2, <1>4, <2>1, <3>3, <3>4, Apart DEF HeldInv
    <3>8. QED
      BY <3>5, <3>6, <3>7 DEF HeldInv
  <2>4. QED
    BY <2>2, <2>3 DEF Sound
<1>6. QED
  BY <1>3, <1>5 DEF AllSound

LEMMA LossStep ==
  ASSUME IInv, PowerLoss
  PROVE  ProcsOK' /\ AllSound'
<1>1. Stop(Commands) /\ ProcsOK
  BY SourceType DEF IInv, PowerLoss
<1>2. ProcsOK' /\ \A p \in Commands : Sound(p)'
  BY <1>1, StopSound
<1>3. QED
  BY <1>2 DEF AllSound

LEMMA SoundStep == IInv /\ [Next]_vars => ProcsOK' /\ AllSound'
<1> SUFFICES ASSUME IInv, [Next]_vars PROVE ProcsOK' /\ AllSound'
  OBVIOUS
<1>1. ProcsOK /\ AllSound
  BY SourceType DEF IInv
<1>2. ASSUME NEW p \in Commands, WriteDocument(p) \/ Kill(p) PROVE ProcsOK' /\ AllSound'
  <2>1. Stop({p}) /\ UNCHANGED <<source, object>>
    BY <1>2 DEF WriteDocument, Kill, replica
  <2>2. Grows
    BY <2>1 DEF Grows, Holds
  <2>3. QED
    BY <1>1, <2>1, <2>2, StopOne
<1>3. ASSUME NEW p \in Commands, Step(p) PROVE ProcsOK' /\ AllSound'
  BY <1>2, <1>3, HashStep, PresentStep, LookStep, CopyStep, SyncStep, LinkStep, VerifyStep,
     SettleStep DEF Step
<1>4. CASE UNCHANGED vars
  <2>1. /\ UNCHANGED <<source, object, pc, single, todo, results, temp, intact, excused>>
    BY <1>4 DEF vars, replica, procs
  <2>2. ProcsOK'
    BY <1>1, <2>1 DEF ProcsOK
  <2>3. Grows /\ \A q \in Commands : Same(q)
    BY <2>1 DEF Grows, Holds, Same
  <2>4. QED
    BY <1>1, <2>1, <2>2, <2>3, Undisturbed DEF AllSound
<1>5. QED
  BY <1>2, <1>3, <1>4, StartStep, FailStep, ChangeStep, DamageStep, LossStep DEF Next

-----------------------------------------------------------------------------
\* Only these steps touch the replica or the documents.
LEMMA Quiet ==
  ASSUME [Next]_vars
  PROVE  \/ UNCHANGED <<replica, documents>>
         \/ \E p \in Commands : Link(p)
         \/ \E p \in Commands : WriteDocument(p)
         \/ \E c \in Contents : Damage(c)
         \/ PowerLoss
<1>1. CASE UNCHANGED vars
  BY <1>1 DEF vars, papers
<1>2. ASSUME NEW p \in Commands, Start(p) \/ FailingCall(p) \/ Kill(p)
      PROVE  UNCHANGED <<replica, documents>>
  BY <1>2 DEF Start, FailingCall, Kill, papers
<1>3. ASSUME NEW p \in Commands, Step(p), ~Link(p), ~WriteDocument(p)
      PROVE  UNCHANGED <<replica, documents>>
  BY <1>3 DEF Step, HashSource, FindPresent, Look, Copy, SyncTemp, VerifyPublished,
              SettleObject, papers
<1>4. ASSUME NEW s \in Paths, ChangeSource(s) PROVE UNCHANGED <<replica, documents>>
  BY <1>4 DEF ChangeSource, papers
<1>5. QED
  BY <1>1, <1>2, <1>3, <1>4 DEF Next

\* A Link publishes the digest's own bytes, flushed, under a free name.
LEMMA LinkEffect ==
  ASSUME IInv, NEW p \in Commands, Link(p)
  PROVE  /\ UNCHANGED <<anchored, unflushed, damaged, documents>>
         /\ \/ object' = object
            \/ \E c \in Contents : object[c] = Absent /\ object' = [object EXCEPT ![c] = c]
<1>1. ProcsOK /\ Sound(p) /\ pc[p] = "link" /\ pc[p] \in Working
  BY SourceType DEF IInv, AllSound, Link, Working
<1>2. Current(p).digest \in Contents
  BY <1>1, CurrentType DEF Sound
<1>3. temp[p].bytes = Current(p).digest /\ temp[p].synced
  BY <1>1 DEF Sound, TempInv
<1>4. CASE MayPublish(Current(p).digest) /\ object[Current(p).digest] = Absent
  <2>1. /\ object' = [object EXCEPT ![Current(p).digest] = Current(p).digest]
        /\ unflushed' = unflushed /\ UNCHANGED <<anchored, damaged, documents>>
    BY <1>3, <1>4 DEF Link, papers
  <2>2. QED
    BY <1>2, <1>4, <2>1
<1>5. CASE ~(MayPublish(Current(p).digest) /\ object[Current(p).digest] = Absent)
  BY <1>5 DEF Link, replica, papers
<1>6. QED
  BY <1>4, <1>5

\* What harm does to the objects C, and to nothing else.
LEMMA LossEffect ==
  ASSUME IInv, PowerLoss
  PROVE  \E taken \in SUBSET Contents :
           /\ \A c \in Contents : object'[c] = IF c \in taken THEN Absent ELSE object[c]
           /\ object' \in [Contents -> Contents \cup {Absent, Broken}]
           /\ damaged' = damaged \ taken /\ Harm(taken)
<1>1. PICK taken \in SUBSET {c \in Contents \ anchored : object[c] # Absent} :
        /\ object' = [c \in Contents |-> CASE c \in taken -> Absent
                                           [] c \in unflushed \ taken -> Broken
                                           [] OTHER -> object[c]]
        /\ damaged' = damaged \ taken /\ Harm(taken)
  BY DEF PowerLoss
<1>2. unflushed = {} /\ object \in [Contents -> Contents \cup {Absent, Broken}]
  BY DEF IInv, Flushed, TypeOK
<1>3. ASSUME NEW c \in Contents PROVE object'[c] = IF c \in taken THEN Absent ELSE object[c]
  BY <1>1, <1>2
<1>4. object' \in [Contents -> Contents \cup {Absent, Broken}]
  BY <1>1, <1>2
<1>5. QED
  BY <1>1, <1>3, <1>4

LEMMA NamesStep == IInv /\ [Next]_vars => NamesAreDigests' /\ Flushed'
<1> SUFFICES ASSUME IInv, [Next]_vars PROVE NamesAreDigests' /\ Flushed'
  OBVIOUS
<1>1. /\ NamesAreDigests /\ unflushed = {} /\ damaged \subseteq Contents
      /\ object \in [Contents -> Contents \cup {Absent, Broken}]
  BY DEF IInv, Flushed, TypeOK
<1>2. CASE UNCHANGED <<replica, documents>>
  BY <1>1, <1>2 DEF replica, NamesAreDigests, Holds, Flushed
<1>3. ASSUME NEW p \in Commands, Link(p) PROVE NamesAreDigests' /\ Flushed'
  <2>1. UNCHANGED <<unflushed, damaged>>
    BY <1>3, LinkEffect
  <2>2. CASE object' = object
    BY <1>1, <2>1, <2>2 DEF NamesAreDigests, Holds, Flushed
  <2>3. CASE \E c \in Contents : object[c] = Absent /\ object' = [object EXCEPT ![c] = c]
    <3>1. PICK c \in Contents : object' = [object EXCEPT ![c] = c]
      BY <2>3
    <3>2. \A e \in Contents : object'[e] = e \/ object'[e] = object[e]
      BY <1>1, <3>1
    <3>3. QED
      BY <1>1, <2>1, <3>2 DEF NamesAreDigests, Holds, Flushed
  <2>4. QED
    BY <1>3, <2>2, <2>3, LinkEffect
<1>4. ASSUME NEW p \in Commands, WriteDocument(p) PROVE NamesAreDigests' /\ Flushed'
  BY <1>1, <1>4 DEF WriteDocument, replica, NamesAreDigests, Holds, Flushed
<1>5. ASSUME NEW c \in Contents, Damage(c) PROVE NamesAreDigests' /\ Flushed'
  <2>1. /\ object' = [object EXCEPT ![c] = Broken] /\ damaged' = damaged \cup {c}
        /\ unflushed' = unflushed
    BY <1>5 DEF Damage
  <2>2. QED
    BY <1>1, <2>1 DEF NamesAreDigests, Holds, Flushed
<1>6. ASSUME PowerLoss PROVE NamesAreDigests' /\ Flushed'
  <2>1. PICK taken \in SUBSET Contents :
          /\ \A c \in Contents : object'[c] = IF c \in taken THEN Absent ELSE object[c]
          /\ damaged' = damaged \ taken
    BY <1>6, LossEffect
  <2>2. unflushed' = {}
    BY <1>6 DEF PowerLoss
  <2>3. QED
    BY <1>1, <2>1, <2>2 DEF NamesAreDigests, Holds, Flushed
<1>7. QED
  BY <1>2, <1>3, <1>4, <1>5, <1>6, Quiet

Documents == [receipt : BOOLEAN, objects : SUBSET Results, intact : BOOLEAN, excused : BOOLEAN]

\* Harm leaves a document as it is, but for what is still owed.
IsHarmed(C, d, e) ==
  /\ e \in Documents /\ e.receipt = d.receipt /\ e.objects = d.objects
  /\ e.excused = d.excused
  /\ e.intact <=> d.intact /\ Claims(d.objects) \cap C = {}

LEMMA HarmedDocument ==
  ASSUME NEW C, NEW d, d \in Documents, NEW e,
         e = [d EXCEPT !.intact = @ /\ Claims(d.objects) \cap C = {}]
  PROVE  IsHarmed(C, d, e)
<1>1. PICK b \in BOOLEAN : b <=> d.intact /\ Claims(d.objects) \cap C = {}
  OBVIOUS
<1>2. d.intact \in BOOLEAN
  BY DEF Documents
<1>3. (d.intact /\ Claims(d.objects) \cap C = {}) = b
  BY <1>1, <1>2, Zenon
<1>4. e = [d EXCEPT !.intact = b]
  BY <1>3, Zenon
<1>5. QED
  BY <1>1, <1>4 DEF Documents, IsHarmed

\* The claims of a document are contents.
LEMMA ClaimsType ==
  ASSUME NEW objects \in SUBSET Results
  PROVE  Claims(objects) \subseteq Contents
BY DEF Claims, Results

LEMMA DocumentsType == IInv => documents \subseteq Documents
BY DEF IInv, TypeOK, Documents

\* What a command writes down is what it has recorded.
LEMMA WrittenDocument ==
  ASSUME IInv, NEW p \in Commands, WriteDocument(p)
  PROVE  /\ object' = object
         /\ \/ documents' = documents
            \/ /\ WellFormed(results[p])
               /\ documents' = documents \cup {[receipt |-> single[p], objects |-> results[p],
                                                intact |-> intact[p], excused |-> excused[p]]}
BY DEF WriteDocument, replica

\* A command has a well-founded receipt, or a session, to write down.
LEMMA DocumentIsSound ==
  ASSUME IInv, NEW p \in Commands, pc[p] = "write", WellFormed(results[p])
  PROVE  /\ single[p] => /\ Cardinality(results[p]) = 1 /\ Failures(results[p]) = {}
                         /\ Claims(results[p]) = {o.digest : o \in results[p]}
         /\ intact[p] => \A c \in Claims(results[p]) : Holds(c)
         /\ Failures(results[p]) # {} => excused[p]
<1>1. Sound(p)
  BY DEF IInv, AllSound
<1>2. ASSUME single[p]
      PROVE  /\ Cardinality(results[p]) = 1 /\ Failures(results[p]) = {}
             /\ Claims(results[p]) = {o.digest : o \in results[p]}
  <2>1. PICK r \in Results : results[p] = {r} /\ r.result # "failed"
    BY <1>1, <1>2 DEF Sound, SingleInv
  <2>2. Cardinality(results[p]) = 1
    BY <2>1, FS_Singleton
  <2>3. QED
    BY <2>1, <2>2 DEF Failures, Claims
<1>3. QED
  BY <1>1, <1>2 DEF Sound, HeldInv, ExcuseInv

\* A document holds: the objects it claims are in place as long as it is owed.
Holding(d) == d.intact => IF d.receipt THEN VerifiesReceipt(d) ELSE SessionIntact(d)

\* What the property says in the words of the verifying command.
LEMMA HoldingMeans ==
  /\ DocumentsHold <=> \A d \in documents : Holding(d)
  /\ DocumentsHold' <=> \A d \in documents' : Holding(d)'
<1>1. ASSUME NEW d
      PROVE  SessionIntact(d) <=>
               VerifySession(d) = IF Failures(d.objects) = {} THEN "verified"
                                                             ELSE "incomplete"
  <2>1. CASE Failures(d.objects) = {}
    BY <2>1 DEF VerifySession, SessionIntact
  <2>2. CASE Failures(d.objects) # {}
    BY <2>2 DEF VerifySession, SessionIntact
  <2>3. QED
    BY <2>1, <2>2
<1>2. ASSUME NEW d
      PROVE  SessionIntact(d)' <=>
               VerifySession(d)' = IF Failures(d.objects) = {} THEN "verified"
                                                             ELSE "incomplete"
  <2>1. CASE Failures(d.objects) = {}
    BY <2>1 DEF VerifySession, SessionIntact
  <2>2. CASE Failures(d.objects) # {}
    BY <2>2 DEF VerifySession, SessionIntact
  <2>3. QED
    BY <2>1, <2>2
<1>3. DocumentsHold <=> \A d \in documents : Holding(d)
  BY <1>1 DEF DocumentsHold, Holding
<1>4. DocumentsHold' <=> \A d \in documents' : Holding(d)'
  BY <1>2 DEF DocumentsHold, Holding
<1>5. QED
  BY <1>3, <1>4

\* The claims decide what a document verifies against.
LEMMA HoldingAgain ==
  ASSUME NEW d \in Documents, NEW e \in Documents, e.receipt = d.receipt, e.objects = d.objects,
         e.intact => d.intact, Holding(d),
         e.intact => \A c \in Claims(d.objects) : Holds(c) => object'[c] = c
  PROVE  Holding(e)'
<1> SUFFICES ASSUME e.intact
             PROVE (IF e.receipt THEN VerifiesReceipt(e) ELSE SessionIntact(e))'
  BY DEF Holding
<1>1. CASE d.receipt
  <2>1. ReadableReceipt(d) /\ \A o \in d.objects : Holds(o.digest)
    BY <1>1 DEF Holding, VerifiesReceipt
  <2>2. \A o \in d.objects : o.digest \in Claims(d.objects)
    BY <2>1 DEF ReadableReceipt, Failures, Claims
  <2>3. ReadableReceipt(e)
    BY <1>1, <2>1 DEF ReadableReceipt
  <2>4. \A o \in e.objects : object'[o.digest] = o.digest
    BY <2>1, <2>2
  <2>5. QED
    BY <1>1, <2>3, <2>4 DEF VerifiesReceipt, Holds, ReadableReceipt
<1>2. CASE ~d.receipt
  <2>1. ReadableSession(d) /\ \A c \in Claims(d.objects) : Holds(c)
    BY <1>2 DEF Holding, SessionIntact
  <2>2. ReadableSession(e) /\ \A c \in Claims(e.objects) : object'[c] = c
    BY <1>2, <2>1 DEF ReadableSession
  <2>3. QED
    BY <1>2, <2>2 DEF SessionIntact, Holds, ReadableSession
<1>3. QED
  BY <1>1, <1>2

LEMMA HoldStep == IInv /\ [Next]_vars => DocumentsHold'
<1> SUFFICES ASSUME IInv, [Next]_vars PROVE DocumentsHold'
  OBVIOUS
<1>1. documents \subseteq Documents /\ \A d \in documents : Holding(d)
  BY DocumentsType, HoldingMeans DEF IInv
<1>2. \A d \in documents : Claims(d.objects) \subseteq Contents
  BY <1>1, ClaimsType DEF Documents
<1>3. ASSUME documents' = documents, \A c \in Contents : Holds(c) => object'[c] = c
      PROVE  DocumentsHold'
  <2>1. ASSUME NEW d \in documents PROVE Holding(d)'
    BY <1>1, <1>2, <1>3, HoldingAgain
  <2>2. QED
    BY <1>3, <2>1, HoldingMeans
<1>4. CASE UNCHANGED <<replica, documents>>
  BY <1>3, <1>4 DEF replica, Holds
<1>5. ASSUME NEW p \in Commands, Link(p) PROVE DocumentsHold'
  <2>1. documents' = documents
    BY <1>5, LinkEffect
  <2>2. \A c \in Contents : Holds(c) => object'[c] = c
    <3>1. CASE object' = object
      BY <3>1 DEF Holds
    <3>2. CASE \E c \in Contents : object[c] = Absent /\ object' = [object EXCEPT ![c] = c]
      BY <3>2, Apart DEF Holds, IInv, TypeOK
    <3>3. QED
      BY <1>5, <3>1, <3>2, LinkEffect
  <2>3. QED
    BY <1>3, <2>1, <2>2
<1>6. ASSUME NEW p \in Commands, WriteDocument(p) PROVE DocumentsHold'
  <2>1. object' = object
    BY <1>6, WrittenDocument
  <2>2. CASE documents' = documents
    BY <1>3, <2>1, <2>2 DEF Holds
  <2>3. CASE WellFormed(results[p]) /\
             documents' = documents \cup {[receipt |-> single[p], objects |-> results[p],
                                           intact |-> intact[p], excused |-> excused[p]]}
    <3> DEFINE new == [receipt |-> single[p], objects |-> results[p],
                       intact |-> intact[p], excused |-> excused[p]]
    <3>1. /\ new.receipt = single[p] /\ new.objects = results[p]
          /\ new.intact = intact[p] /\ new.excused = excused[p]
      OBVIOUS
    <3>2. documents' = documents \cup {new}
      BY <2>3
    <3> HIDE DEF new
    <3>3. /\ single[p] => /\ Cardinality(results[p]) = 1 /\ Failures(results[p]) = {}
                          /\ Claims(results[p]) = {o.digest : o \in results[p]}
          /\ intact[p] => \A c \in Claims(results[p]) : Holds(c)
      BY <1>6, <2>3, DocumentIsSound DEF WriteDocument
    <3>4. new.intact /\ new.receipt => VerifiesReceipt(new)
      BY <3>1, <3>3 DEF VerifiesReceipt, ReadableReceipt
    <3>5. new.intact /\ ~new.receipt => SessionIntact(new)
      BY <2>3, <3>1, <3>3 DEF SessionIntact, ReadableSession
    <3>6. ASSUME NEW d \in documents \cup {new}, d.intact
          PROVE IF d.receipt THEN VerifiesReceipt(d) ELSE SessionIntact(d)
      BY <1>1, <3>4, <3>5, <3>6 DEF Holding
    <3>7. ASSUME NEW d \in documents' PROVE Holding(d)'
      BY <2>1, <3>2, <3>6 DEF Holding, VerifiesReceipt, SessionIntact, ReadableReceipt,
                              ReadableSession, Holds
    <3>8. QED
      BY <3>7, HoldingMeans
  <2>4. QED
    BY <1>6, <2>2, <2>3, WrittenDocument
<1>7. ASSUME NEW C \in SUBSET Contents, Harm(C),
             \A c \in Contents \ C : object'[c] = object[c]
      PROVE  DocumentsHold'
  <2>1. documents' = {[d EXCEPT !.intact = @ /\ Claims(d.objects) \cap C = {}] : d \in documents}
    BY <1>7 DEF Harm
  <2>2. ASSUME NEW e \in documents' PROVE Holding(e)'
    <3>1. PICK d \in documents : e = [d EXCEPT !.intact = @ /\ Claims(d.objects) \cap C = {}]
      BY <2>1
    <3>2. /\ e \in Documents /\ e.receipt = d.receipt /\ e.objects = d.objects
          /\ e.intact <=> d.intact /\ Claims(d.objects) \cap C = {}
      <4>1. IsHarmed(C, d, e)
        BY <1>1, <3>1, HarmedDocument, Zenon
      <4>2. QED
        BY <4>1 DEF IsHarmed
    <3>3. e.intact => \A c \in Claims(d.objects) : Holds(c) => object'[c] = c
      BY <1>2, <1>7, <3>2 DEF Holds
    <3>4. QED
      BY <1>1, <3>2, <3>3, HoldingAgain
  <2>3. QED
    BY <2>2, HoldingMeans
<1>8. ASSUME NEW c \in Contents, Damage(c) PROVE DocumentsHold'
  <2>1. Harm({c}) /\ \A e \in Contents \ {c} : object'[e] = object[e]
    BY <1>8 DEF Damage, IInv, TypeOK
  <2>2. QED
    BY <1>7, <2>1
<1>9. ASSUME PowerLoss PROVE DocumentsHold'
  BY <1>7, <1>9, LossEffect
<1>10. QED
  BY <1>4, <1>5, <1>6, <1>8, <1>9, Quiet

LEMMA CausesStep == IInv /\ [Next]_vars => FailuresHaveCauses'
<1> SUFFICES ASSUME IInv, [Next]_vars PROVE FailuresHaveCauses'
  OBVIOUS
<1>1. documents \subseteq Documents /\ \A d \in documents : Failures(d.objects) # {} => d.excused
  BY DocumentsType DEF IInv, FailuresHaveCauses
<1>2. CASE documents' = documents
  BY <1>1, <1>2 DEF FailuresHaveCauses
<1>3. ASSUME NEW p \in Commands, WriteDocument(p) PROVE FailuresHaveCauses'
  <2>1. CASE documents' = documents
    BY <1>2, <2>1
  <2>2. CASE WellFormed(results[p]) /\
             documents' = documents \cup {[receipt |-> single[p], objects |-> results[p],
                                           intact |-> intact[p], excused |-> excused[p]]}
    <3> DEFINE new == [receipt |-> single[p], objects |-> results[p],
                       intact |-> intact[p], excused |-> excused[p]]
    <3>1. new.objects = results[p] /\ new.excused = excused[p]
      OBVIOUS
    <3>2. documents' = documents \cup {new}
      BY <2>2
    <3> HIDE DEF new
    <3>3. Failures(results[p]) # {} => excused[p]
      BY <1>3, <2>2, DocumentIsSound DEF WriteDocument
    <3>4. \A d \in documents \cup {new} : Failures(d.objects) # {} => d.excused
      BY <1>1, <3>1, <3>3
    <3>5. QED
      BY <3>2, <3>4 DEF FailuresHaveCauses
  <2>3. QED
    BY <1>3, <2>1, <2>2, WrittenDocument
<1>4. ASSUME NEW C \in SUBSET Contents, Harm(C) PROVE FailuresHaveCauses'
  <2>1. documents' = {[d EXCEPT !.intact = @ /\ Claims(d.objects) \cap C = {}] : d \in documents}
    BY <1>4 DEF Harm
  <2>2. ASSUME NEW e \in documents' PROVE Failures(e.objects) # {} => e.excused
    <3>1. PICK d \in documents : e = [d EXCEPT !.intact = @ /\ Claims(d.objects) \cap C = {}]
      BY <2>1
    <3>2. IsHarmed(C, d, e)
      BY <1>1, <3>1, HarmedDocument, Zenon
    <3>3. QED
      BY <1>1, <3>2 DEF IsHarmed
  <2>3. QED
    BY <2>2 DEF FailuresHaveCauses
<1>5. ASSUME NEW p \in Commands, Link(p) PROVE FailuresHaveCauses'
  BY <1>2, <1>5, LinkEffect
<1>6. ASSUME NEW c \in Contents, Damage(c) PROVE FailuresHaveCauses'
  BY <1>4, <1>6 DEF Damage
<1>7. ASSUME PowerLoss PROVE FailuresHaveCauses'
  BY <1>4, <1>7, LossEffect
<1>8. QED
  BY <1>2, <1>3, <1>5, <1>6, <1>7, Quiet

-----------------------------------------------------------------------------
\* The types of what the commands share, and of the rest.
WorldOK ==
  /\ source \in [Paths -> Contents]
  /\ object \in [Contents -> Contents \cup {Absent, Broken}]
  /\ anchored \subseteq Contents /\ unflushed \subseteq Contents /\ damaged \subseteq Contents
  /\ documents \subseteq Documents

CountersOK == {starts, changes, harms, kills, faults} \subseteq Nat /\ scrap \in BOOLEAN

LEMMA TypeParts == TypeOK <=> ProcsOK /\ WorldOK /\ CountersOK
BY DEF TypeOK, ProcsOK, WorldOK, CountersOK, Documents, Items

LEMMA StepsOnly ==
  ASSUME NEW p \in Commands, Step(p)
  PROVE  UNCHANGED <<source, scrap, bounds>>
<1>1. ASSUME HashSource(p) PROVE UNCHANGED <<source, scrap, bounds>>
  BY <1>1 DEF HashSource, papers
<1>2. ASSUME FindPresent(p) \/ Look(p) \/ Copy(p) \/ SyncTemp(p)
      PROVE  UNCHANGED <<source, scrap, bounds>>
  BY <1>2 DEF FindPresent, Look, Copy, SyncTemp, papers
<1>3. ASSUME Link(p) \/ VerifyPublished(p) \/ SettleObject(p) \/ WriteDocument(p)
      PROVE  UNCHANGED <<source, scrap, bounds>>
  BY <1>3 DEF Link, VerifyPublished, SettleObject, WriteDocument, papers
<1>4. QED
  BY <1>1, <1>2, <1>3 DEF Step

LEMMA CountersStep == IInv /\ [Next]_vars => CountersOK'
<1> SUFFICES ASSUME IInv, [Next]_vars PROVE CountersOK'
  OBVIOUS
<1> USE DEF CountersOK
<1>1. CountersOK
  BY TypeParts DEF IInv
<1>2. ASSUME NEW p \in Commands, Start(p) \/ FailingCall(p) \/ Kill(p) PROVE CountersOK'
  <2>1. CASE Start(p)
    BY <1>1, <2>1 DEF Start, papers
  <2>2. CASE Kill(p)
    <3>1. kills' = kills + 1 /\ UNCHANGED <<starts, changes, harms, faults>>
      BY <2>2 DEF Kill
    <3>2. scrap' \in BOOLEAN
      BY <1>1, <2>2 DEF Kill
    <3>3. QED
      BY <1>1, <3>1, <3>2
  <2>3. CASE FailingCall(p)
    <3>1. faults' = faults + 1 /\ UNCHANGED <<starts, changes, harms, kills, scrap>>
      BY <2>3 DEF FailingCall, papers
    <3>2. QED
      BY <1>1, <3>1
  <2>4. QED
    BY <1>2, <2>1, <2>2, <2>3
<1>3. ASSUME NEW p \in Commands, Step(p) PROVE CountersOK'
  <2>1. UNCHANGED bounds /\ UNCHANGED scrap
    BY <1>3, StepsOnly
  <2>2. QED
    BY <1>1, <2>1 DEF bounds
<1>4. ASSUME NEW s \in Paths, ChangeSource(s) PROVE CountersOK'
  BY <1>1, <1>4 DEF ChangeSource, papers
<1>5. ASSUME NEW C, Harm(C), scrap' \in BOOLEAN PROVE CountersOK'
  BY <1>1, <1>5 DEF Harm
<1>6. ASSUME NEW c \in Contents, Damage(c) PROVE CountersOK'
  BY <1>1, <1>5, <1>6 DEF Damage
<1>7. ASSUME PowerLoss PROVE CountersOK'
  <2>1. scrap' \in BOOLEAN
    BY <1>1, <1>7 DEF PowerLoss
  <2>2. QED
    BY <1>5, <1>7, <2>1, LossEffect
<1>8. CASE UNCHANGED vars
  BY <1>1, <1>8 DEF vars, bounds, papers
<1>9. QED
  BY <1>2, <1>3, <1>4, <1>6, <1>7, <1>8 DEF Next

LEMMA SourceStep == IInv /\ [Next]_vars => source' \in [Paths -> Contents]
<1> SUFFICES ASSUME IInv, [Next]_vars PROVE source' \in [Paths -> Contents]
  OBVIOUS
<1>1. source \in [Paths -> Contents]
  BY SourceType DEF IInv
<1>2. ASSUME NEW s \in Paths, ChangeSource(s) PROVE source' \in [Paths -> Contents]
  BY <1>1, <1>2 DEF ChangeSource
<1>3. ASSUME NEW p \in Commands, Start(p) \/ FailingCall(p) \/ Kill(p) \/ Step(p)
      PROVE  source' = source
  BY <1>3, StepsOnly DEF Start, FailingCall, Kill
<1>4. ASSUME NEW c \in Contents, Damage(c) PROVE source' = source
  BY <1>4 DEF Damage, Harm
<1>5. ASSUME PowerLoss PROVE source' = source
  BY <1>5 DEF PowerLoss, Harm
<1>6. ASSUME UNCHANGED vars PROVE source' = source
  BY <1>6 DEF vars
<1>7. source' = source \/ \E s \in Paths : ChangeSource(s)
  BY <1>3, <1>4, <1>5, <1>6, Zenon DEF Next
<1>8. CASE source' = source
  BY <1>1, <1>8
<1>9. QED
  BY <1>2, <1>7, <1>8

LEMMA WorldStep == IInv /\ [Next]_vars => WorldOK'
<1> SUFFICES ASSUME IInv, [Next]_vars PROVE WorldOK'
  OBVIOUS
<1>1. WorldOK /\ ProcsOK
  BY TypeParts DEF IInv
<1>2. source' \in [Paths -> Contents]
  BY SourceStep
<1>3. CASE UNCHANGED <<replica, documents>>
  BY <1>1, <1>2, <1>3 DEF WorldOK, replica
<1>4. ASSUME NEW p \in Commands, Link(p) PROVE WorldOK'
  <2>1. /\ UNCHANGED <<anchored, unflushed, damaged, documents>>
        /\ \/ object' = object
           \/ \E c \in Contents : object' = [object EXCEPT ![c] = c]
    BY <1>4, LinkEffect
  <2>2. object' \in [Contents -> Contents \cup {Absent, Broken}]
    BY <1>1, <2>1 DEF WorldOK
  <2>3. QED
    BY <1>1, <1>2, <2>1, <2>2 DEF WorldOK
<1>5. ASSUME NEW p \in Commands, WriteDocument(p) PROVE WorldOK'
  <2>1. UNCHANGED replica
    BY <1>5 DEF WriteDocument
  <2>2. [receipt |-> single[p], objects |-> results[p],
         intact |-> intact[p], excused |-> excused[p]] \in Documents
    BY <1>1 DEF ProcsOK, Documents
  <2>3. documents' \subseteq Documents
    BY <1>1, <1>5, <2>2, WrittenDocument DEF WorldOK
  <2>4. QED
    BY <1>1, <1>2, <2>1, <2>3 DEF WorldOK, replica
<1>6. ASSUME NEW C, Harm(C) PROVE documents' \subseteq Documents
  <2>1. documents' = {[d EXCEPT !.intact = @ /\ Claims(d.objects) \cap C = {}] : d \in documents}
    BY <1>6 DEF Harm
  <2>2. ASSUME NEW e \in documents' PROVE e \in Documents
    <3>1. PICK d \in documents : e = [d EXCEPT !.intact = @ /\ Claims(d.objects) \cap C = {}]
      BY <2>1
    <3>2. d \in Documents
      BY <1>1 DEF WorldOK
    <3>3. IsHarmed(C, d, e)
      BY <3>1, <3>2, HarmedDocument, Zenon
    <3>4. QED
      BY <3>3 DEF IsHarmed
  <2>3. QED
    BY <2>2
<1>7. ASSUME NEW c \in Contents, Damage(c) PROVE WorldOK'
  BY <1>1, <1>2, <1>6, <1>7 DEF Damage, WorldOK
<1>8. ASSUME PowerLoss PROVE WorldOK'
  <2>1. /\ object' \in [Contents -> Contents \cup {Absent, Broken}]
        /\ damaged' \subseteq damaged /\ documents' \subseteq Documents
    BY <1>6, <1>8, LossEffect
  <2>2. anchored' \subseteq Contents /\ unflushed' = {}
    BY <1>8 DEF PowerLoss
  <2>3. QED
    BY <1>1, <1>2, <2>1, <2>2 DEF WorldOK
<1>9. QED
  BY <1>3, <1>4, <1>5, <1>7, <1>8, Quiet

-----------------------------------------------------------------------------
\* The initial state satisfies the invariant.
THEOREM InitIInv == Init => IInv
<1> SUFFICES ASSUME Init PROVE IInv
  OBVIOUS
<1>1. ProcsOK
  <2>1. <<>> \in Seq(Items) /\ "idle" \in PCs
    BY DEF PCs
  <2>2. QED
    BY <2>1 DEF Init, ProcsOK
<1>2. WorldOK
  BY DEF Init, WorldOK
<1>3. CountersOK
  <2>1. {starts, changes, harms, kills, faults} \subseteq Nat
    BY DEF Init
  <2>2. scrap = FALSE
    BY DEF Init
  <2>3. QED
    BY <2>1, <2>2 DEF CountersOK
<1>4. ASSUME NEW p \in Commands PROVE Sound(p)
  <2>1. pc[p] = "idle" /\ single[p] = FALSE /\ todo[p] = <<>> /\ results[p] = {}
    BY DEF Init
  <2>2. ListInv(p) /\ SingleInv(p) /\ TempInv(p)
    BY <2>1 DEF ListInv, SingleInv, TempInv, Working
  <2>3. HeldInv(p) /\ ExcuseInv(p)
    BY <2>1 DEF HeldInv, ExcuseInv, Claims, Failures
  <2>4. QED
    BY <2>2, <2>3 DEF Sound
<1>5. Flushed /\ NamesAreDigests /\ DocumentsHold /\ FailuresHaveCauses
  BY DEF Init, Flushed, NamesAreDigests, DocumentsHold, FailuresHaveCauses, Holds
<1>6. QED
  BY <1>1, <1>2, <1>3, <1>4, <1>5, TypeParts DEF IInv, AllSound

\* Every step preserves it.
THEOREM StepIInv == IInv /\ [Next]_vars => IInv'
<1> SUFFICES ASSUME IInv, [Next]_vars PROVE IInv'
  OBVIOUS
<1>1. TypeOK'
  <2>1. (ProcsOK /\ WorldOK /\ CountersOK)'
    BY SoundStep, WorldStep, CountersStep
  <2>2. QED
    BY <2>1 DEF TypeOK, ProcsOK, WorldOK, CountersOK, Documents, Items
<1>2. QED
  BY <1>1, SoundStep, NamesStep, HoldStep, CausesStep DEF IInv

THEOREM Invariance == Spec => []IInv
BY InitIInv, StepIInv, PTL DEF Spec

\* The variables keep their types.
THEOREM TypeCorrect == Spec => []TypeOK
<1>1. IInv => TypeOK
  BY DEF IInv
<1>2. QED
  BY <1>1, Invariance, PTL

\* No name in the replica ever shows other bytes than those of its digest, unless
\* they were damaged there: replicateObject hashes, flushes and links in that order,
\* whichever other commands, kills and power losses come in between.
THEOREM NamesStayDigests == Spec => []NamesAreDigests
<1>1. IInv => NamesAreDigests
  BY DEF IInv
<1>2. QED
  BY <1>1, Invariance, PTL

\* Every receipt and session document verifies until harm comes to an object it
\* claims: what runEvidenceReplicateSession reports was in place when it was recorded,
\* and no command takes it away.
THEOREM DocumentsKeepHolding == Spec => []DocumentsHold
<1>1. IInv => DocumentsHold
  BY DEF IInv
<1>2. QED
  BY <1>1, Invariance, PTL

\* No object is recorded as failed without a failing call, a changed source or
\* damaged bytes under its name: commands do not make each other fail.
THEOREM NobodyFailsAnother == Spec => []FailuresHaveCauses
<1>1. IInv => FailuresHaveCauses
  BY DEF IInv
<1>2. QED
  BY <1>1, Invariance, PTL
=============================================================================
