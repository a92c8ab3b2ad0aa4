------------------------ MODULE EvidenceLedgerProofs ------------------------
(* The safety properties of EvidenceLedger for any number of append commands,  *)
(* records, checkpoints, kills, failing calls, power losses and restores.      *)
EXTENDS EvidenceLedger, SequenceTheorems, WellFoundedInduction, TLAPS

-----------------------------------------------------------------------------
(* The inductive invariant.                                                    *)

\* TypeOK, the records of a file apart from the rest.
FileOK(ls) == /\ ls \in Seq(Range(ls))
              /\ Len(ls) <= MaxRecords
              /\ \A k \in 1..Len(ls) : IsRecord(ls[k])

RestOK ==
  /\ torn \in {"no", "cached", "disk"}
  /\ synced \in 0..Len(lines)
  /\ linked \in BOOLEAN
  /\ directory \in {"absent", "made", "durable"}
  /\ inode \in 0..(restores + losses)
  /\ pc \in [Appenders -> Steps]
  /\ fd \in [Appenders -> 0..inode]
  /\ DOMAIN record = Appenders
  /\ \A a \in Appenders :
       pc[a] \in {"recheck", "write", "sync", "syncdir"} => IsRecord(record[a])
  /\ \A x \in acked : x.file \in 0..inode
  /\ \A c \in checkpoints : c.seq \in 1..MaxRecords /\ c.file \in 0..inode
  /\ {stops, losses, restores} \subseteq 0..MaxIncidents

Typed == FileOK(lines) /\ RestOK

\* No two append commands hold the lock of one file.
LockInv ==
  \A a, b \in Appenders :
    a # b /\ pc[a] \in Locked /\ pc[b] \in Locked => fd[a] # fd[b]

\* What a command verified still stands when it writes, if the path still names
\* its file.
ReadyInv ==
  \A a \in Appenders :
    pc[a] \in {"recheck", "write"} /\ SameFile(a) =>
      /\ Verify /\ Len(lines) < MaxRecords
      /\ \E e \in Entries : record[a] = BuildRecord(e)

\* The record of a command that has written is in the ledger, if the path still
\* names its file.
WrittenInv ==
  \A a \in Appenders :
    pc[a] \in {"sync", "syncdir"} /\ SameFile(a) =>
      /\ record[a].seq \in 1..Len(lines)
      /\ lines[record[a].seq] = record[a]

\* What was reported of the file the path names is in it, on disk.
AckedInv ==
  \A x \in acked :
    x.file = inode =>
      x.record.seq \in 1..synced /\ lines[x.record.seq] = x.record

\* All records are on disk unless a command is about to sync them or stopped
\* before it could.
OwnInv ==
  stops = 0 =>
    \/ synced = Len(lines)
    \/ \E a \in Appenders : pc[a] \in {"sync", "syncdir"} /\ SameFile(a)

\* A checkpoint was signed over a ledger that verified.
SignedInv ==
  \A c \in checkpoints :
    /\ c.history \in Seq(Range(c.history))
    /\ c.seq \in 1..MaxRecords /\ Len(c.history) = c.seq
    /\ Linked(c.history)
    /\ c.tail = Digest(c.history[c.seq])

\* What was signed of the file the path names is still there, unless a power
\* loss met a command that had stopped before its fsyncs.
KeptInv ==
  (stops = 0 \/ losses = 0) =>
    \A c \in checkpoints :
      c.file = inode =>
        /\ Linked(lines)
        /\ c.seq \in 1..Len(lines) /\ Digest(lines[c.seq]) = c.tail
        /\ stops = 0 => c.seq <= synced

IInv == Typed /\ LockInv /\ ReadyInv /\ WrittenInv /\ AckedInv /\ OwnInv
        /\ SignedInv /\ KeptInv

-----------------------------------------------------------------------------
(* Sequences of records: what appending to one, cutting one and copying one    *)
(* with a record lost or changed does to its length and its elements.          *)

LEMMA Counting ==
  ASSUME NEW s, s \in Seq(Range(s))
  PROVE  Len(s) \in Nat /\ DOMAIN s = 1..Len(s)
BY LenProperties

LEMMA Widen ==
  ASSUME NEW s, NEW S, s \in Seq(S)
  PROVE  s \in Seq(Range(s))
<1>1. Len(s) \in Nat /\ DOMAIN s = 1..Len(s) /\ s = [k \in 1..Len(s) |-> s[k]]
  BY LenProperties
<1>2. \A k \in 1..Len(s) : s[k] \in Range(s)
  BY <1>1 DEF Range
<1>3. s \in [1..Len(s) -> Range(s)]
  BY <1>1, <1>2
<1>4. QED
  BY <1>1, <1>3, SeqDef

LEMMA SameSequence ==
  ASSUME NEW s, s \in Seq(Range(s)), NEW t, t \in Seq(Range(t)),
         Len(s) = Len(t), \A k \in 1..Len(s) : s[k] = t[k]
  PROVE  s = t
<1>1. /\ Range(s) \subseteq Range(s) \cup Range(t)
      /\ Range(t) \subseteq Range(s) \cup Range(t)
  OBVIOUS
<1>2. s \in Seq(Range(s) \cup Range(t)) /\ t \in Seq(Range(s) \cup Range(t))
  BY <1>1, SeqMonotonic
<1>3. QED
  BY <1>2, SeqEqual

LEMMA AppendOf ==
  ASSUME NEW s, s \in Seq(Range(s)), NEW x
  PROVE  /\ Append(s, x) \in Seq(Range(Append(s, x)))
         /\ Len(Append(s, x)) = Len(s) + 1
         /\ \A k \in 1..Len(s) : Append(s, x)[k] = s[k]
         /\ Append(s, x)[Len(s) + 1] = x
<1>1. s \in Seq(Range(s) \cup {x}) /\ x \in Range(s) \cup {x}
  BY SeqMonotonic
<1>2. /\ Append(s, x) \in Seq(Range(s) \cup {x})
      /\ Len(Append(s, x)) = Len(s) + 1
      /\ \A k \in 1..Len(s) : Append(s, x)[k] = s[k]
      /\ Append(s, x)[Len(s) + 1] = x
  BY <1>1, AppendProperties
<1>3. Append(s, x) \in Seq(Range(Append(s, x)))
  BY <1>2, Widen
<1>4. QED
  BY <1>2, <1>3

LEMMA PrefixOf ==
  ASSUME NEW s, s \in Seq(Range(s)), NEW n \in 0..Len(s)
  PROVE  /\ SubSeq(s, 1, n) \in Seq(Range(SubSeq(s, 1, n)))
         /\ Len(SubSeq(s, 1, n)) = n
         /\ \A k \in 1..n : SubSeq(s, 1, n)[k] = s[k]
<1>1. Len(s) \in Nat /\ n \in Nat /\ n <= Len(s) /\ DOMAIN s = 1..Len(s)
  BY Counting
<1>2. \A k \in 1..n : s[k] \in Range(s)
  BY <1>1 DEF Range
<1>3. /\ SubSeq(s, 1, n) \in Seq(Range(s))
      /\ Len(SubSeq(s, 1, n)) = IF 1 <= n THEN n - 1 + 1 ELSE 0
      /\ \A k \in 1..(n - 1 + 1) : SubSeq(s, 1, n)[k] = s[1 + k - 1]
  BY <1>1, <1>2, SubSeqProperties
<1>4. SubSeq(s, 1, n) \in Seq(Range(SubSeq(s, 1, n)))
  BY <1>3, Widen
<1> DEFINE p == SubSeq(s, 1, n)
<1> HIDE DEF p
<1>5. Len(p) = n /\ \A k \in 1..n : p[k] = s[k]
  <2>1. Len(p) = IF 1 <= n THEN n - 1 + 1 ELSE 0
    BY <1>3 DEF p
  <2>2. \A k \in 1..(n - 1 + 1) : p[k] = s[1 + k - 1]
    BY <1>3 DEF p
  <2>3. QED
    BY <1>1, <2>1, <2>2
<1>6. QED
  BY <1>4, <1>5 DEF p

\* t has one element of s less.
OneLess(s, t) == /\ t \in Seq(Range(t)) /\ Len(t) = Len(s) - 1
                 /\ \A k \in 1..(Len(s) - 1) : \E j \in 1..Len(s) : t[k] = s[j]

LEMMA RemoveOf ==
  ASSUME NEW s, s \in Seq(Range(s)), NEW i \in 1..Len(s)
  PROVE  OneLess(s, RemoveAt(s, i))
<1> DEFINE front == SubSeq(s, 1, i - 1)
           rest  == SubSeq(s, i + 1, Len(s))
<1>1. Len(s) \in Nat /\ i \in Nat /\ 1 <= i /\ i <= Len(s) /\ DOMAIN s = 1..Len(s)
  BY Counting
<1>2. \A k \in 1..Len(s) : s[k] \in Range(s)
  BY <1>1 DEF Range
<1>3. /\ front \in Seq(Range(s)) /\ Len(front) = i - 1
      /\ \A k \in 1..(i - 1) : front[k] = s[k]
  <2>1. 1 \in Int /\ i - 1 \in Int /\ \A k \in 1..(i - 1) : s[k] \in Range(s)
    BY <1>1, <1>2
  <2>2. /\ front \in Seq(Range(s))
        /\ Len(front) = IF 1 <= i - 1 THEN (i - 1) - 1 + 1 ELSE 0
        /\ \A k \in 1..((i - 1) - 1 + 1) : front[k] = s[1 + k - 1]
    BY <2>1, SubSeqProperties
  <2>3. QED
    BY <1>1, <2>2
<1>4. /\ rest \in Seq(Range(s)) /\ Len(rest) = Len(s) - i
      /\ \A k \in 1..(Len(s) - i) : rest[k] = s[i + k]
  <2>1. i + 1 \in Int /\ Len(s) \in Int /\ \A k \in (i + 1)..Len(s) : s[k] \in Range(s)
    BY <1>1, <1>2
  <2>2. /\ rest \in Seq(Range(s))
        /\ Len(rest) = IF i + 1 <= Len(s) THEN Len(s) - (i + 1) + 1 ELSE 0
        /\ \A k \in 1..(Len(s) - (i + 1) + 1) : rest[k] = s[(i + 1) + k - 1]
    BY <2>1, SubSeqProperties
  <2> HIDE DEF rest
  <2>3. Len(rest) = Len(s) - i
    <3>1. Len(rest) = IF i + 1 <= Len(s) THEN Len(s) - (i + 1) + 1 ELSE 0
      BY <2>2
    <3>2. Len(s) \in Nat /\ i \in Nat /\ i <= Len(s)
      BY <1>1
    <3>3. QED
      BY <3>1, <3>2
  <2>4. \A k \in 1..(Len(s) - i) : k \in 1..(Len(s) - (i + 1) + 1) /\ (i + 1) + k - 1 = i + k
    BY <1>1
  <2>5. QED
    BY <2>2, <2>3, <2>4
<1>5. RemoveAt(s, i) = front \o rest
  BY DEF RemoveAt
<1> HIDE DEF front, rest
<1>6. /\ front \o rest \in Seq(Range(s))
      /\ Len(front \o rest) = Len(front) + Len(rest)
      /\ \A k \in 1..(Len(front) + Len(rest)) :
           (front \o rest)[k] = IF k <= Len(front) THEN front[k] ELSE rest[k - Len(front)]
  BY <1>3, <1>4, ConcatProperties
<1>7. ASSUME NEW k \in 1..(Len(s) - 1)
      PROVE  \E j \in 1..Len(s) : (front \o rest)[k] = s[j]
  <2>1. k \in 1..(Len(front) + Len(rest))
    BY <1>1, <1>3, <1>4
  <2>2. CASE k <= Len(front)
    <3>1. (front \o rest)[k] = s[k] /\ k \in 1..Len(s)
      BY <1>1, <1>3, <1>6, <2>1, <2>2
    <3>2. QED
      BY <3>1
  <2>3. CASE ~(k <= Len(front))
    <3>1. (front \o rest)[k] = rest[k - Len(front)]
      BY <1>6, <2>1, <2>3
    <3>2. k - Len(front) \in 1..(Len(s) - i) /\ i + (k - Len(front)) \in 1..Len(s)
      BY <1>1, <1>3, <1>4, <2>1, <2>3
    <3>3. QED
      BY <1>4, <3>1, <3>2
  <2>4. QED
    BY <2>2, <2>3
<1>8. front \o rest \in Seq(Range(front \o rest))
  BY <1>6, Widen
<1>9. Len(front \o rest) = Len(s) - 1
  BY <1>1, <1>3, <1>4, <1>6
<1>10. QED
  BY <1>5, <1>7, <1>8, <1>9 DEF OneLess

LEMMA ReplaceOf ==
  ASSUME NEW s, s \in Seq(Range(s)), NEW i \in 1..Len(s), NEW x
  PROVE  /\ ReplaceAt(s, i, x) \in Seq(Range(ReplaceAt(s, i, x)))
         /\ Len(ReplaceAt(s, i, x)) = Len(s)
         /\ \A k \in 1..Len(s) : ReplaceAt(s, i, x)[k] = IF k = i THEN x ELSE s[k]
<1>1. s \in Seq(Range(s) \cup {x}) /\ x \in Range(s) \cup {x}
  BY SeqMonotonic
<1> DEFINE r == [s EXCEPT ![i] = x]
<1>2. /\ r \in Seq(Range(s) \cup {x}) /\ Len(r) = Len(s)
      /\ \A k \in 1..Len(s) : r[k] = IF k = i THEN x ELSE s[k]
  BY <1>1, ExceptSeq
<1>3. ReplaceAt(s, i, x) = r
  BY DEF ReplaceAt
<1> HIDE DEF r
<1>4. r \in Seq(Range(r))
  BY <1>2, Widen
<1>5. QED
  BY <1>2, <1>3, <1>4

\* A file that only grows has the old one as a prefix.
LEMMA GrowsByOne ==
  ASSUME NEW s, s \in Seq(Range(s)), NEW x
  PROVE  IsPrefix(s, s) /\ IsPrefix(s, Append(s, x))
<1>1. Len(s) \in Nat /\ Len(s) <= Len(s) /\ Len(s) <= Len(s) + 1
  BY Counting
<1>2. IsPrefix(s, s)
  BY <1>1 DEF IsPrefix
<1> DEFINE t == Append(s, x)
<1>3. /\ t \in Seq(Range(t)) /\ Len(t) = Len(s) + 1
      /\ \A k \in 1..Len(s) : t[k] = s[k]
  BY AppendOf
<1> HIDE DEF t
<1>4. Len(s) \in 0..Len(s) /\ Len(s) \in 0..Len(t)
  BY <1>1, <1>3
<1>5. SubSeq(s, 1, Len(s)) = SubSeq(t, 1, Len(s))
  BY <1>3, <1>4, PrefixOf, SameSequence
<1>6. IsPrefix(s, t)
  BY <1>1, <1>3, <1>5 DEF IsPrefix
<1>7. QED
  BY <1>2, <1>6 DEF t

-----------------------------------------------------------------------------
(* The chain: what links record to record, over any number of records.         *)

LEMMA DigestBinds ==
  ASSUME NEW x, NEW y, Digest(x) = Digest(y)
  PROVE  x = y
BY DEF Digest

LEMMA LinkedAt ==
  ASSUME NEW s, s \in Seq(Range(s))
  PROVE  Linked(s) <=>
           \A k \in 1..Len(s) :
             /\ s[k].seq = k
             /\ s[k].previous = IF k = 1 THEN ZeroLinkHash ELSE Digest(s[k - 1])
BY Counting DEF Linked

\* A verified ledger verifies with the next record at its end, and cut short.
LEMMA LinkedAppend ==
  ASSUME NEW s, s \in Seq(Range(s)), Linked(s), NEW r,
         r.seq = Len(s) + 1,
         r.previous = IF s = <<>> THEN ZeroLinkHash ELSE Digest(Last(s))
  PROVE  Linked(Append(s, r))
<1> DEFINE t == Append(s, r)
<1>1. Len(s) \in Nat
  BY Counting
<1>2. s = <<>> <=> Len(s) = 0
  BY EmptySeq, <1>1
<1>3. /\ t \in Seq(Range(t)) /\ Len(t) = Len(s) + 1
      /\ \A k \in 1..Len(s) : t[k] = s[k]
      /\ t[Len(s) + 1] = r
  BY AppendOf
<1>4. \A k \in 1..Len(s) :
        /\ s[k].seq = k
        /\ s[k].previous = IF k = 1 THEN ZeroLinkHash ELSE Digest(s[k - 1])
  BY LinkedAt
<1>5. r.previous = IF Len(s) = 0 THEN ZeroLinkHash ELSE Digest(s[Len(s)])
  BY <1>2 DEF Last
<1> HIDE DEF t
<1>6. ASSUME NEW k \in 1..Len(t)
      PROVE  /\ t[k].seq = k
             /\ t[k].previous = IF k = 1 THEN ZeroLinkHash ELSE Digest(t[k - 1])
  <2>1. CASE k = Len(s) + 1
    <3>1. t[k] = r /\ (k = 1 <=> Len(s) = 0) /\ k - 1 = Len(s)
      BY <1>1, <1>3, <2>1
    <3>2. k # 1 => t[k - 1] = s[Len(s)]
      BY <1>1, <1>3, <3>1
    <3>3. QED
      BY <1>5, <2>1, <3>1, <3>2
  <2>2. CASE k \in 1..Len(s)
    <3>1. k # 1 => t[k - 1] = s[k - 1]
      BY <1>1, <1>3, <2>2
    <3>2. QED
      BY <1>3, <1>4, <2>2, <3>1
  <2>3. k = Len(s) + 1 \/ k \in 1..Len(s)
    BY <1>1, <1>3
  <2>4. QED
    BY <2>1, <2>2, <2>3
<1>7. Linked(t)
  BY <1>3, <1>6, LinkedAt
<1>8. QED
  BY <1>7 DEF t

LEMMA LinkedPrefix ==
  ASSUME NEW s, s \in Seq(Range(s)), Linked(s), NEW n \in 0..Len(s)
  PROVE  Linked(SubSeq(s, 1, n))
<1> DEFINE t == SubSeq(s, 1, n)
<1>1. Len(s) \in Nat
  BY Counting
<1>2. t \in Seq(Range(t)) /\ Len(t) = n /\ \A k \in 1..n : t[k] = s[k]
  BY PrefixOf
<1>3. \A k \in 1..Len(s) :
        /\ s[k].seq = k
        /\ s[k].previous = IF k = 1 THEN ZeroLinkHash ELSE Digest(s[k - 1])
  BY LinkedAt
<1> HIDE DEF t
<1>4. ASSUME NEW k \in 1..Len(t)
      PROVE  /\ t[k].seq = k
             /\ t[k].previous = IF k = 1 THEN ZeroLinkHash ELSE Digest(t[k - 1])
  <2>1. k \in 1..Len(s) /\ k \in 1..n /\ (k # 1 => k - 1 \in 1..n)
    BY <1>1, <1>2
  <2>2. QED
    BY <1>2, <1>3, <2>1
<1>5. Linked(t)
  BY <1>2, <1>4, LinkedAt
<1>6. QED
  BY <1>5 DEF t

LEMMA LeastElement ==
  ASSUME NEW T, T \subseteq Nat, T # {}
  PROVE  \E x \in T : \A y \in T : x <= y
<1> DEFINE Less == OpToRel(<, Nat)
<1>1. IsWellFoundedOn(Less, Nat)
  BY NatLessThanWellFounded
<1>2. \A x, y \in Nat : <<y, x>> \in Less <=> y < x
  BY DEF OpToRel
<1> HIDE DEF Less
<1>3. \E x \in T : \A y \in T : ~(<<y, x>> \in Less)
  BY <1>1, WFMin
<1>4. PICK x \in T : \A y \in T : ~(<<y, x>> \in Less)
  BY <1>3
<1>5. ASSUME NEW y \in T PROVE x <= y
  <2>1. x \in Nat /\ y \in Nat
    OBVIOUS
  <2>2. ~(y < x)
    BY <1>2, <1>4, <2>1
  <2>3. QED
    BY <2>1, <2>2
<1>6. QED
  BY <1>5

(* Two verified ledgers that agree on one record agree on all before it. The   *)
(* argument walks back from that record: the last difference is one too many,  *)
(* for the record behind it names the digest of the record before.             *)
LEMMA ChainBinds ==
  ASSUME NEW s, s \in Seq(Range(s)), Linked(s),
         NEW h, h \in Seq(Range(h)), Linked(h),
         Len(h) \in 1..Len(s), s[Len(h)] = h[Len(h)]
  PROVE  SubSeq(s, 1, Len(h)) = h
<1> DEFINE n == Len(h)
           D == {d \in 0..(n - 1) : s[n - d] # h[n - d]}
<1>1. Len(s) \in Nat /\ n \in Nat /\ 1 <= n /\ n <= Len(s) /\ s[n] = h[n]
  BY Counting
<1>2. \A k \in 1..Len(s) :
        s[k].previous = IF k = 1 THEN ZeroLinkHash ELSE Digest(s[k - 1])
  BY LinkedAt
<1>3. \A k \in 1..n :
        h[k].previous = IF k = 1 THEN ZeroLinkHash ELSE Digest(h[k - 1])
  BY LinkedAt
<1> HIDE DEF n
<1>4. D = {}
  <2> SUFFICES ASSUME D # {} PROVE FALSE
    OBVIOUS
  <2>1. D \subseteq Nat
    BY <1>1
  <2> HIDE DEF D
  <2>2. PICK d \in D : \A e \in D : d <= e
    BY <2>1, LeastElement
  <2>3. d \in 0..(n - 1) /\ s[n - d] # h[n - d]
    BY <2>2 DEF D
  <2>4. d # 0
    BY <1>1, <2>3
  <2>5. d - 1 \in 0..(n - 1) /\ ~(d <= d - 1)
    BY <1>1, <2>3, <2>4
  <2>6. d - 1 \notin D
    BY <2>2, <2>5
  <2>7. s[n - (d - 1)] = h[n - (d - 1)]
    BY <2>5, <2>6 DEF D
  <2> DEFINE k == n - (d - 1)
  <2>8. k \in 1..Len(s) /\ k \in 1..n /\ k # 1 /\ k - 1 = n - d
    BY <1>1, <2>3, <2>4
  <2>9. s[k] = h[k]
    BY <2>7
  <2> HIDE DEF k
  <2>10. Digest(s[k - 1]) = Digest(h[k - 1])
    BY <1>2, <1>3, <2>8, <2>9
  <2>11. QED
    BY <2>3, <2>8, <2>10, DigestBinds
<1>5. ASSUME NEW k \in 1..n PROVE s[k] = h[k]
  <2>1. n - k \in 0..(n - 1) /\ n - (n - k) = k
    BY <1>1
  <2>2. n - k \notin D
    BY <1>4
  <2>3. QED
    BY <2>1, <2>2
<1>6. n \in 0..Len(s)
  BY <1>1
<1> DEFINE p == SubSeq(s, 1, n)
<1>7. p \in Seq(Range(p)) /\ Len(p) = n /\ \A k \in 1..n : p[k] = s[k]
  BY <1>6, PrefixOf
<1> HIDE DEF p
<1>8. p = h
  BY <1>5, <1>7, SameSequence DEF n
<1>9. QED
  BY <1>8 DEF p, n

-----------------------------------------------------------------------------
(* Type correctness.                                                           *)

LEMMA TypeParts == Typed <=> TypeOK
BY Counting DEF TypeOK, Typed, FileOK, RestOK

LEMMA FileCounts ==
  ASSUME NEW ls, FileOK(ls)
  PROVE  /\ ls \in Seq(Range(ls)) /\ Len(ls) \in Nat /\ Len(ls) \in 0..MaxRecords
         /\ MaxRecords \in Nat
BY Counting, BoundsAssumption DEF FileOK

LEMMA PrefixIsFile ==
  ASSUME NEW ls, FileOK(ls), NEW n \in 0..Len(ls)
  PROVE  FileOK(SubSeq(ls, 1, n)) /\ Len(SubSeq(ls, 1, n)) = n
<1> DEFINE p == SubSeq(ls, 1, n)
<1>1. p \in Seq(Range(p)) /\ Len(p) = n /\ \A k \in 1..n : p[k] = ls[k]
  BY PrefixOf DEF FileOK
<1>2. Len(ls) \in Nat /\ Len(ls) <= MaxRecords /\ MaxRecords \in Nat
  BY FileCounts DEF FileOK
<1> HIDE DEF p
<1>3. n <= MaxRecords /\ \A k \in 1..n : k \in 1..Len(ls)
  BY <1>2
<1>4. QED
  BY <1>1, <1>3 DEF FileOK, p

LEMMA CopyIsFile ==
  ASSUME FileOK(lines), NEW ls \in Copies
  PROVE  FileOK(ls)
<1>1. /\ lines \in Seq(Range(lines)) /\ Len(lines) \in Nat /\ Len(lines) <= MaxRecords
      /\ MaxRecords \in Nat
  BY FileCounts DEF FileOK
<1>2. DOMAIN lines = 1..Len(lines)
  BY <1>1, Counting
<1>3. \A k \in 1..Len(lines) : IsRecord(lines[k])
  BY DEF FileOK
<1>4. CASE \E n \in 0..Len(lines) : ls = SubSeq(lines, 1, n)
  BY <1>4, PrefixIsFile
<1>5. ASSUME NEW i \in 1..Len(lines), ls = RemoveAt(lines, i)
      PROVE  FileOK(ls)
  <2>1. /\ ls \in Seq(Range(ls)) /\ Len(ls) = Len(lines) - 1
        /\ \A k \in 1..(Len(lines) - 1) : \E j \in 1..Len(lines) : ls[k] = lines[j]
    <3>1. lines \in Seq(Range(lines))
      BY <1>1
    <3>2. OneLess(lines, ls)
      BY <1>5, <3>1, RemoveOf
    <3>3. QED
      BY <3>2 DEF OneLess
  <2>2. Len(ls) <= MaxRecords
    <3>1. Len(ls) = Len(lines) - 1
      BY <2>1
    <3>2. QED
      BY <1>1, <3>1
  <2>3. ASSUME NEW k \in 1..Len(ls) PROVE IsRecord(ls[k])
    <3>1. \E j \in 1..Len(lines) : ls[k] = lines[j]
      BY <2>1
    <3>2. QED
      BY <1>3, <3>1
  <2>4. QED
    BY <2>1, <2>2, <2>3 DEF FileOK
<1>6. ASSUME NEW i \in 1..Len(lines), NEW e \in Entries,
             ls = ReplaceAt(lines, i, [lines[i] EXCEPT !.entry = e])
      PROVE  FileOK(ls)
  <2> DEFINE r == [lines[i] EXCEPT !.entry = e]
  <2>1. IsRecord(r)
    BY <1>3 DEF IsRecord
  <2> HIDE DEF r
  <2>2. /\ ls \in Seq(Range(ls)) /\ Len(ls) = Len(lines)
        /\ \A k \in 1..Len(lines) : ls[k] = IF k = i THEN r ELSE lines[k]
    BY <1>1, <1>6, ReplaceOf DEF r
  <2>3. \A k \in 1..Len(ls) : IsRecord(ls[k])
    BY <1>3, <2>1, <2>2
  <2>4. QED
    BY <1>1, <2>2, <2>3 DEF FileOK
<1>7. \/ \E n \in 0..Len(lines) : ls = SubSeq(lines, 1, n)
      \/ \E i \in DOMAIN lines : ls = RemoveAt(lines, i)
      \/ \E i \in DOMAIN lines, e \in Entries :
           ls = ReplaceAt(lines, i, [lines[i] EXCEPT !.entry = e])
  BY DEF Copies
<1>8. QED
  BY <1>2, <1>4, <1>5, <1>6, <1>7

\* The record a command is about to write fits the file it verified.
LEMMA ReadyAppend ==
  ASSUME Typed, ReadyInv, NEW a \in Appenders, pc[a] = "write", SameFile(a)
  PROVE  /\ torn = "no" /\ Linked(lines) /\ Len(lines) < MaxRecords
         /\ record[a].seq = Len(lines) + 1
         /\ record[a].previous = IF lines = <<>> THEN ZeroLinkHash ELSE Digest(Last(lines))
         /\ FileOK(Append(lines, record[a]))
         /\ Linked(Append(lines, record[a]))
         /\ Len(Append(lines, record[a])) = Len(lines) + 1
         /\ \A k \in 1..Len(lines) : Append(lines, record[a])[k] = lines[k]
         /\ Append(lines, record[a])[Len(lines) + 1] = record[a]
<1> DEFINE r == record[a]
           t == Append(lines, r)
<1>1. /\ torn = "no" /\ Linked(lines) /\ Len(lines) < MaxRecords
      /\ \E e \in Entries : r = BuildRecord(e)
  BY DEF ReadyInv, Verify
<1>2. FileOK(lines)
  BY DEF Typed
<1>3. lines \in Seq(Range(lines)) /\ Len(lines) \in Nat /\ MaxRecords \in Nat
  BY <1>2, FileCounts
<1>4. /\ r.seq = Len(lines) + 1
      /\ r.previous = IF lines = <<>> THEN ZeroLinkHash ELSE Digest(Last(lines))
      /\ DOMAIN r = {"seq", "entry", "previous"} /\ r.entry \in Entries
  BY <1>1 DEF BuildRecord
<1>5. IsRecord(r)
  BY <1>1, <1>3, <1>4 DEF IsRecord
<1> HIDE DEF r
<1>6. /\ t \in Seq(Range(t)) /\ Len(t) = Len(lines) + 1
      /\ \A k \in 1..Len(lines) : t[k] = lines[k]
      /\ t[Len(lines) + 1] = r
  BY <1>3, AppendOf
<1>7. Linked(t)
  BY <1>1, <1>3, <1>4, LinkedAppend
<1> HIDE DEF t
<1>8. \A k \in 1..Len(lines) : IsRecord(lines[k])
  BY <1>2 DEF FileOK
<1>9. \A k \in 1..Len(t) : IsRecord(t[k])
  BY <1>3, <1>5, <1>6, <1>8
<1>10. FileOK(t)
  BY <1>1, <1>3, <1>6, <1>9 DEF FileOK
<1>11. QED
  BY <1>1, <1>4, <1>6, <1>7, <1>10 DEF r, t

LEMMA InitType == Init => Typed
<1> SUFFICES ASSUME Init PROVE Typed
  OBVIOUS
<1>1. lines \in Seq(Range(lines)) /\ Len(lines) = 0
  BY EmptySeq DEF Init
<1>2. FileOK(lines)
  BY <1>1, BoundsAssumption DEF FileOK
<1>3. RestOK
  <2>1. {stops, losses, restores} \subseteq 0..MaxIncidents
    BY BoundsAssumption DEF Init
  <2>2. pc \in [Appenders -> Steps] /\ fd \in [Appenders -> 0..inode]
    BY DEF Init, Steps
  <2>3. /\ DOMAIN record = Appenders
        /\ \A a \in Appenders : pc[a] \notin {"recheck", "write", "sync", "syncdir"}
    BY DEF Init
  <2>4. /\ synced \in 0..Len(lines) /\ inode \in 0..(restores + losses)
        /\ torn = "no" /\ linked = FALSE /\ directory = "absent"
    BY <1>1 DEF Init
  <2>5. acked = {} /\ checkpoints = {}
    BY DEF Init
  <2>6. QED
    BY <2>1, <2>2, <2>3, <2>4, <2>5 DEF RestOK
<1>4. QED
  BY <1>2, <1>3 DEF Typed

LEMMA TypeStep == Typed /\ ReadyInv /\ [Next]_vars => Typed'
<1> SUFFICES ASSUME Typed, ReadyInv, [Next]_vars PROVE Typed'
  OBVIOUS
<1> USE FileCounts, BoundsAssumption
<1>1. ASSUME NEW a \in Appenders, Open(a) PROVE Typed'
  <2>1. FileOK(lines)'
    BY <1>1 DEF Open, Go, ledger, file, Typed, FileOK
  <2>2. RestOK'
    BY <1>1, SMTT(20) DEF Open, Go, ledger, file, bounds, Typed, RestOK, Steps, Locked, Incident
  <2>3. QED
    BY <2>1, <2>2 DEF Typed
<1>2. ASSUME NEW a \in Appenders, Lock(a) PROVE Typed'
  <2>1. FileOK(lines)'
    BY <1>2 DEF Lock, Go, ledger, file, Typed, FileOK
  <2>2. RestOK'
    BY <1>2, SMTT(20) DEF Lock, Go, ledger, file, bounds, Typed, RestOK, Steps, Locked, Incident
  <2>3. QED
    BY <2>1, <2>2 DEF Typed
<1>3. ASSUME NEW a \in Appenders, NEW e \in Entries, Prepare(a, e) PROVE Typed'
  <2>1. FileOK(lines)'
    BY <1>3 DEF Prepare, Go, ledger, file, Typed, FileOK
  <2>2. IsRecord(BuildRecord(e))
    <3>1. Len(lines) + 1 \in 1..MaxRecords
      BY <1>3 DEF Prepare, Typed
    <3>2. QED
      BY <3>1 DEF BuildRecord, IsRecord
  <2>3. RestOK'
    BY <1>3, <2>2, SMTT(20) DEF Prepare, Go, ledger, file, bounds, Typed, RestOK, Steps
  <2>4. QED
    BY <2>1, <2>3 DEF Typed
<1>4. ASSUME NEW a \in Appenders, Recheck(a) PROVE Typed'
  <2>1. FileOK(lines)'
    BY <1>4 DEF Recheck, Go, ledger, file, Typed, FileOK
  <2>2. RestOK'
    BY <1>4, SMTT(20) DEF Recheck, Go, ledger, file, bounds, Typed, RestOK, Steps, Locked, Incident
  <2>3. QED
    BY <2>1, <2>2 DEF Typed
<1>5. ASSUME NEW a \in Appenders, Refuse(a) PROVE Typed'
  <2>1. FileOK(lines)'
    BY <1>5 DEF Refuse, Close, ledger, file, Typed, FileOK
  <2>2. RestOK'
    BY <1>5, SMTT(20) DEF Refuse, Close, ledger, file, bounds, Typed, RestOK, Steps, Locked, Incident
  <2>3. QED
    BY <2>1, <2>2 DEF Typed
<1>6. ASSUME NEW a \in Appenders, Write(a) PROVE Typed'
  <2>1. /\ UNCHANGED <<torn, synced, linked, inode, directory, fd, record>>
        /\ UNCHANGED <<acked, checkpoints, bounds>>
    BY <1>6 DEF Write
  <2>2. pc[a] = "write" /\ pc' = [pc EXCEPT ![a] = "sync"]
    BY <1>6 DEF Write, Go
  <2>3. FileOK(lines') /\ Len(lines) <= Len(lines')
    <3>1. CASE SameFile(a)
      <4>1. lines' = Append(lines, record[a])
        BY <1>6, <3>1 DEF Write
      <4>2. QED
        BY <2>2, <3>1, <4>1, ReadyAppend DEF Typed
    <3>2. CASE ~SameFile(a)
      BY <1>6, <3>2 DEF Write, Typed
    <3>3. QED
      BY <3>1, <3>2
  <2>4. RestOK'
    <3>1. synced \in 0..Len(lines')
      BY <2>3 DEF Typed, RestOK
    <3>2. pc' \in [Appenders -> Steps]
      BY <2>2 DEF Typed, RestOK, Steps
    <3>3. ASSUME NEW b \in Appenders, pc'[b] \in {"recheck", "write", "sync", "syncdir"}
          PROVE  IsRecord(record[b])
      <4>1. pc[b] \in {"recheck", "write", "sync", "syncdir"}
        BY <2>2, <3>3 DEF Typed, RestOK
      <4>2. QED
        BY <4>1 DEF Typed, RestOK
    <3>4. QED
      BY <2>1, <3>1, <3>2, <3>3 DEF bounds, Typed, RestOK
  <2>5. QED
    BY <2>3, <2>4 DEF Typed
<1>7. ASSUME NEW a \in Appenders, WriteFails(a) PROVE Typed'
  <2>1. FileOK(lines)'
    BY <1>7 DEF WriteFails, Close, Stopped, ledger, file, Typed, FileOK
  <2>2. RestOK'
    BY <1>7, SMTT(20) DEF WriteFails, Close, Stopped, ledger, file, bounds, Typed, RestOK, Steps, Locked, Incident
  <2>3. QED
    BY <2>1, <2>2 DEF Typed
<1>8. ASSUME NEW a \in Appenders, Sync(a) PROVE Typed'
  <2>1. FileOK(lines)'
    BY <1>8 DEF Sync, Go, ledger, file, Typed, FileOK
  <2>2. RestOK'
    BY <1>8, SMTT(20) DEF Sync, Go, ledger, file, bounds, Typed, RestOK, Steps, Locked, Incident
  <2>3. QED
    BY <2>1, <2>2 DEF Typed
<1>9. ASSUME NEW a \in Appenders, SyncDir(a) PROVE Typed'
  <2>1. FileOK(lines)'
    BY <1>9 DEF SyncDir, Close, ledger, file, Typed, FileOK
  <2>2. RestOK'
    BY <1>9, SMTT(20) DEF SyncDir, Close, ledger, file, bounds, Typed, RestOK, Steps, Locked, Incident
  <2>3. QED
    BY <2>1, <2>2 DEF Typed
<1>10. ASSUME NEW a \in Appenders, Fail(a) PROVE Typed'
  <2>1. FileOK(lines)'
    BY <1>10 DEF Fail, Close, Stopped, ledger, file, Typed, FileOK
  <2>2. RestOK'
    BY <1>10, SMTT(20) DEF Fail, Close, Stopped, ledger, file, bounds, Typed, RestOK, Steps, Locked, Incident
  <2>3. QED
    BY <2>1, <2>2 DEF Typed
<1>11. ASSUME NEW a \in Appenders, Kill(a) PROVE Typed'
  <2>1. FileOK(lines)'
    BY <1>11 DEF Kill, Close, Stopped, ledger, file, Typed, FileOK
  <2>2. RestOK'
    BY <1>11, SMTT(20) DEF Kill, Close, Stopped, ledger, file, bounds, Typed, RestOK, Steps, Locked, Incident
  <2>3. QED
    BY <2>1, <2>2 DEF Typed
<1>12. ASSUME Sign PROVE Typed'
  <2>1. UNCHANGED <<ledger, procs, acked, bounds>>
    BY <1>12 DEF Sign
  <2>2. Len(lines) \in 1..MaxRecords
    <3>1. lines # <<>>
      BY <1>12 DEF Sign
    <3>2. QED
      BY <3>1, EmptySeq DEF Typed
  <2>3. \A c \in checkpoints' : c.seq \in 1..MaxRecords /\ c.file \in 0..inode
    <3>1. checkpoints' = checkpoints \cup {Checkpoint}
      BY <1>12 DEF Sign
    <3>2. Checkpoint.seq = Len(lines) /\ Checkpoint.file = inode /\ inode \in 0..inode
      BY DEF Checkpoint, Typed, RestOK
    <3>3. QED
      BY <2>2, <3>1, <3>2 DEF Typed, RestOK
  <2>4. QED
    BY <2>1, <2>3 DEF ledger, file, procs, bounds, Typed, FileOK, RestOK
<1>13. ASSUME PowerLoss PROVE Typed'
  <2>1. /\ losses' = losses + 1 /\ stops + losses + restores < MaxIncidents
        /\ UNCHANGED <<acked, checkpoints, stops, restores>>
    BY <1>13 DEF PowerLoss, Incident
  <2>2. /\ pc' = [a \in Appenders |-> "idle"]
        /\ fd' = [a \in Appenders |-> 0]
        /\ record' = [a \in Appenders |-> None]
    BY <1>13 DEF PowerLoss
  <2>3. /\ FileOK(lines') /\ synced' \in 0..Len(lines')
        /\ torn' \in {"no", "cached", "disk"} /\ linked' \in BOOLEAN
        /\ directory' \in {"absent", "made", "durable"}
        /\ inode' \in {inode, inode + 1}
    <3>1. CASE LedgerSurvives
      <4>1. PICK n \in synced..Len(lines) :
              /\ lines' = SubSeq(lines, 1, n) /\ synced' = n
              /\ torn' \in CASE n < Len(lines) -> {"no", "disk"}
                             [] torn = "cached" -> {"no", "disk"}
                             [] OTHER -> {torn}
        BY <3>1 DEF LedgerSurvives
      <4>2. synced \in 0..Len(lines) /\ Len(lines) \in Nat
        BY DEF Typed, RestOK
      <4>3. n \in 0..Len(lines) /\ n \in 0..n
        BY <4>2
      <4>4. FileOK(lines') /\ Len(lines') = n
        BY <4>1, <4>3, PrefixIsFile DEF Typed
      <4>5. torn' \in {"no", "cached", "disk"}
        BY <4>1 DEF Typed, RestOK
      <4>6. UNCHANGED <<linked, inode>> /\ directory' \in {"absent", "durable"}
        BY <3>1 DEF LedgerSurvives
      <4>7. QED
        BY <4>1, <4>3, <4>4, <4>5, <4>6 DEF Typed, RestOK
    <3>2. CASE LedgerVanishes
      <4>1. /\ lines' = <<>> /\ torn' = "no" /\ synced' = 0 /\ linked' = FALSE
            /\ directory' = "absent" /\ inode' = inode + 1
        BY <3>2 DEF LedgerVanishes
      <4>2. lines' \in Seq(Range(lines')) /\ Len(lines') = 0
        BY <4>1, EmptySeq
      <4>3. FileOK(lines')
        BY <4>2 DEF FileOK
      <4>4. synced' \in 0..Len(lines')
        BY <4>1, <4>2
      <4>5. linked' \in BOOLEAN
        BY <4>1
      <4>6. QED
        BY <4>1, <4>3, <4>4, <4>5
    <3>3. QED
      BY <1>13, <3>1, <3>2 DEF PowerLoss
  <2>4. /\ {stops, losses, restores}' \subseteq 0..MaxIncidents
        /\ inode' \in 0..(restores' + losses') /\ 0..inode \subseteq 0..inode'
        /\ 0 \in 0..inode'
    BY <2>1, <2>3, SMTT(20) DEF Typed, RestOK
  <2>5. RestOK'
    BY <2>1, <2>2, <2>3, <2>4, SMTT(20) DEF Typed, RestOK, Steps
  <2>6. QED
    BY <2>3, <2>5 DEF Typed
<1>14. ASSUME Restore PROVE Typed'
  <2>1. /\ restores' = restores + 1 /\ stops + losses + restores < MaxIncidents
        /\ torn' = "no" /\ synced' = Len(lines') /\ linked' = TRUE /\ inode' = inode + 1
        /\ UNCHANGED <<directory, procs, acked, checkpoints, stops, losses>>
    BY <1>14 DEF Restore, Incident
  <2>2. FileOK(lines')
    BY <1>14, CopyIsFile DEF Restore, Typed
  <2>3. synced' \in 0..Len(lines')
    BY <2>1, <2>2
  <2>4. /\ {stops, losses, restores}' \subseteq 0..MaxIncidents
        /\ inode' \in 0..(restores' + losses') /\ 0..inode \subseteq 0..inode'
    BY <2>1, SMTT(20) DEF Typed, RestOK
  <2>5. RestOK'
    BY <2>1, <2>3, <2>4, SMTT(20) DEF procs, Typed, RestOK
  <2>6. QED
    BY <2>2, <2>5 DEF Typed
<1>15. CASE UNCHANGED vars
  BY <1>15 DEF vars, ledger, file, procs, bounds, Typed, FileOK, RestOK
<1>16. QED
  BY <1>1, <1>2, <1>3, <1>4, <1>5, <1>6, <1>7, <1>8, <1>9, <1>10, <1>11, <1>12, <1>13, <1>14, <1>15
  DEF Next, Step

-----------------------------------------------------------------------------
(* The lock, and what it keeps true.                                           *)

LEMMA LockStep == Typed /\ LockInv /\ [Next]_vars => LockInv'
<1> SUFFICES ASSUME Typed, LockInv, [Next]_vars PROVE LockInv'
  OBVIOUS
<1> USE DEF Typed, RestOK, LockInv, Locked, Steps, procs
<1>1. ASSUME NEW a \in Appenders, Open(a) PROVE LockInv'
  BY <1>1 DEF Open, Go
<1>2. ASSUME NEW a \in Appenders, Lock(a) PROVE LockInv'
  BY <1>2 DEF Lock, Go
<1>3. ASSUME NEW a \in Appenders, NEW e \in Entries, Prepare(a, e) PROVE LockInv'
  BY <1>3 DEF Prepare, Go
<1>4. ASSUME NEW a \in Appenders, Recheck(a) PROVE LockInv'
  BY <1>4 DEF Recheck, Go
<1>5. ASSUME NEW a \in Appenders, Refuse(a) PROVE LockInv'
  BY <1>5 DEF Refuse, Close
<1>6. ASSUME NEW a \in Appenders, Write(a) PROVE LockInv'
  BY <1>6 DEF Write, Go
<1>7. ASSUME NEW a \in Appenders, WriteFails(a) PROVE LockInv'
  BY <1>7 DEF WriteFails, Close, Stopped
<1>8. ASSUME NEW a \in Appenders, Sync(a) PROVE LockInv'
  BY <1>8 DEF Sync, Go
<1>9. ASSUME NEW a \in Appenders, SyncDir(a) PROVE LockInv'
  BY <1>9 DEF SyncDir, Close
<1>10. ASSUME NEW a \in Appenders, Fail(a) PROVE LockInv'
  BY <1>10 DEF Fail, Close, Stopped
<1>11. ASSUME NEW a \in Appenders, Kill(a) PROVE LockInv'
  BY <1>11 DEF Kill, Close, Stopped
<1>12. ASSUME Sign PROVE LockInv'
  BY <1>12 DEF Sign, ledger, file
<1>13. ASSUME PowerLoss PROVE LockInv'
  BY <1>13 DEF PowerLoss
<1>14. ASSUME Restore PROVE LockInv'
  BY <1>14 DEF Restore
<1>15. CASE UNCHANGED vars
  BY <1>15 DEF vars, ledger, file, procs, bounds
<1>16. QED
  BY <1>1, <1>2, <1>3, <1>4, <1>5, <1>6, <1>7, <1>8, <1>9, <1>10, <1>11, <1>12, <1>13, <1>14, <1>15
  DEF Next, Step

LEMMA ReadyStep == Typed /\ LockInv /\ ReadyInv /\ [Next]_vars => ReadyInv'
<1> SUFFICES ASSUME Typed, LockInv, ReadyInv, [Next]_vars PROVE ReadyInv'
  OBVIOUS
<1> USE DEF Typed, RestOK, ReadyInv, SameFile, Verify, BuildRecord
<1>1. ASSUME NEW a \in Appenders, Open(a) PROVE ReadyInv'
  <2>1. UNCHANGED <<lines, torn, inode>>
    BY <1>1 DEF Open, Go, ledger, file
  <2>2. QED
    BY <1>1, <2>1 DEF Open, Go, procs
<1>2. ASSUME NEW a \in Appenders, Lock(a) PROVE ReadyInv'
  <2>1. UNCHANGED <<lines, torn, inode>>
    BY <1>2 DEF Lock, Go, ledger, file
  <2>2. QED
    BY <1>2, <2>1 DEF Lock, Go, procs
<1>3. ASSUME NEW a \in Appenders, NEW e \in Entries, Prepare(a, e) PROVE ReadyInv'
  <2>1. UNCHANGED <<lines, torn, inode, fd>>
    BY <1>3 DEF Prepare, ledger, file
  <2>2. /\ pc' = [pc EXCEPT ![a] = "recheck"] /\ record' = [record EXCEPT ![a] = BuildRecord(e)]
        /\ Verify /\ Len(lines) < MaxRecords
    BY <1>3 DEF Prepare, Go
  <2>3. BuildRecord(e)' = BuildRecord(e)
    BY <2>1
  <2>4. QED
    BY <2>1, <2>2, <2>3
<1>4. ASSUME NEW a \in Appenders, Recheck(a) PROVE ReadyInv'
  <2>1. UNCHANGED <<lines, torn, inode>>
    BY <1>4 DEF Recheck, Go, ledger, file
  <2>2. QED
    BY <1>4, <2>1 DEF Recheck, Go, procs
<1>5. ASSUME NEW a \in Appenders, Refuse(a) PROVE ReadyInv'
  <2>1. UNCHANGED <<lines, torn, inode>>
    BY <1>5 DEF Refuse, Close, ledger, file
  <2>2. QED
    BY <1>5, <2>1 DEF Refuse, Close, procs
<1>6. ASSUME NEW a \in Appenders, Write(a) PROVE ReadyInv'
  <2>1. UNCHANGED <<torn, inode, fd, record>>
    BY <1>6 DEF Write
  <2>2. pc[a] = "write" /\ pc' = [pc EXCEPT ![a] = "sync"]
    BY <1>6 DEF Write, Go
  <2>3. ASSUME NEW b \in Appenders, pc[b]' \in {"recheck", "write"}, SameFile(b)'
        PROVE  UNCHANGED lines
    <3>1. b # a /\ pc[b] \in {"recheck", "write"} /\ SameFile(b)
      BY <2>1, <2>2, <2>3
    <3>2. ~SameFile(a)
      BY <2>2, <3>1 DEF LockInv, Locked, Steps
    <3>3. QED
      BY <1>6, <3>2 DEF Write
  <2>4. QED
    BY <2>1, <2>2, <2>3
<1>7. ASSUME NEW a \in Appenders, WriteFails(a) PROVE ReadyInv'
  <2>1. UNCHANGED <<lines, inode>> /\ pc[a] = "write"
    BY <1>7 DEF WriteFails
  <2>2. /\ pc' = [pc EXCEPT ![a] = "idle"] /\ fd' = [fd EXCEPT ![a] = 0]
        /\ record' = [record EXCEPT ![a] = None]
    BY <1>7 DEF WriteFails, Close
  <2>3. ASSUME NEW b \in Appenders, pc[b]' \in {"recheck", "write"}, SameFile(b)'
        PROVE  torn' = torn
    <3>1. b # a /\ pc[b] \in {"recheck", "write"} /\ SameFile(b)
      BY <2>1, <2>2, <2>3
    <3>2. ~SameFile(a)
      BY <2>1, <3>1 DEF LockInv, Locked, Steps
    <3>3. QED
      BY <1>7, <3>2 DEF WriteFails
  <2>4. QED
    BY <2>1, <2>2, <2>3
<1>8. ASSUME NEW a \in Appenders, Sync(a) PROVE ReadyInv'
  <2>1. UNCHANGED <<lines, torn, inode>>
    BY <1>8 DEF Sync, Go, ledger, file
  <2>2. QED
    BY <1>8, <2>1 DEF Sync, Go, procs
<1>9. ASSUME NEW a \in Appenders, SyncDir(a) PROVE ReadyInv'
  <2>1. UNCHANGED <<lines, torn, inode>>
    BY <1>9 DEF SyncDir, Close, ledger, file
  <2>2. QED
    BY <1>9, <2>1 DEF SyncDir, Close, procs
<1>10. ASSUME NEW a \in Appenders, Fail(a) PROVE ReadyInv'
  <2>1. UNCHANGED <<lines, torn, inode>>
    BY <1>10 DEF Fail, Close, Stopped, ledger, file
  <2>2. QED
    BY <1>10, <2>1 DEF Fail, Close, Stopped, procs
<1>11. ASSUME NEW a \in Appenders, Kill(a) PROVE ReadyInv'
  <2>1. UNCHANGED <<lines, torn, inode>>
    BY <1>11 DEF Kill, Close, Stopped, ledger, file
  <2>2. QED
    BY <1>11, <2>1 DEF Kill, Close, Stopped, procs
<1>12. ASSUME Sign PROVE ReadyInv'
  <2>1. UNCHANGED <<lines, torn, inode>>
    BY <1>12 DEF Sign, ledger, file
  <2>2. QED
    BY <1>12, <2>1 DEF Sign, procs
<1>13. ASSUME PowerLoss PROVE ReadyInv'
  BY <1>13 DEF PowerLoss
<1>14. ASSUME Restore PROVE ReadyInv'
  <2>1. inode' = inode + 1 /\ UNCHANGED fd
    BY <1>14 DEF Restore, procs
  <2>2. ASSUME NEW b \in Appenders PROVE ~SameFile(b)'
    <3>1. fd[b] \in 0..inode /\ inode \in Nat
      OBVIOUS
    <3>2. QED
      BY <2>1, <3>1
  <2>3. QED
    BY <2>2
<1>15. CASE UNCHANGED vars
  BY <1>15 DEF vars, ledger, file, procs, bounds
<1>16. QED
  BY <1>1, <1>2, <1>3, <1>4, <1>5, <1>6, <1>7, <1>8, <1>9, <1>10, <1>11, <1>12, <1>13, <1>14, <1>15
  DEF Next, Step

\* Writing appends to the ledger, or to a file the path no longer names.
LEMMA WriteEffect ==
  ASSUME Typed, ReadyInv, NEW a \in Appenders, Write(a)
  PROVE  /\ \/ ~SameFile(a) /\ lines' = lines
            \/ /\ SameFile(a) /\ Len(lines') = Len(lines) + 1
               /\ record[a].seq = Len(lines) + 1 /\ lines'[Len(lines) + 1] = record[a]
         /\ \A k \in 1..Len(lines) : lines'[k] = lines[k]
         /\ Linked(lines) => Linked(lines')
<1>1. pc[a] = "write" /\ lines' = IF SameFile(a) THEN Append(lines, record[a]) ELSE lines
  BY DEF Write, Go
<1>2. CASE SameFile(a)
  <2>1. lines' = Append(lines, record[a])
    BY <1>1, <1>2
  <2>2. QED
    BY <1>1, <1>2, <2>1, ReadyAppend
<1>3. CASE ~SameFile(a)
  BY <1>1, <1>3
<1>4. QED
  BY <1>2, <1>3

\* A power loss keeps what is synced, or takes the file with its directory.
LEMMA LossEffect ==
  ASSUME Typed, PowerLoss
  PROVE  /\ \A a \in Appenders : pc'[a] = "idle"
         /\ losses' = losses + 1 /\ UNCHANGED <<acked, checkpoints, stops, restores>>
         /\ Len(lines') = synced'
         /\ \/ /\ inode' = inode /\ synced' \in synced..Len(lines)
               /\ \A k \in 1..Len(lines') : lines'[k] = lines[k]
               /\ Linked(lines) => Linked(lines')
            \/ inode' = inode + 1
<1>1. CASE LedgerSurvives
  <2>1. PICK n \in synced..Len(lines) : lines' = SubSeq(lines, 1, n) /\ synced' = n
    BY <1>1 DEF LedgerSurvives
  <2>2. FileOK(lines) /\ synced \in 0..Len(lines)
    BY DEF Typed, RestOK
  <2>3. lines \in Seq(Range(lines)) /\ Len(lines) \in Nat
    BY <2>2, FileCounts
  <2>4. n \in 0..Len(lines)
    BY <2>2, <2>3
  <2>5. Len(lines') = n /\ \A k \in 1..n : lines'[k] = lines[k]
    BY <2>1, <2>3, <2>4, PrefixOf
  <2>6. Linked(lines) => Linked(lines')
    BY <2>1, <2>3, <2>4, LinkedPrefix
  <2>7. inode' = inode
    BY <1>1 DEF LedgerSurvives
  <2>8. QED
    BY <2>1, <2>5, <2>6, <2>7 DEF PowerLoss
<1>2. CASE LedgerVanishes
  <2>1. lines' = <<>> /\ synced' = 0 /\ inode' = inode + 1
    BY <1>2 DEF LedgerVanishes
  <2>2. Len(lines') = synced'
    BY <2>1, EmptySeq
  <2>3. QED
    BY <2>1, <2>2 DEF PowerLoss
<1>3. QED
  BY <1>1, <1>2 DEF PowerLoss

\* What was said of the files before is not said of the next one.
LEMMA NextFile ==
  ASSUME Typed, inode' = inode + 1
  PROVE  /\ \A x \in acked : x.file # inode'
         /\ \A c \in checkpoints : c.file # inode'
<1>1. inode \in Nat
  BY BoundsAssumption DEF Typed, RestOK
<1>2. \A n \in 0..inode : n # inode + 1
  BY <1>1
<1>3. QED
  BY <1>2 DEF Typed, RestOK

LEMMA WrittenStep == Typed /\ ReadyInv /\ WrittenInv /\ [Next]_vars => WrittenInv'
<1> SUFFICES ASSUME Typed, ReadyInv, WrittenInv, [Next]_vars PROVE WrittenInv'
  OBVIOUS
<1> USE DEF Typed, RestOK, WrittenInv, SameFile
<1>1. ASSUME NEW a \in Appenders, Open(a) PROVE WrittenInv'
  <2>1. UNCHANGED <<lines, inode>>
    BY <1>1 DEF Open, Go, ledger, file
  <2>2. QED
    BY <1>1, <2>1 DEF Open, Go, procs
<1>2. ASSUME NEW a \in Appenders, Lock(a) PROVE WrittenInv'
  <2>1. UNCHANGED <<lines, inode>>
    BY <1>2 DEF Lock, Go, ledger, file
  <2>2. QED
    BY <1>2, <2>1 DEF Lock, Go, procs
<1>3. ASSUME NEW a \in Appenders, NEW e \in Entries, Prepare(a, e) PROVE WrittenInv'
  <2>1. UNCHANGED <<lines, inode>>
    BY <1>3 DEF Prepare, Go, ledger, file
  <2>2. QED
    BY <1>3, <2>1 DEF Prepare, Go, procs
<1>4. ASSUME NEW a \in Appenders, Recheck(a) PROVE WrittenInv'
  <2>1. UNCHANGED <<lines, inode>>
    BY <1>4 DEF Recheck, Go, ledger, file
  <2>2. QED
    BY <1>4, <2>1 DEF Recheck, Go, procs
<1>5. ASSUME NEW a \in Appenders, Refuse(a) PROVE WrittenInv'
  <2>1. UNCHANGED <<lines, inode>>
    BY <1>5 DEF Refuse, Close, ledger, file
  <2>2. QED
    BY <1>5, <2>1 DEF Refuse, Close, procs
<1>6. ASSUME NEW a \in Appenders, Write(a) PROVE WrittenInv'
  <2>1. UNCHANGED <<inode, fd, record>> /\ pc[a] = "write" /\ pc' = [pc EXCEPT ![a] = "sync"]
    BY <1>6 DEF Write, Go
  <2>2. /\ \/ ~SameFile(a) /\ lines' = lines
           \/ /\ SameFile(a) /\ Len(lines') = Len(lines) + 1
              /\ record[a].seq = Len(lines) + 1 /\ lines'[Len(lines) + 1] = record[a]
        /\ \A k \in 1..Len(lines) : lines'[k] = lines[k]
    BY <1>6, WriteEffect
  <2>3. ASSUME NEW b \in Appenders, pc[b]' \in {"sync", "syncdir"}, SameFile(b)'
        PROVE  /\ record[b].seq \in 1..Len(lines')
               /\ lines'[record[b].seq] = record[b]
    <3>1. Len(lines) \in Nat
      BY FileCounts
    <3>2. CASE b = a
      <4>1. SameFile(a)
        BY <2>1, <2>3, <3>2
      <4>2. Len(lines) + 1 \in 1..(Len(lines) + 1)
        BY <3>1
      <4>3. QED
        BY <2>2, <3>2, <4>1, <4>2
    <3>3. CASE b # a
      <4>1. record[b].seq \in 1..Len(lines) /\ lines[record[b].seq] = record[b]
        BY <2>1, <2>3, <3>3
      <4>2. Len(lines') = Len(lines) + 1 \/ Len(lines') = Len(lines)
        BY <2>2
      <4>3. record[b].seq \in 1..Len(lines')
        BY <3>1, <4>1, <4>2
      <4>4. QED
        BY <2>2, <4>1, <4>3
    <3>4. QED
      BY <3>2, <3>3
  <2>4. QED
    BY <2>1, <2>3
<1>7. ASSUME NEW a \in Appenders, WriteFails(a) PROVE WrittenInv'
  <2>1. UNCHANGED <<lines, inode>>
    BY <1>7 DEF WriteFails, Close, Stopped, ledger, file
  <2>2. QED
    BY <1>7, <2>1 DEF WriteFails, Close, Stopped, procs
<1>8. ASSUME NEW a \in Appenders, Sync(a) PROVE WrittenInv'
  <2>1. UNCHANGED <<lines, inode>>
    BY <1>8 DEF Sync, Go, ledger, file
  <2>2. QED
    BY <1>8, <2>1 DEF Sync, Go, procs
<1>9. ASSUME NEW a \in Appenders, SyncDir(a) PROVE WrittenInv'
  <2>1. UNCHANGED <<lines, inode>>
    BY <1>9 DEF SyncDir, Close, ledger, file
  <2>2. QED
    BY <1>9, <2>1 DEF SyncDir, Close, procs
<1>10. ASSUME NEW a \in Appenders, Fail(a) PROVE WrittenInv'
  <2>1. UNCHANGED <<lines, inode>>
    BY <1>10 DEF Fail, Close, Stopped, ledger, file
  <2>2. QED
    BY <1>10, <2>1 DEF Fail, Close, Stopped, procs
<1>11. ASSUME NEW a \in Appenders, Kill(a) PROVE WrittenInv'
  <2>1. UNCHANGED <<lines, inode>>
    BY <1>11 DEF Kill, Close, Stopped, ledger, file
  <2>2. QED
    BY <1>11, <2>1 DEF Kill, Close, Stopped, procs
<1>12. ASSUME Sign PROVE WrittenInv'
  <2>1. UNCHANGED <<lines, inode>>
    BY <1>12 DEF Sign, ledger, file
  <2>2. QED
    BY <1>12, <2>1 DEF Sign, procs
<1>13. ASSUME PowerLoss PROVE WrittenInv'
  <2>1. \A b \in Appenders : pc[b]' = "idle"
    BY <1>13, LossEffect
  <2>2. QED
    BY <2>1
<1>14. ASSUME Restore PROVE WrittenInv'
  <2>1. inode' = inode + 1 /\ UNCHANGED fd
    BY <1>14 DEF Restore, procs
  <2>2. ASSUME NEW b \in Appenders PROVE ~SameFile(b)'
    <3>1. fd[b] \in 0..inode /\ inode \in Nat
      OBVIOUS
    <3>2. QED
      BY <2>1, <3>1
  <2>3. QED
    BY <2>2
<1>15. CASE UNCHANGED vars
  BY <1>15 DEF vars, ledger, file, procs, bounds
<1>16. QED
  BY <1>1, <1>2, <1>3, <1>4, <1>5, <1>6, <1>7, <1>8, <1>9, <1>10, <1>11, <1>12, <1>13, <1>14, <1>15
  DEF Next, Step

LEMMA AckedStep == Typed /\ ReadyInv /\ WrittenInv /\ AckedInv /\ [Next]_vars => AckedInv'
<1> SUFFICES ASSUME Typed, ReadyInv, WrittenInv, AckedInv, [Next]_vars PROVE AckedInv'
  OBVIOUS
<1> USE DEF Typed, RestOK, AckedInv
<1>1. ASSUME NEW a \in Appenders, Open(a) PROVE AckedInv'
  <2>1. UNCHANGED <<lines, synced, acked, inode>>
    BY <1>1 DEF Open, Go, ledger, file
  <2>2. QED
    BY <2>1
<1>2. ASSUME NEW a \in Appenders, Lock(a) PROVE AckedInv'
  <2>1. UNCHANGED <<lines, synced, acked, inode>>
    BY <1>2 DEF Lock, Go, ledger, file
  <2>2. QED
    BY <2>1
<1>3. ASSUME NEW a \in Appenders, NEW e \in Entries, Prepare(a, e) PROVE AckedInv'
  <2>1. UNCHANGED <<lines, synced, acked, inode>>
    BY <1>3 DEF Prepare, Go, ledger, file
  <2>2. QED
    BY <2>1
<1>4. ASSUME NEW a \in Appenders, Recheck(a) PROVE AckedInv'
  <2>1. UNCHANGED <<lines, synced, acked, inode>>
    BY <1>4 DEF Recheck, Go, ledger, file
  <2>2. QED
    BY <2>1
<1>5. ASSUME NEW a \in Appenders, Refuse(a) PROVE AckedInv'
  <2>1. UNCHANGED <<lines, synced, acked, inode>>
    BY <1>5 DEF Refuse, Close, ledger, file
  <2>2. QED
    BY <2>1
<1>6. ASSUME NEW a \in Appenders, Write(a) PROVE AckedInv'
  <2>1. UNCHANGED <<synced, acked, inode>>
    BY <1>6 DEF Write
  <2>2. \A k \in 1..Len(lines) : lines'[k] = lines[k]
    BY <1>6, WriteEffect
  <2>3. 1..synced \subseteq 1..Len(lines)
    BY FileCounts
  <2>4. QED
    BY <2>1, <2>2, <2>3
<1>7. ASSUME NEW a \in Appenders, WriteFails(a) PROVE AckedInv'
  <2>1. UNCHANGED <<lines, synced, acked, inode>>
    BY <1>7 DEF WriteFails, Close, Stopped, ledger, file
  <2>2. QED
    BY <2>1
<1>8. ASSUME NEW a \in Appenders, Sync(a) PROVE AckedInv'
  <2>1. UNCHANGED <<lines, acked, inode>>
    BY <1>8 DEF Sync
  <2>2. 1..synced \subseteq 1..synced'
    BY <1>8, FileCounts DEF Sync
  <2>3. QED
    BY <2>1, <2>2
<1>9. ASSUME NEW a \in Appenders, SyncDir(a) PROVE AckedInv'
  <2> DEFINE new == [file |-> fd[a], record |-> record[a]]
  <2>1. UNCHANGED <<lines, inode>> /\ acked' = acked \cup {new} /\ pc[a] = "syncdir"
    BY <1>9 DEF SyncDir
  <2>2. synced' = IF SameFile(a) THEN Len(lines) ELSE synced
    BY <1>9 DEF SyncDir
  <2>3. 1..synced \subseteq 1..synced'
    BY <2>2, FileCounts
  <2>4. ASSUME new.file = inode
        PROVE  new.record.seq \in 1..synced' /\ lines[new.record.seq] = new.record
    <3>1. SameFile(a)
      BY <2>4 DEF SameFile
    <3>2. record[a].seq \in 1..Len(lines) /\ lines[record[a].seq] = record[a]
      BY <2>1, <3>1 DEF WrittenInv
    <3>3. QED
      BY <2>2, <3>1, <3>2
  <2> HIDE DEF new
  <2>5. QED
    BY <2>1, <2>3, <2>4
<1>10. ASSUME NEW a \in Appenders, Fail(a) PROVE AckedInv'
  <2>1. UNCHANGED <<lines, synced, acked, inode>>
    BY <1>10 DEF Fail, Close, Stopped, ledger, file
  <2>2. QED
    BY <2>1
<1>11. ASSUME NEW a \in Appenders, Kill(a) PROVE AckedInv'
  <2>1. UNCHANGED <<lines, synced, acked, inode>>
    BY <1>11 DEF Kill, Close, Stopped, ledger, file
  <2>2. QED
    BY <2>1
<1>12. ASSUME Sign PROVE AckedInv'
  <2>1. UNCHANGED <<lines, synced, acked, inode>>
    BY <1>12 DEF Sign, ledger, file
  <2>2. QED
    BY <2>1
<1>13. ASSUME PowerLoss PROVE AckedInv'
  <2>1. UNCHANGED acked /\ Len(lines') = synced'
    BY <1>13, LossEffect
  <2>2. CASE inode' = inode + 1
    BY <2>1, <2>2, NextFile
  <2>3. CASE /\ inode' = inode /\ synced' \in synced..Len(lines)
             /\ \A k \in 1..Len(lines') : lines'[k] = lines[k]
    <3>1. 1..synced \subseteq 1..synced'
      BY <2>1, <2>3, FileCounts
    <3>2. QED
      BY <2>1, <2>3, <3>1
  <2>4. QED
    BY <1>13, <2>2, <2>3, LossEffect
<1>14. ASSUME Restore PROVE AckedInv'
  <2>1. inode' = inode + 1 /\ UNCHANGED acked
    BY <1>14 DEF Restore
  <2>2. QED
    BY <2>1, NextFile
<1>15. CASE UNCHANGED vars
  BY <1>15 DEF vars, ledger, file, procs
<1>16. QED
  BY <1>1, <1>2, <1>3, <1>4, <1>5, <1>6, <1>7, <1>8, <1>9, <1>10, <1>11, <1>12, <1>13, <1>14, <1>15
  DEF Next, Step

LEMMA OwnStep == Typed /\ ReadyInv /\ OwnInv /\ [Next]_vars => OwnInv'
<1> SUFFICES ASSUME Typed, ReadyInv, OwnInv, [Next]_vars PROVE OwnInv'
  OBVIOUS
<1> USE DEF Typed, RestOK, OwnInv, SameFile
<1>1. ASSUME NEW a \in Appenders, Open(a) PROVE OwnInv'
  <2>1. UNCHANGED <<lines, synced, stops, inode>>
    BY <1>1 DEF Open, Go, ledger, file, bounds
  <2>2. \A b \in Appenders : pc[b] \in {"sync", "syncdir"} => pc'[b] = pc[b] /\ fd'[b] = fd[b]
    BY <1>1 DEF Open, Go, procs
  <2>3. QED
    BY <2>1, <2>2
<1>2. ASSUME NEW a \in Appenders, Lock(a) PROVE OwnInv'
  <2>1. UNCHANGED <<lines, synced, stops, inode>>
    BY <1>2 DEF Lock, Go, ledger, file, bounds
  <2>2. \A b \in Appenders : pc[b] \in {"sync", "syncdir"} => pc'[b] = pc[b] /\ fd'[b] = fd[b]
    BY <1>2 DEF Lock, Go, procs
  <2>3. QED
    BY <2>1, <2>2
<1>3. ASSUME NEW a \in Appenders, NEW e \in Entries, Prepare(a, e) PROVE OwnInv'
  <2>1. UNCHANGED <<lines, synced, stops, inode>>
    BY <1>3 DEF Prepare, Go, ledger, file, bounds
  <2>2. \A b \in Appenders : pc[b] \in {"sync", "syncdir"} => pc'[b] = pc[b] /\ fd'[b] = fd[b]
    BY <1>3 DEF Prepare, Go, procs
  <2>3. QED
    BY <2>1, <2>2
<1>4. ASSUME NEW a \in Appenders, Recheck(a) PROVE OwnInv'
  <2>1. UNCHANGED <<lines, synced, stops, inode>>
    BY <1>4 DEF Recheck, Go, ledger, file, bounds
  <2>2. \A b \in Appenders : pc[b] \in {"sync", "syncdir"} => pc'[b] = pc[b] /\ fd'[b] = fd[b]
    BY <1>4 DEF Recheck, Go, procs
  <2>3. QED
    BY <2>1, <2>2
<1>5. ASSUME NEW a \in Appenders, Refuse(a) PROVE OwnInv'
  <2>1. UNCHANGED <<lines, synced, stops, inode>>
    BY <1>5 DEF Refuse, Close, ledger, file, bounds
  <2>2. \A b \in Appenders : pc[b] \in {"sync", "syncdir"} => pc'[b] = pc[b] /\ fd'[b] = fd[b]
    BY <1>5 DEF Refuse, Close, procs
  <2>3. QED
    BY <2>1, <2>2
<1>6. ASSUME NEW a \in Appenders, Write(a) PROVE OwnInv'
  <2>1. UNCHANGED <<synced, inode, fd, stops>> /\ pc[a] = "write" /\ pc' = [pc EXCEPT ![a] = "sync"]
    BY <1>6 DEF Write, Go, bounds
  <2>2. CASE SameFile(a)
    BY <2>1, <2>2
  <2>3. CASE ~SameFile(a)
    <3>1. UNCHANGED lines
      BY <1>6, <2>3 DEF Write
    <3>2. QED
      BY <2>1, <3>1
  <2>4. QED
    BY <2>2, <2>3
<1>7. ASSUME NEW a \in Appenders, WriteFails(a) PROVE OwnInv'
  <2>1. stops' # 0
    BY <1>7 DEF WriteFails, Close, Stopped, ledger, file
  <2>2. QED
    BY <2>1
<1>8. ASSUME NEW a \in Appenders, Sync(a) PROVE OwnInv'
  <2>1. /\ UNCHANGED <<lines, inode, fd, stops>>
        /\ synced' = IF SameFile(a) /\ linked THEN Len(lines) ELSE synced
    BY <1>8 DEF Sync, bounds
  <2>2. pc[a] = "sync" /\ pc' = [pc EXCEPT ![a] = "syncdir"]
    BY <1>8 DEF Sync, Go
  <2>3. QED
    BY <2>1, <2>2
<1>9. ASSUME NEW a \in Appenders, SyncDir(a) PROVE OwnInv'
  <2>1. /\ UNCHANGED <<lines, inode, stops>>
        /\ synced' = IF SameFile(a) THEN Len(lines) ELSE synced
    BY <1>9 DEF SyncDir, bounds
  <2>2. pc' = [pc EXCEPT ![a] = "idle"] /\ fd' = [fd EXCEPT ![a] = 0]
    BY <1>9 DEF SyncDir, Close
  <2>3. QED
    BY <2>1, <2>2
<1>10. ASSUME NEW a \in Appenders, Fail(a) PROVE OwnInv'
  <2>1. stops' # 0
    BY <1>10 DEF Fail, Close, Stopped, ledger, file
  <2>2. QED
    BY <2>1
<1>11. ASSUME NEW a \in Appenders, Kill(a) PROVE OwnInv'
  <2>1. stops' # 0
    BY <1>11 DEF Kill, Close, Stopped, ledger, file
  <2>2. QED
    BY <2>1
<1>12. ASSUME Sign PROVE OwnInv'
  <2>1. UNCHANGED <<lines, synced, stops, inode>>
    BY <1>12 DEF Sign, ledger, file, bounds
  <2>2. \A b \in Appenders : pc[b] \in {"sync", "syncdir"} => pc'[b] = pc[b] /\ fd'[b] = fd[b]
    BY <1>12 DEF Sign, procs
  <2>3. QED
    BY <2>1, <2>2
<1>13. ASSUME PowerLoss PROVE OwnInv'
  BY <1>13, LossEffect
<1>14. ASSUME Restore PROVE OwnInv'
  BY <1>14 DEF Restore
<1>15. CASE UNCHANGED vars
  BY <1>15 DEF vars, ledger, file, procs, bounds
<1>16. QED
  BY <1>1, <1>2, <1>3, <1>4, <1>5, <1>6, <1>7, <1>8, <1>9, <1>10, <1>11, <1>12, <1>13, <1>14, <1>15
  DEF Next, Step

-----------------------------------------------------------------------------
(* Checkpoints.                                                                *)

\* What signing adds to the checkpoints.
LEMMA SignEffect ==
  ASSUME Typed, Sign
  PROVE  /\ Verify /\ Len(lines) \in 1..MaxRecords
         /\ \E new : /\ checkpoints' = checkpoints \cup {new}
                     /\ new.seq = Len(lines) /\ new.history = lines
                     /\ new.tail = Digest(lines[Len(lines)]) /\ new.file = inode
<1>1. Verify /\ lines # <<>>
  BY DEF Sign
<1>2. Len(lines) \in 1..MaxRecords
  BY <1>1, EmptySeq, FileCounts DEF Typed
<1>3. checkpoints' = checkpoints \cup {Checkpoint}
  BY DEF Sign
<1>4. /\ Checkpoint.seq = Len(lines) /\ Checkpoint.history = lines
      /\ Checkpoint.tail = Digest(lines[Len(lines)]) /\ Checkpoint.file = inode
  BY DEF Checkpoint, Last
<1>5. QED
  BY <1>1, <1>2, <1>3, <1>4

LEMMA SignedStep == Typed /\ SignedInv /\ [Next]_vars => SignedInv'
<1> SUFFICES ASSUME Typed, SignedInv, [Next]_vars PROVE SignedInv'
  OBVIOUS
<1> USE DEF SignedInv
<1>1. ASSUME NEW a \in Appenders, Open(a) PROVE SignedInv'
  BY <1>1 DEF Open, Go
<1>2. ASSUME NEW a \in Appenders, Lock(a) PROVE SignedInv'
  BY <1>2 DEF Lock, Go
<1>3. ASSUME NEW a \in Appenders, NEW e \in Entries, Prepare(a, e) PROVE SignedInv'
  BY <1>3 DEF Prepare, Go
<1>4. ASSUME NEW a \in Appenders, Recheck(a) PROVE SignedInv'
  BY <1>4 DEF Recheck, Go
<1>5. ASSUME NEW a \in Appenders, Refuse(a) PROVE SignedInv'
  BY <1>5 DEF Refuse, Close
<1>6. ASSUME NEW a \in Appenders, Write(a) PROVE SignedInv'
  BY <1>6 DEF Write, Go
<1>7. ASSUME NEW a \in Appenders, WriteFails(a) PROVE SignedInv'
  BY <1>7 DEF WriteFails, Close, Stopped
<1>8. ASSUME NEW a \in Appenders, Sync(a) PROVE SignedInv'
  BY <1>8 DEF Sync, Go
<1>9. ASSUME NEW a \in Appenders, SyncDir(a) PROVE SignedInv'
  BY <1>9 DEF SyncDir, Close
<1>10. ASSUME NEW a \in Appenders, Fail(a) PROVE SignedInv'
  BY <1>10 DEF Fail, Close, Stopped
<1>11. ASSUME NEW a \in Appenders, Kill(a) PROVE SignedInv'
  BY <1>11 DEF Kill, Close, Stopped
<1>12. ASSUME Sign PROVE SignedInv'
  <2>1. PICK new : /\ checkpoints' = checkpoints \cup {new}
                   /\ new.seq = Len(lines) /\ new.history = lines
                   /\ new.tail = Digest(lines[Len(lines)])
    BY <1>12, SignEffect
  <2>2. lines \in Seq(Range(lines)) /\ Len(lines) \in 1..MaxRecords /\ Linked(lines)
    BY <1>12, SignEffect, FileCounts DEF Typed, Verify
  <2>3. QED
    BY <2>1, <2>2
<1>13. ASSUME PowerLoss PROVE SignedInv'
  BY <1>13 DEF PowerLoss
<1>14. ASSUME Restore PROVE SignedInv'
  BY <1>14 DEF Restore
<1>15. CASE UNCHANGED vars
  BY <1>15 DEF vars, ledger, file, procs, bounds
<1>16. QED
  BY <1>1, <1>2, <1>3, <1>4, <1>5, <1>6, <1>7, <1>8, <1>9, <1>10, <1>11, <1>12, <1>13, <1>14, <1>15
  DEF Next, Step

LEMMA KeptStep == Typed /\ ReadyInv /\ OwnInv /\ KeptInv /\ [Next]_vars => KeptInv'
<1> SUFFICES ASSUME Typed, ReadyInv, OwnInv, KeptInv, [Next]_vars PROVE KeptInv'
  OBVIOUS
<1> USE DEF Typed, RestOK, KeptInv
<1>1. ASSUME NEW a \in Appenders, Open(a) PROVE KeptInv'
  <2>1. UNCHANGED <<lines, synced, checkpoints, stops, losses, inode>>
    BY <1>1 DEF Open, Go, ledger, file, bounds
  <2>2. QED
    BY <2>1
<1>2. ASSUME NEW a \in Appenders, Lock(a) PROVE KeptInv'
  <2>1. UNCHANGED <<lines, synced, checkpoints, stops, losses, inode>>
    BY <1>2 DEF Lock, Go, ledger, file, bounds
  <2>2. QED
    BY <2>1
<1>3. ASSUME NEW a \in Appenders, NEW e \in Entries, Prepare(a, e) PROVE KeptInv'
  <2>1. UNCHANGED <<lines, synced, checkpoints, stops, losses, inode>>
    BY <1>3 DEF Prepare, Go, ledger, file, bounds
  <2>2. QED
    BY <2>1
<1>4. ASSUME NEW a \in Appenders, Recheck(a) PROVE KeptInv'
  <2>1. UNCHANGED <<lines, synced, checkpoints, stops, losses, inode>>
    BY <1>4 DEF Recheck, Go, ledger, file, bounds
  <2>2. QED
    BY <2>1
<1>5. ASSUME NEW a \in Appenders, Refuse(a) PROVE KeptInv'
  <2>1. UNCHANGED <<lines, synced, checkpoints, stops, losses, inode>>
    BY <1>5 DEF Refuse, Close, ledger, file, bounds
  <2>2. QED
    BY <2>1
<1>6. ASSUME NEW a \in Appenders, Write(a) PROVE KeptInv'
  <2>1. UNCHANGED <<synced, checkpoints, stops, losses, inode>>
    BY <1>6 DEF Write, bounds
  <2>2. /\ \A k \in 1..Len(lines) : lines'[k] = lines[k]
        /\ Len(lines') = Len(lines) \/ Len(lines') = Len(lines) + 1
        /\ Linked(lines) => Linked(lines')
    BY <1>6, WriteEffect
  <2>3. 1..Len(lines) \subseteq 1..Len(lines')
    BY <2>2, FileCounts
  <2>4. QED
    BY <2>1, <2>2, <2>3
<1>7. ASSUME NEW a \in Appenders, WriteFails(a) PROVE KeptInv'
  <2>1. UNCHANGED <<lines, checkpoints, losses, inode>> /\ stops' # 0
    BY <1>7 DEF WriteFails, Close, Stopped, ledger, file
  <2>2. QED
    BY <2>1
<1>8. ASSUME NEW a \in Appenders, Sync(a) PROVE KeptInv'
  <2>1. UNCHANGED <<lines, checkpoints, stops, losses, inode>>
    BY <1>8 DEF Sync, Go, bounds
  <2>2. synced' = Len(lines) \/ synced' = synced
    BY <1>8 DEF Sync, Go
  <2>3. QED
    BY <2>1, <2>2, FileCounts
<1>9. ASSUME NEW a \in Appenders, SyncDir(a) PROVE KeptInv'
  <2>1. UNCHANGED <<lines, checkpoints, stops, losses, inode>>
    BY <1>9 DEF SyncDir, Close, bounds
  <2>2. synced' = Len(lines) \/ synced' = synced
    BY <1>9 DEF SyncDir, Close
  <2>3. QED
    BY <2>1, <2>2, FileCounts
<1>10. ASSUME NEW a \in Appenders, Fail(a) PROVE KeptInv'
  <2>1. UNCHANGED <<lines, checkpoints, losses, inode>> /\ stops' # 0
    BY <1>10 DEF Fail, Close, Stopped, ledger, file
  <2>2. QED
    BY <2>1
<1>11. ASSUME NEW a \in Appenders, Kill(a) PROVE KeptInv'
  <2>1. UNCHANGED <<lines, checkpoints, losses, inode>> /\ stops' # 0
    BY <1>11 DEF Kill, Close, Stopped, ledger, file
  <2>2. QED
    BY <2>1
<1>12. ASSUME Sign PROVE KeptInv'
  <2>1. UNCHANGED <<lines, synced, stops, losses, inode>>
    BY <1>12 DEF Sign, ledger, file, bounds
  <2>2. PICK new : /\ checkpoints' = checkpoints \cup {new}
                   /\ new.seq = Len(lines) /\ new.history = lines
                   /\ new.tail = Digest(lines[Len(lines)]) /\ new.file = inode
    BY <1>12, SignEffect
  <2>3. Len(lines) \in 1..Len(lines) /\ Linked(lines)
    BY <1>12, SignEffect DEF Verify
  <2>4. \A a \in Appenders : pc[a] \in {"sync", "syncdir"} => ~SameFile(a)
    BY <1>12 DEF Sign, Locked, Steps
  <2>5. stops = 0 => Len(lines) <= synced
    BY <2>4, FileCounts DEF OwnInv
  <2>6. QED
    BY <2>1, <2>2, <2>3, <2>5
<1>13. ASSUME PowerLoss PROVE KeptInv'
  <2>1. losses' = losses + 1 /\ UNCHANGED <<checkpoints, stops>> /\ Len(lines') = synced'
    BY <1>13, LossEffect
  <2>2. losses' # 0
    BY <2>1
  <2> SUFFICES ASSUME stops = 0, NEW c \in checkpoints, c.file = inode'
               PROVE  /\ Linked(lines')
                      /\ c.seq \in 1..Len(lines') /\ Digest(lines'[c.seq]) = c.tail
                      /\ c.seq <= synced'
    BY <2>1, <2>2
  <2>3. inode' # inode + 1
    BY NextFile
  <2>4. /\ inode' = inode /\ synced' \in synced..Len(lines)
        /\ \A k \in 1..Len(lines') : lines'[k] = lines[k]
        /\ Linked(lines) => Linked(lines')
    BY <1>13, <2>3, LossEffect
  <2>5. /\ Linked(lines)
        /\ c.seq \in 1..Len(lines) /\ Digest(lines[c.seq]) = c.tail /\ c.seq <= synced
    BY <2>4
  <2>6. c.seq \in 1..Len(lines') /\ c.seq <= synced'
    BY <2>1, <2>4, <2>5, FileCounts
  <2>7. QED
    BY <2>4, <2>5, <2>6
<1>14. ASSUME Restore PROVE KeptInv'
  <2>1. inode' = inode + 1 /\ UNCHANGED checkpoints
    BY <1>14 DEF Restore
  <2>2. QED
    BY <2>1, NextFile
<1>15. CASE UNCHANGED vars
  BY <1>15 DEF vars, ledger, file, procs, bounds
<1>16. QED
  BY <1>1, <1>2, <1>3, <1>4, <1>5, <1>6, <1>7, <1>8, <1>9, <1>10, <1>11, <1>12, <1>13, <1>14, <1>15
  DEF Next, Step

-----------------------------------------------------------------------------
(* The theorems.                                                               *)

LEMMA InvariantInit == Init => IInv
<1> SUFFICES ASSUME Init PROVE IInv
  OBVIOUS
<1>1. Typed
  BY InitType
<1>2. LockInv /\ ReadyInv /\ WrittenInv
  BY DEF Init, LockInv, ReadyInv, WrittenInv, Locked, Steps
<1>3. AckedInv /\ SignedInv /\ KeptInv
  BY DEF Init, AckedInv, SignedInv, KeptInv
<1>4. OwnInv
  <2>1. Len(lines) = 0 /\ synced = 0
    BY EmptySeq DEF Init
  <2>2. QED
    BY <2>1 DEF OwnInv
<1>5. QED
  BY <1>1, <1>2, <1>3, <1>4 DEF IInv

LEMMA InvariantStep == IInv /\ [Next]_vars => IInv'
BY TypeStep, LockStep, ReadyStep, WrittenStep, AckedStep, OwnStep, SignedStep, KeptStep
DEF IInv

\* The inductive invariant holds in every state of the ledger and its commands.
LEMMA Invariant == Spec => []IInv
BY InvariantInit, InvariantStep, PTL DEF Spec

\* Every variable keeps its type, for any number of append commands, records,
\* kills, failing calls, power losses and restores.
THEOREM TypeCorrect == Spec => []TypeOK
<1>1. IInv => TypeOK
  BY TypeParts DEF IInv
<1>2. QED
  BY <1>1, Invariant, PTL

\* A ledger that verifies against a checkpoint is the signed one up to the
\* checkpoint, however many copies were put in its place.
THEOREM CheckpointsBind == Spec => []CheckpointBinds
<1>1. IInv => CheckpointBinds
  <2> SUFFICES ASSUME IInv, NEW c \in checkpoints, Accepts(c)
               PROVE  SubSeq(lines, 1, c.seq) = c.history
    BY DEF CheckpointBinds
  <2>1. /\ c.history \in Seq(Range(c.history))
        /\ c.seq \in 1..MaxRecords /\ Len(c.history) = c.seq
        /\ Linked(c.history)
        /\ c.tail = Digest(c.history[c.seq])
    BY DEF IInv, SignedInv
  <2>2. Linked(lines) /\ Len(lines) >= c.seq /\ lines[c.seq] = c.history[c.seq]
    BY <2>1, DigestBinds DEF Accepts, Verify
  <2>3. lines \in Seq(Range(lines)) /\ Len(lines) \in Nat /\ MaxRecords \in Nat
    BY FileCounts DEF IInv, Typed
  <2>4. Len(c.history) \in 1..Len(lines)
    BY <2>1, <2>2, <2>3
  <2>5. QED
    BY <2>1, <2>2, <2>3, <2>4, ChainBinds
<1>2. QED
  BY <1>1, Invariant, PTL

\* A record whose append reported success stays in its file, on disk, while the
\* ledger's path names that file.
THEOREM AckedStays == Spec => []AckedIsInLedger
<1>1. IInv => AckedIsInLedger
  <2> SUFFICES ASSUME IInv, NEW x \in acked, x.file = inode
               PROVE  x.record.seq <= synced /\ lines[x.record.seq] = x.record
    BY DEF AckedIsInLedger
  <2>1. /\ x.record.seq \in 1..synced /\ lines[x.record.seq] = x.record
        /\ synced \in 0..Len(lines)
    BY DEF IInv, AckedInv, Typed, RestOK
  <2>2. Len(lines) \in Nat
    BY FileCounts DEF IInv, Typed
  <2>3. QED
    BY <2>1, <2>2
<1>2. QED
  BY <1>1, Invariant, PTL

\* A checkpoint keeps accepting the ledger it was signed over, under the
\* exceptions the property names.
THEOREM CheckpointsKeep == Spec => []CheckpointsStayValid
<1>1. IInv => CheckpointsStayValid
  <2> SUFFICES ASSUME IInv, torn = "no", stops = 0 \/ losses = 0,
                      NEW c \in checkpoints, c.file = inode
               PROVE  Accepts(c)
    BY DEF CheckpointsStayValid
  <2>1. Linked(lines)
    BY DEF IInv, KeptInv
  <2>2. c.seq \in 1..Len(lines) /\ Digest(lines[c.seq]) = c.tail
    BY DEF IInv, KeptInv
  <2>3. Len(lines) \in Nat
    BY FileCounts DEF IInv, Typed
  <2>4. QED
    BY <2>1, <2>2, <2>3 DEF Accepts, Verify
<1>2. QED
  BY <1>1, Invariant, PTL

\* A step in which the file at the path stays the same.
LEMMA FileStep ==
  ASSUME IInv, [Next]_vars, inode' = inode
  PROVE  \/ UNCHANGED lines
         \/ losses' # losses /\ Len(lines') <= Len(lines)
         \/ \E a \in Appenders :
              /\ Write(a) /\ torn = "no" /\ Linked(lines)
              /\ lines' = Append(lines, record[a]) /\ Linked(lines')
<1>1. ASSUME PowerLoss PROVE losses' # losses /\ Len(lines') <= Len(lines)
  <2>1. Typed /\ inode' # inode + 1
    BY BoundsAssumption DEF IInv, Typed, RestOK
  <2>2. losses' = losses + 1 /\ synced' \in synced..Len(lines) /\ Len(lines') = synced'
    BY <1>1, <2>1, LossEffect
  <2>3. losses \in Nat /\ Len(lines) \in Nat /\ synced \in Nat
    BY <2>1, FileCounts, BoundsAssumption DEF Typed, RestOK
  <2>4. QED
    BY <2>2, <2>3
<1>2. ~Restore
  <2>1. inode \in Nat
    BY BoundsAssumption DEF IInv, Typed, RestOK
  <2>2. QED
    BY <2>1 DEF Restore
<1>3. ASSUME NEW a \in Appenders, Write(a), lines' # lines
      PROVE  /\ torn = "no" /\ Linked(lines)
             /\ lines' = Append(lines, record[a]) /\ Linked(lines')
  <2>1. pc[a] = "write" /\ SameFile(a) /\ lines' = Append(lines, record[a])
    BY <1>3 DEF Write, Go
  <2>2. QED
    BY <2>1, ReadyAppend DEF IInv
<1>4. ASSUME NEW a \in Appenders, Step(a), ~Write(a) PROVE UNCHANGED lines
  BY <1>4 DEF Step, Open, Lock, Prepare, Recheck, Refuse, WriteFails, Sync, SyncDir,
              Fail, Kill, ledger, file
<1>5. ASSUME Sign PROVE UNCHANGED lines
  BY <1>5 DEF Sign, ledger, file
<1>6. CASE UNCHANGED vars
  BY <1>6 DEF vars, ledger, file
<1>7. QED
  BY <1>1, <1>2, <1>3, <1>4, <1>5, <1>6 DEF Next

\* Appending extends only a ledger that verifies, and leaves one that verifies.
THEOREM ExtensionsVerify == Spec => ExtensionVerifies
<1> DEFINE A == inode' = inode /\ Len(lines') > Len(lines) => Verify /\ Linked(lines')
<1>1. IInv /\ [Next]_vars => A
  <2> SUFFICES ASSUME IInv, [Next]_vars, inode' = inode, Len(lines') > Len(lines)
               PROVE  Verify /\ Linked(lines')
    OBVIOUS
  <2>1. Len(lines) \in Nat
    BY FileCounts DEF IInv, Typed
  <2>2. IInv'
    BY InvariantStep
  <2>3. Len(lines') \in Nat
    BY <2>2, FileCounts DEF IInv, Typed
  <2>4. ~(Len(lines') <= Len(lines)) /\ lines' # lines
    BY <2>1, <2>3
  <2>5. QED
    BY <2>4, FileStep DEF Verify
<1>2. QED
  BY <1>1, Invariant, PTL DEF Spec, ExtensionVerifies

\* Short of a power loss a file only grows, and never behind an incomplete
\* record.
THEOREM LedgerIsNeverRewritten == Spec => NeverRewritten
<1> DEFINE A == inode' = inode /\ losses' = losses =>
                  /\ IsPrefix(lines, lines')
                  /\ torn # "no" => lines' = lines /\ torn' = torn
<1>1. IInv /\ [Next]_vars => A
  <2> SUFFICES ASSUME IInv, [Next]_vars, inode' = inode, losses' = losses
               PROVE  /\ IsPrefix(lines, lines')
                      /\ torn # "no" => lines' = lines /\ torn' = torn
    OBVIOUS
  <2>1. lines \in Seq(Range(lines))
    BY DEF IInv, Typed, FileOK
  <2>2. \/ UNCHANGED lines
        \/ \E a \in Appenders : torn = "no" /\ lines' = Append(lines, record[a])
    BY FileStep
  <2>3. IsPrefix(lines, lines')
    BY <2>1, <2>2, GrowsByOne
  <2>4. torn # "no" => torn' = torn
    <3> SUFFICES ASSUME torn # "no" PROVE torn' = torn
      OBVIOUS
    <3>1. ~PowerLoss
      <4>1. losses \in Nat
        BY BoundsAssumption DEF IInv, Typed, RestOK
      <4>2. QED
        BY <4>1 DEF PowerLoss
    <3>2. ~Restore
      <4>1. inode \in Nat
        BY BoundsAssumption DEF IInv, Typed, RestOK
      <4>2. QED
        BY <4>1 DEF Restore
    <3>3. ASSUME NEW a \in Appenders, WriteFails(a) PROVE torn' = torn
      <4>1. pc[a] = "write" /\ torn' \in {torn, IF SameFile(a) THEN "cached" ELSE torn}
        BY <3>3 DEF WriteFails
      <4>2. ~SameFile(a)
        BY <4>1, ReadyAppend DEF IInv
      <4>3. QED
        BY <4>1, <4>2
    <3>4. ASSUME NEW a \in Appenders, Step(a), ~WriteFails(a) PROVE torn' = torn
      BY <3>4 DEF Step, Open, Lock, Prepare, Recheck, Refuse, Write, Sync, SyncDir,
                  Fail, Kill, ledger, file
    <3>5. Sign \/ UNCHANGED vars => torn' = torn
      BY DEF Sign, vars, ledger, file
    <3>6. QED
      BY <3>1, <3>2, <3>3, <3>4, <3>5 DEF Next
  <2>5. QED
    BY <2>2, <2>3, <2>4
<1>2. QED
  BY <1>1, Invariant, PTL DEF Spec, NeverRewritten
=============================================================================
