------------------------ MODULE SignatureStoreProofs ------------------------
(* What holds of the candidate store for any number of candidates, scans,      *)
(* operators and kills. The invariant adds to the properties what a command    *)
(* knows between its steps: an operator that has come to the removal has its   *)
(* decision on disk, whoever else ran in between, and one that works alone on  *)
(* a candidate still finds the record it has read.                             *)
EXTENDS SignatureStore, TLAPS

ScanInv == \A s \in Scanners : cur[s] # None => scan[s] # None

JobInv == \A o \in Operators :
  /\ pc[o] # "idle" => job[o] # None
  /\ pc[o] = "remove" => Decision(o) = job[o].at

AloneInv == \A o \in Operators : pc[o] # "idle" /\ job[o].id \notin contended =>
  /\ Candidate(job[o].id) = job[o].at
  /\ \A p \in Operators : pc[p] # "idle" /\ job[p].id = job[o].id => p = o

IInv == TypeOK /\ ScanInv /\ JobInv /\ AloneInv /\ NothingVanishes /\ ReportsAreTrue

Kept(d, id) ==
  records[d][id] # None =>
    records'[d][id] \in {records[d][id]} \cup (IF d = "candidates" THEN {None} ELSE {})

-----------------------------------------------------------------------------
\* A Put changes the one record it names.
LEMMA PutOne ==
  ASSUME TypeOK, NEW d \in Dirs, NEW id \in Ids, NEW at \in Times \cup {None},
         Put(d, id, at)
  PROVE  /\ records' \in [Dirs -> [Ids -> Times \cup {None}]]
         /\ records'[d][id] = at
         /\ \A e \in Dirs, i \in Ids : <<e, i>> # <<d, id>> => records'[e][i] = records[e][i]
<1>1. records \in [Dirs -> [Ids -> Times \cup {None}]]
  BY DEF TypeOK
<1>2. records' = [records EXCEPT ![d] = [records[d] EXCEPT ![id] = at]]
  BY DEF Put
<1>3. records[d] \in [Ids -> Times \cup {None}]
  BY <1>1
<1>4. [records[d] EXCEPT ![id] = at] \in [Ids -> Times \cup {None}]
  BY <1>3
<1>5. /\ records'[d] = [records[d] EXCEPT ![id] = at]
      /\ \A e \in Dirs : e # d => records'[e] = records[e]
  BY <1>1, <1>2
<1>6. records' \in [Dirs -> [Ids -> Times \cup {None}]]
  BY <1>1, <1>2, <1>4
<1>7. /\ records'[d][id] = at
      /\ \A i \in Ids : i # id => records'[d][i] = records[d][i]
  BY <1>3, <1>5
<1>8. QED
  BY <1>5, <1>6, <1>7

LEMMA NoneApart ==
  /\ None \notin Ids /\ None \notin Times /\ None \notin Jobs
  /\ None \notin Scans /\ None \notin Drafts
BY NoneAssumption

\* What the steps of an operator know about its job.
LEMMA JobType ==
  ASSUME IInv, NEW o \in Operators, pc[o] # "idle"
  PROVE  job[o] \in Jobs /\ job[o].id \in Ids /\ job[o].to \in Verdicts /\ job[o].at \in Times
<1>1. job[o] \in Jobs
  BY DEF IInv, JobInv, TypeOK
<1>2. QED
  BY <1>1 DEF Jobs

LEMMA ScanType ==
  ASSUME IInv, NEW s \in Scanners, scan[s] # None
  PROVE  /\ scan[s] \in Scans /\ scan[s].at \in Times
         /\ scan[s].todo \subseteq Ids
<1>1. scan[s] \in Scans
  BY DEF IInv, TypeOK
<1>2. QED
  BY <1>1 DEF Scans

-----------------------------------------------------------------------------
\* The initial state satisfies the invariant.
THEOREM InitIInv == Init => IInv
<1> SUFFICES ASSUME Init PROVE IInv
  OBVIOUS
<1> USE DEF Init
<1>1. TypeOK
  <2>1. records \in [Dirs -> [Ids -> Times \cup {None}]]
    OBVIOUS
  <2>2. generated \in [Targets -> SUBSET Entries]
    OBVIOUS
  <2>3. scan \in [Scanners -> Scans \cup {None}] /\ cur \in [Scanners -> Ids \cup {None}]
    OBVIOUS
  <2>4. /\ job \in [Operators -> Jobs \cup {None}]
        /\ pc \in [Operators -> {"idle", "link", "remove"}]
        /\ draft \in [Exporters -> Drafts \cup {None}]
    OBVIOUS
  <2>5. scans \in 0 .. MaxScans /\ kills \in 0 .. MaxKills
    BY BoundsAssumption
  <2>6. QED
    BY <2>1, <2>2, <2>3, <2>4, <2>5 DEF TypeOK
<1>2. ScanInv /\ JobInv /\ AloneInv /\ NothingVanishes /\ ReportsAreTrue
  BY DEF ScanInv, JobInv, AloneInv, NothingVanishes, ReportsAreTrue
<1>3. QED
  BY <1>1, <1>2 DEF IInv

\* The types, action by action.
LEMMA TypeStep == IInv /\ [Next]_vars => TypeOK'
<1> SUFFICES ASSUME IInv, [Next]_vars PROVE TypeOK'
  OBVIOUS
<1>t. TypeOK
  BY DEF IInv
<1> USE <1>t, NoneApart
<1>1. ASSUME NEW s \in Scanners, NEW ids \in SUBSET Ids, Detect(s, ids) PROVE TypeOK'
  <2>1. scans + 1 \in Times /\ scans' \in 0 .. MaxScans
    BY <1>1, BoundsAssumption DEF Detect, TypeOK, Times
  <2>2. [at |-> scans + 1, todo |-> ids] \in Scans
    BY <2>1 DEF Scans
  <2>3. scan' \in [Scanners -> Scans \cup {None}]
    BY <1>1, <2>2 DEF Detect, TypeOK
  <2>4. QED
    BY <1>1, <2>1, <2>3 DEF Detect, TypeOK, deciding, history
<1>2. ASSUME NEW s \in Scanners, NEW id \in Ids, Look(s, id) PROVE TypeOK'
  BY <1>2 DEF Look, TypeOK, deciding, history, bounds
<1>3. ASSUME NEW s \in Scanners, Link(s) PROVE TypeOK'
  <2>1. cur[s] \in Ids /\ scan[s] # None
    BY <1>3 DEF Link, IInv, ScanInv, TypeOK
  <2>2. scan[s] \in Scans /\ scan[s].at \in Times
    BY <2>1, ScanType
  <2>3. records' \in [Dirs -> [Ids -> Times \cup {None}]]
    BY <1>3, <2>1, <2>2, PutOne DEF Link, Dirs
  <2>4. [scan[s] EXCEPT !.todo = @ \ {cur[s]}] \in Scans
    BY <2>2 DEF Scans
  <2>5. scan' \in [Scanners -> Scans \cup {None}] /\ cur' \in [Scanners -> Ids \cup {None}]
    BY <1>3, <2>4 DEF Link, TypeOK
  <2>6. recorded' \subseteq Entries
    BY <1>3, <2>1, <2>2 DEF Link, TypeOK, Entries
  <2>7. QED
    BY <1>3, <2>3, <2>5, <2>6 DEF Link, TypeOK, deciding, bounds
<1>4. ASSUME NEW s \in Scanners, EndScan(s) PROVE TypeOK'
  <2>1. scan[s].todo \subseteq Ids
    BY <1>4, ScanType DEF EndScan, Ends
  <2>2. QED
    BY <1>4, <2>1 DEF EndScan, TypeOK, deciding, bounds
<1>5. ASSUME NEW o \in Operators, NEW id \in Ids, NEW to \in Verdicts, Read(o, id, to)
      PROVE  TypeOK'
  <2>1. Candidate(id) \in Times
    BY <1>5 DEF Read, Candidate, TypeOK, Dirs
  <2>2. [id |-> id, to |-> to, at |-> Candidate(id)] \in Jobs
    BY <2>1 DEF Jobs
  <2>3. /\ job' \in [Operators -> Jobs \cup {None}]
        /\ pc' \in [Operators -> {"idle", "link", "remove"}]
    BY <1>5, <2>2 DEF Read, Go, TypeOK
  <2>4. contended' \subseteq Ids
    BY <1>5 DEF Read, Contends, TypeOK
  <2>5. QED
    BY <1>5, <2>3, <2>4 DEF Read, TypeOK, scanning, bounds
<1>6. ASSUME NEW o \in Operators, Commit(o) PROVE TypeOK'
  <2>1. records' \in [Dirs -> [Ids -> Times \cup {None}]]
    <3>1. /\ job[o].id \in Ids /\ job[o].to \in Verdicts /\ job[o].at \in Times
          /\ Put(job[o].to, job[o].id, job[o].at)
      BY <1>6, JobType DEF Commit, Go
    <3>2. QED
      BY <3>1, PutOne DEF Dirs
  <2>2. pc' \in [Operators -> {"idle", "link", "remove"}]
    BY <1>6 DEF Commit, Go, TypeOK
  <2>3. QED
    BY <1>6, <2>1, <2>2 DEF Commit, TypeOK, scanning, history, bounds
<1>7. ASSUME NEW o \in Operators, Confirm(o) PROVE TypeOK'
  BY <1>7 DEF Confirm, TypeOK, scanning, history, bounds
<1>8. ASSUME NEW o \in Operators, Refuse(o) PROVE TypeOK'
  BY <1>8 DEF Refuse, Stop, TypeOK, scanning, history, bounds
<1>9. ASSUME NEW o \in Operators, Remove(o) PROVE TypeOK'
  <2>1. records' \in [Dirs -> [Ids -> Times \cup {None}]]
    <3>1. job[o].id \in Ids /\ Put("candidates", job[o].id, None)
      BY <1>9, JobType DEF Remove
    <3>2. QED
      BY <3>1, PutOne DEF Dirs
  <2>2. reported' \subseteq Jobs
    BY <1>9, JobType DEF Remove, TypeOK
  <2>3. /\ job' \in [Operators -> Jobs \cup {None}]
        /\ pc' \in [Operators -> {"idle", "link", "remove"}]
    BY <1>9 DEF Remove, Stop, TypeOK
  <2>4. QED
    BY <1>9, <2>1, <2>2, <2>3 DEF Remove, TypeOK, scanning, bounds
<1>10. ASSUME NEW e \in Exporters, NEW t \in Targets, List(e, t) PROVE TypeOK'
  <2>1. [target |-> t, entries |-> Publishable(t)] \in Drafts
    BY DEF Publishable, Drafts
  <2>2. draft' \in [Exporters -> Drafts \cup {None}]
    BY <1>10, <2>1 DEF List, TypeOK
  <2>3. QED
    BY <1>10, <2>2 DEF List, TypeOK, scanning, deciding, bounds, history
<1>11. ASSUME NEW e \in Exporters, Replace(e) PROVE TypeOK'
  <2>1. draft[e] \in Drafts
    BY <1>11 DEF Replace, TypeOK
  <2>2. draft[e].target \in Targets /\ draft[e].entries \subseteq Entries
    BY <2>1 DEF Drafts
  <2>3. /\ generated' \in [Targets -> SUBSET Entries]
        /\ draft' \in [Exporters -> Drafts \cup {None}]
    BY <1>11, <2>2 DEF Replace, TypeOK
  <2>4. QED
    BY <1>11, <2>3 DEF Replace, TypeOK, scanning, deciding, bounds, history
<1>12. ASSUME Kill PROVE TypeOK'
  <2>1. kills' \in 0 .. MaxKills
    BY <1>12, BoundsAssumption DEF Kill, TypeOK
  <2>2. scan' \in [Scanners -> Scans \cup {None}] /\ cur' \in [Scanners -> Ids \cup {None}]
    BY <1>12 DEF Kill, TypeOK, scanning
  <2>3. /\ job' \in [Operators -> Jobs \cup {None}]
        /\ pc' \in [Operators -> {"idle", "link", "remove"}]
    BY <1>12 DEF Kill, TypeOK, deciding, Stop
  <2>4. draft' \in [Exporters -> Drafts \cup {None}]
    BY <1>12 DEF Kill, TypeOK
  <2>5. QED
    BY <1>12, <2>1, <2>2, <2>3, <2>4 DEF Kill, TypeOK, history
<1>13. CASE UNCHANGED vars
  BY <1>13 DEF TypeOK, vars, scanning, deciding, bounds, history
<1>14. QED
  BY <1>1, <1>2, <1>3, <1>4, <1>5, <1>6, <1>7, <1>8, <1>9, <1>10, <1>11, <1>12,
     <1>13 DEF Next

-----------------------------------------------------------------------------
\* No command puts a record over another one, and only a removal of a candidate
\* takes one away: only after its decision is on disk.
LEMMA KeptStep ==
  ASSUME IInv, [Next]_vars, NEW d \in Dirs, NEW id \in Ids
  PROVE  Kept(d, id)
<1>t. TypeOK
  BY DEF IInv
<1>1. ASSUME NEW s \in Scanners, Link(s) PROVE Kept(d, id)
  <2>1. /\ cur[s] \in Ids /\ scan[s] # None /\ records["candidates"][cur[s]] = None
        /\ Put("candidates", cur[s], scan[s].at)
    BY <1>1 DEF Link, Candidate, IInv, ScanInv, TypeOK
  <2>2. scan[s].at \in Times
    BY <2>1, ScanType
  <2>3. <<d, id>> # <<"candidates", cur[s]>> => records'[d][id] = records[d][id]
    BY <1>t, <2>1, <2>2, PutOne DEF Dirs
  <2>4. QED
    BY <2>1, <2>3 DEF Kept
<1>2. ASSUME NEW o \in Operators, Commit(o) PROVE Kept(d, id)
  <2>1. /\ job[o].id \in Ids /\ job[o].to \in Verdicts /\ job[o].at \in Times
        /\ records[job[o].to][job[o].id] = None
        /\ Put(job[o].to, job[o].id, job[o].at)
    BY <1>2, JobType DEF Commit, Go, Decision
  <2>2. <<d, id>> # <<job[o].to, job[o].id>> => records'[d][id] = records[d][id]
    BY <1>t, <2>1, PutOne DEF Dirs
  <2>3. QED
    BY <2>1, <2>2 DEF Kept
<1>3. ASSUME NEW o \in Operators, Remove(o) PROVE Kept(d, id)
  <2>1. job[o].id \in Ids /\ Put("candidates", job[o].id, None)
    BY <1>3, JobType DEF Remove
  <2>2. /\ records'["candidates"][job[o].id] = None
        /\ <<d, id>> # <<"candidates", job[o].id>> => records'[d][id] = records[d][id]
    BY <1>t, <2>1, PutOne DEF Dirs
  <2>3. QED
    BY <2>2 DEF Kept
<1>4. ASSUME UNCHANGED records PROVE Kept(d, id)
  BY <1>4 DEF Kept
<1>5. QED
  BY <1>1, <1>2, <1>3, <1>4 DEF Next, Detect, Look, EndScan, Read, Confirm,
     Refuse, List, Replace, Kill, vars

\* So a decision, once there, stays for good.
LEMMA DecisionsStay ==
  ASSUME IInv, [Next]_vars, NEW d \in Verdicts, NEW id \in Ids, records[d][id] # None
  PROVE  records'[d][id] = records[d][id]
BY KeptStep DEF Kept, Dirs, Verdicts

\* What the commands know of their own progress.
LEMMA ScanStep == IInv /\ [Next]_vars => ScanInv'
<1> SUFFICES ASSUME IInv, [Next]_vars, NEW s \in Scanners, cur'[s] # None
             PROVE  scan'[s] # None
  BY DEF ScanInv
<1>t. TypeOK /\ (cur[s] # None => scan[s] # None)
  BY DEF IInv, ScanInv
<1>1. ASSUME NEW r \in Scanners, NEW ids \in SUBSET Ids, Detect(r, ids) PROVE scan'[s] # None
  <2>1. [at |-> scans + 1, todo |-> ids] \in Scans
    BY <1>1, <1>t, BoundsAssumption DEF Detect, TypeOK, Scans, Times
  <2>2. scan'[r] # None
    BY <1>1, <1>t, <2>1, NoneApart DEF Detect, TypeOK
  <2>3. QED
    BY <1>1, <1>t, <2>2 DEF Detect, TypeOK
<1>2. ASSUME NEW r \in Scanners, NEW id \in Ids, Look(r, id) PROVE scan'[s] # None
  BY <1>2, <1>t DEF Look, TypeOK
<1>3. ASSUME NEW r \in Scanners, Link(r) PROVE scan'[s] # None
  BY <1>3, <1>t DEF Link, TypeOK
<1>4. ASSUME NEW r \in Scanners, EndScan(r) PROVE scan'[s] # None
  BY <1>4, <1>t DEF EndScan, TypeOK
<1>5. ASSUME Kill PROVE scan'[s] # None
  BY <1>5, <1>t DEF Kill, TypeOK, scanning
<1>6. ASSUME UNCHANGED scanning PROVE scan'[s] # None
  BY <1>6, <1>t DEF scanning
<1>7. QED
  BY <1>1, <1>2, <1>3, <1>4, <1>5, <1>6 DEF Next, Read, Commit, Confirm, Refuse,
     Remove, List, Replace, vars

LEMMA JobStep == IInv /\ [Next]_vars => JobInv'
<1> SUFFICES ASSUME IInv, [Next]_vars, NEW o \in Operators
             PROVE  /\ pc'[o] # "idle" => job'[o] # None
                    /\ pc'[o] = "remove" => Decision(o)' = job'[o].at
  BY DEF JobInv
<1> DEFINE Goal == /\ pc'[o] # "idle" => job'[o] # None
                   /\ pc'[o] = "remove" => Decision(o)' = job'[o].at
<1>t. /\ TypeOK
      /\ pc[o] # "idle" => job[o] # None
      /\ pc[o] = "remove" => Decision(o) = job[o].at
  BY DEF IInv, JobInv
\* An operator that does not move keeps its decision.
<1>s. ASSUME pc'[o] = pc[o], job'[o] = job[o] PROVE Goal
  <2>1. ASSUME pc[o] = "remove" PROVE Decision(o)' = Decision(o)
    <3>1. /\ job[o].id \in Ids /\ job[o].to \in Verdicts /\ job[o].at \in Times
          /\ records[job[o].to][job[o].id] = job[o].at
      BY <2>1, <1>t, JobType DEF Decision
    <3>2. records'[job[o].to][job[o].id] = records[job[o].to][job[o].id]
      BY <3>1, NoneApart, DecisionsStay
    <3>3. QED
      BY <3>2, <1>s DEF Decision
  <2>2. QED
    BY <1>s, <1>t, <2>1
<1>1. ASSUME NEW p \in Operators, NEW id \in Ids, NEW to \in Verdicts, Read(p, id, to)
      PROVE  Goal
  <2>1. CASE p = o
    <3>1. [id |-> id, to |-> to, at |-> Candidate(id)] \in Jobs
      BY <1>1, <1>t DEF Read, Candidate, TypeOK, Dirs, Jobs
    <3>2. pc'[o] = "link" /\ job'[o] # None
      BY <1>1, <1>t, <2>1, <3>1, NoneApart DEF Read, Go, TypeOK
    <3>3. QED
      BY <3>2
  <2>2. CASE p # o
    BY <1>1, <1>t, <1>s, <2>2 DEF Read, Go, TypeOK
  <2>3. QED
    BY <2>1, <2>2
<1>2. ASSUME NEW p \in Operators, Commit(p) PROVE Goal
  <2>1. CASE p = o
    <3>1. /\ pc'[o] = "remove" /\ job'[o] = job[o] /\ pc[o] = "link"
      BY <1>2, <1>t, <2>1 DEF Commit, Go, TypeOK
    <3>2. /\ job[o].id \in Ids /\ job[o].to \in Dirs /\ job[o].at \in Times
          /\ Put(job[o].to, job[o].id, job[o].at)
      BY <1>2, <2>1, <3>1, JobType DEF Commit, Dirs
    <3>3. records'[job[o].to][job[o].id] = job[o].at
      BY <3>2, <1>t, PutOne
    <3>4. QED
      BY <3>1, <3>3, <1>t DEF Decision
  <2>2. CASE p # o
    BY <1>2, <1>t, <1>s, <2>2 DEF Commit, Go, TypeOK
  <2>3. QED
    BY <2>1, <2>2
<1>3. ASSUME NEW p \in Operators, Confirm(p) PROVE Goal
  <2>1. CASE p = o
    BY <1>3, <1>t, <2>1 DEF Confirm, TypeOK, Decision
  <2>2. CASE p # o
    BY <1>3, <1>t, <1>s, <2>2 DEF Confirm, TypeOK
  <2>3. QED
    BY <2>1, <2>2
<1>4. ASSUME NEW p \in Operators, Stop(p) PROVE Goal
  <2>1. CASE p = o
    BY <1>4, <1>t, <2>1 DEF Stop, TypeOK
  <2>2. CASE p # o
    BY <1>4, <1>t, <1>s, <2>2 DEF Stop, TypeOK
  <2>3. QED
    BY <2>1, <2>2
<1>5. ASSUME UNCHANGED deciding PROVE Goal
  BY <1>5, <1>s DEF deciding
<1>6. QED
  BY <1>1, <1>2, <1>3, <1>4, <1>5 DEF Next, Detect, Look, Link, EndScan, Refuse,
     Remove, List, Replace, Kill, vars

\* An operator alone with its candidate: nobody else links or removes that name,
\* and who joins it is counted.
LEMMA AloneStep == IInv /\ [Next]_vars => AloneInv'
<1> SUFFICES ASSUME IInv, [Next]_vars, NEW o \in Operators,
                    pc'[o] # "idle", job'[o].id \notin contended'
             PROVE  /\ records'["candidates"][job'[o].id] = job'[o].at
                    /\ \A p \in Operators :
                         pc'[p] # "idle" /\ job'[p].id = job'[o].id => p = o
  BY DEF AloneInv, Candidate
<1> DEFINE Goal == /\ records'["candidates"][job'[o].id] = job'[o].at
                   /\ \A p \in Operators :
                        pc'[p] # "idle" /\ job'[p].id = job'[o].id => p = o
<1>t. TypeOK
  BY DEF IInv
<1>i. ASSUME pc[o] # "idle", job[o].id \notin contended
      PROVE  /\ records["candidates"][job[o].id] = job[o].at /\ job[o].at # None
             /\ \A p \in Operators : pc[p] # "idle" /\ job[p].id = job[o].id => p = o
  BY <1>i, JobType, NoneApart DEF IInv, AloneInv, Candidate
\* Steps that neither touch the candidate nor start an operator.
<1>s. ASSUME \A p \in Operators : pc'[p] # "idle" => pc[p] # "idle" /\ job'[p] = job[p],
             contended' = contended,
             records'["candidates"][job[o].id] = records["candidates"][job[o].id]
      PROVE  Goal
  BY <1>s, <1>i
<1>1. ASSUME NEW s \in Scanners, Link(s) PROVE Goal
  <2>1. /\ cur[s] \in Ids /\ scan[s] # None /\ records["candidates"][cur[s]] = None
        /\ Put("candidates", cur[s], scan[s].at)
        /\ pc' = pc /\ job' = job /\ contended' = contended
    BY <1>1 DEF Link, Candidate, IInv, ScanInv, TypeOK, deciding
  <2>2. scan[s].at \in Times /\ job[o].id \in Ids
    BY <2>1, ScanType, JobType
  <2>3. cur[s] # job[o].id
    BY <2>1, <1>i
  <2>4. records'["candidates"][job[o].id] = records["candidates"][job[o].id]
    BY <1>t, <2>1, <2>2, <2>3, PutOne DEF Dirs
  <2>5. QED
    BY <1>s, <2>1, <2>4
<1>2. ASSUME NEW q \in Operators, Commit(q) PROVE Goal
  <2>1. /\ job[q].id \in Ids /\ job[q].to \in Verdicts /\ job[q].at \in Times
        /\ Put(job[q].to, job[q].id, job[q].at)
        /\ pc[q] # "idle" /\ pc' = [pc EXCEPT ![q] = "remove"]
        /\ job' = job /\ contended' = contended
    BY <1>2, JobType DEF Commit, Go, history
  <2>2. \A p \in Operators : pc'[p] # "idle" => pc[p] # "idle"
    BY <2>1, <1>t DEF TypeOK
  <2>3. job[o].id \in Ids
    BY <2>2, JobType
  <2>4. records'["candidates"][job[o].id] = records["candidates"][job[o].id]
    BY <1>t, <2>1, <2>3, PutOne DEF Dirs, Verdicts
  <2>5. QED
    BY <1>s, <2>1, <2>2, <2>4
<1>3. ASSUME NEW q \in Operators, Remove(q) PROVE Goal
  <2>1. /\ pc[q] # "idle" /\ job[q].id \in Ids /\ Put("candidates", job[q].id, None)
        /\ pc' = [pc EXCEPT ![q] = "idle"] /\ job' = [job EXCEPT ![q] = None]
        /\ contended' = contended
    BY <1>3, JobType DEF Remove, Stop
  <2>2. \A p \in Operators : pc'[p] # "idle" => p # q /\ pc[p] # "idle" /\ job'[p] = job[p]
    BY <2>1, <1>t DEF TypeOK
  <2>3. job[o].id \in Ids /\ job[q].id # job[o].id
    BY <1>i, <2>1, <2>2, JobType
  <2>4. records'["candidates"][job[o].id] = records["candidates"][job[o].id]
    BY <1>t, <2>1, <2>3, PutOne DEF Dirs
  <2>5. QED
    BY <1>s, <2>1, <2>2, <2>4
<1>4. ASSUME NEW q \in Operators, NEW id \in Ids, NEW to \in Verdicts, Read(q, id, to)
      PROVE  Goal
  <2>1. /\ pc[q] = "idle" /\ pc'[q] # "idle"
        /\ job'[q].id = id /\ job'[q].at = records["candidates"][id]
        /\ \A p \in Operators \ {q} : pc'[p] = pc[p] /\ job'[p] = job[p]
        /\ records' = records
    BY <1>4, <1>t DEF Read, Go, Candidate, TypeOK
  <2>2. contended' = contended \cup
          {i \in {id} : \E p \in Operators \ {q} : pc[p] # "idle" /\ job[p].id = i}
    BY <1>4 DEF Read, Contends
  <2>3. CASE o = q
    BY <2>1, <2>2, <2>3
  <2>4. CASE o # q
    <3>1. pc[o] # "idle" /\ job'[o] = job[o] /\ job[o].id \notin contended
      BY <2>1, <2>2, <2>4
    <3>2. job[o].id # id
      BY <2>1, <2>2, <2>4, <3>1
    <3>3. QED
      BY <1>i, <2>1, <2>4, <3>1, <3>2
  <2>5. QED
    BY <2>3, <2>4
<1>5. ASSUME NEW q \in Operators, Confirm(q) PROVE Goal
  <2>1. /\ \A p \in Operators : pc'[p] # "idle" => pc[p] # "idle"
        /\ job' = job /\ contended' = contended /\ records' = records
    BY <1>5, <1>t DEF Go, Confirm, TypeOK, history
  <2>2. QED
    BY <1>s, <2>1
<1>6. ASSUME NEW q \in Operators, Stop(q), UNCHANGED <<records, contended>> PROVE Goal
  <2>1. \A p \in Operators : pc'[p] # "idle" => pc[p] # "idle" /\ job'[p] = job[p]
    BY <1>6, <1>t DEF Stop, TypeOK
  <2>2. QED
    BY <1>s, <1>6, <2>1
<1>7. ASSUME UNCHANGED <<records, deciding, contended>> PROVE Goal
  BY <1>s, <1>7 DEF deciding
<1>8. QED
  BY <1>1, <1>2, <1>3, <1>4, <1>5, <1>6, <1>7 DEF Next, Detect, Look, EndScan, Refuse,
     List, Replace, Kill, vars, history

\* A record goes only through a removal, and only from candidates/.
LEMMA OnlyRemoved ==
  ASSUME IInv, [Next]_vars, NEW d \in Dirs, NEW id \in Ids, records[d][id] # None,
         records'[d][id] # records[d][id]
  PROVE  d = "candidates" /\ \E o \in Operators : Remove(o) /\ job[o].id = id
<1>t. TypeOK
  BY DEF IInv
<1>0. d = "candidates" /\ records'[d][id] = None
  BY KeptStep DEF Kept
<1>1. ASSUME NEW s \in Scanners, Link(s) PROVE FALSE
  <2>1. /\ cur[s] \in Ids /\ scan[s] # None
        /\ Put("candidates", cur[s], scan[s].at)
    BY <1>1 DEF Link, IInv, ScanInv, TypeOK
  <2>2. scan[s].at \in Times
    BY <2>1, ScanType
  <2>3. QED
    BY <2>1, <2>2, <1>t, <1>0, PutOne, NoneApart DEF Dirs
<1>2. ASSUME NEW o \in Operators, Commit(o) PROVE FALSE
  <2>1. /\ job[o].id \in Ids /\ job[o].to \in Dirs /\ job[o].at \in Times
        /\ job[o].to # "candidates"
        /\ Put(job[o].to, job[o].id, job[o].at)
    BY <1>2, JobType DEF Commit, Go, Dirs, Verdicts
  <2>2. <<d, id>> # <<job[o].to, job[o].id>> => records'[d][id] = records[d][id]
    BY <2>1, <1>t, PutOne
  <2>3. QED
    BY <1>0, <2>1, <2>2
<1>3. ASSUME NEW o \in Operators, Remove(o) PROVE job[o].id = id
  <2>1. job[o].id \in Ids /\ Put("candidates", job[o].id, None)
    BY <1>3, JobType DEF Remove
  <2>2. <<d, id>> # <<"candidates", job[o].id>> => records'[d][id] = records[d][id]
    BY <2>1, <1>t, PutOne DEF Dirs
  <2>3. QED
    BY <2>2
<1>4. QED
  BY <1>0, <1>1, <1>2, <1>3 DEF Next, Detect, Look, EndScan, Read, Confirm,
     Refuse, List, Replace, Kill, vars

\* A record goes from candidates/ only when it has been decided, or when its name
\* was contended and some record of the name has been.
LEMMA NothingVanishesStep == IInv /\ [Next]_vars => NothingVanishes'
<1> SUFFICES ASSUME IInv, [Next]_vars, NEW r \in recorded'
             PROVE  \/ \E d \in Dirs : records'[d][r.id] = r.at
                    \/ r.id \in contended' /\ \E d \in Verdicts : records'[d][r.id] # None
  BY DEF NothingVanishes
<1> DEFINE Goal == \/ \E d \in Dirs : records'[d][r.id] = r.at
                   \/ r.id \in contended' /\ \E d \in Verdicts : records'[d][r.id] # None
<1>t. TypeOK /\ NothingVanishes
  BY DEF IInv
<1>c. contended \subseteq contended'
  BY DEF Next, Detect, Look, Link, EndScan, Read, Contends, Commit, Confirm,
     Refuse, Remove, List, Replace, Kill, vars, history
<1>1. CASE r \in recorded
  <2>1. r.id \in Ids /\ r.at # None
    BY <1>1, <1>t, NoneApart DEF TypeOK, Entries
  <2>2. CASE \E d \in Dirs : records[d][r.id] = r.at
    <3>1. PICK d \in Dirs : records[d][r.id] = r.at
      BY <2>2
    <3>2. CASE records'[d][r.id] = r.at
      BY <3>2
    <3>3. CASE records'[d][r.id] # r.at
      <4>1. d = "candidates" /\ \E o \in Operators : Remove(o) /\ job[o].id = r.id
        BY <2>1, <3>1, <3>3, OnlyRemoved
      <4>2. PICK o \in Operators : Remove(o) /\ job[o].id = r.id
        BY <4>1
      <4>3. /\ pc[o] = "remove" /\ job[o].to \in Verdicts /\ job[o].at \in Times
            /\ records[job[o].to][r.id] = job[o].at
        BY <4>2, JobType DEF Remove, Decision, IInv, JobInv
      <4>4. records'[job[o].to][r.id] = job[o].at
        BY <2>1, <4>3, NoneApart, DecisionsStay
      <4>5. r.id \notin contended => job[o].at = r.at
        BY <3>1, <4>1, <4>2, <4>3 DEF IInv, AloneInv, Candidate
      <4>6. QED
        BY <1>c, <4>3, <4>4, <4>5, NoneApart DEF Dirs
    <3>4. QED
      BY <3>2, <3>3
  <2>3. CASE r.id \in contended /\ \E d \in Verdicts : records[d][r.id] # None
    BY <1>c, <2>1, <2>3, DecisionsStay
  <2>4. QED
    BY <1>1, <1>t, <2>2, <2>3 DEF NothingVanishes
<1>2. CASE r \notin recorded
  <2>1. \E s \in Scanners : Link(s)
    BY <1>2 DEF Next, Detect, Look, EndScan, Read, Commit, Confirm, Refuse, Remove,
       List, Replace, Kill, vars, history
  <2>2. PICK s \in Scanners : Link(s)
    BY <2>1
  <2>3. r = [id |-> cur[s], at |-> scan[s].at]
    BY <1>2, <2>2 DEF Link
  <2>4. /\ cur[s] \in Ids /\ scan[s] # None
        /\ Put("candidates", cur[s], scan[s].at)
    BY <2>2 DEF Link, IInv, ScanInv, TypeOK
  <2>5. scan[s].at \in Times
    BY <2>4, ScanType
  <2>6. records'["candidates"][r.id] = r.at
    BY <2>3, <2>4, <2>5, <1>t, PutOne DEF Dirs
  <2>7. QED
    BY <2>6 DEF Dirs
<1>3. QED
  BY <1>1, <1>2

LEMMA ReportsStep == IInv /\ [Next]_vars => ReportsAreTrue'
<1> SUFFICES ASSUME IInv, [Next]_vars, NEW j \in reported'
             PROVE  records'[j.to][j.id] = j.at
  BY DEF ReportsAreTrue
<1>t. TypeOK /\ ReportsAreTrue
  BY DEF IInv
<1>1. j \in Jobs /\ records[j.to][j.id] = j.at
  <2>1. CASE j \in reported
    BY <2>1, <1>t DEF TypeOK, ReportsAreTrue
  <2>2. CASE j \notin reported
    <3>1. \E o \in Operators : Remove(o) /\ j = job[o]
      BY <2>2 DEF Next, Detect, Look, Link, EndScan, Read, Commit, Confirm, Refuse,
         Remove, List, Replace, Kill, vars, history
    <3>2. PICK o \in Operators : Remove(o) /\ j = job[o]
      BY <3>1
    <3>3. QED
      BY <3>2, JobType DEF Remove, Decision, IInv, JobInv
  <2>3. QED
    BY <2>1, <2>2
<1>2. j.to \in Verdicts /\ j.id \in Ids /\ records[j.to][j.id] # None
  BY <1>1, NoneApart DEF Jobs
<1>3. QED
  BY <1>1, <1>2, DecisionsStay

LEMMA StepIInv == IInv /\ [Next]_vars => IInv'
BY TypeStep, ScanStep, JobStep, AloneStep, NothingVanishesStep, ReportsStep DEF IInv

\* The invariant holds in every reachable state.
THEOREM Invariant == Spec => []IInv
<1>1. Init => IInv
  BY InitIInv
<1>2. IInv /\ [Next]_vars => IInv'
  BY StepIInv
<1>3. QED
  BY <1>1, <1>2, PTL DEF Spec

-----------------------------------------------------------------------------
\* Every variable of the store keeps its type.
THEOREM TypeCorrect == Spec => []TypeOK
<1>1. IInv => TypeOK
  BY DEF IInv
<1>2. QED
  BY <1>1, Invariant, PTL

\* The very record a scan linked stays in the store, wherever commands are killed,
\* unless two operators worked on its candidate at once.
THEOREM RecordsSurvive == Spec => []NothingVanishes
<1>1. IInv => NothingVanishes
  BY DEF IInv
<1>2. QED
  BY <1>1, Invariant, PTL

\* A transition that was reported as done stays true.
THEOREM ReportsStayTrue == Spec => []ReportsAreTrue
<1>1. IInv => ReportsAreTrue
  BY DEF IInv
<1>2. QED
  BY <1>1, Invariant, PTL

\* No record is ever replaced by another one.
THEOREM NothingIsOverwritten == Spec => RecordsAreImmutable
<1>1. IInv /\ [Next]_vars =>
        [\A d \in Dirs, id \in Ids :
           records[d][id] # None =>
             records'[d][id] \in {records[d][id]} \cup (IF d = "candidates" THEN {None} ELSE {})]_vars
  BY KeptStep DEF Kept
<1>2. QED
  BY <1>1, Invariant, PTL DEF Spec, RecordsAreImmutable

-----------------------------------------------------------------------------
\* With one export at a time, a listing is never older than the database.
OneExporter == \A e, f \in Exporters : e = f

ExportInv ==
  /\ \A t \in Targets : generated[t] \subseteq Publishable(t)
  /\ \A e \in Exporters : draft[e] # None =>
       /\ draft[e].entries \subseteq Publishable(draft[e].target)
       /\ generated[draft[e].target] \subseteq draft[e].entries

\* What is promoted can be published from then on.
LEMMA PublishableGrows ==
  ASSUME IInv, [Next]_vars, NEW t \in Targets
  PROVE  Publishable(t) \subseteq Publishable(t)'
<1> SUFFICES ASSUME NEW r \in Publishable(t) PROVE r \in Publishable(t)'
  OBVIOUS
<1>1. r \in Entries /\ Target[r.id] = t /\ records["promoted"][r.id] = r.at
  BY DEF Publishable
<1>2. r.id \in Ids /\ r.at \in Times
  BY <1>1 DEF Entries
<1>3. records'["promoted"][r.id] = r.at
  BY <1>1, <1>2, NoneApart, DecisionsStay DEF Verdicts
<1>4. QED
  BY <1>1, <1>3 DEF Publishable

LEMMA ExportStep ==
  ASSUME OneExporter, IInv, ExportInv, [Next]_vars
  PROVE  ExportInv' /\ \A t \in Targets : generated[t] \subseteq generated'[t]
<1>t. TypeOK
  BY DEF IInv
<1> DEFINE Goal == ExportInv' /\ \A t \in Targets : generated[t] \subseteq generated'[t]
<1>d. ASSUME NEW e \in Exporters, draft[e] # None
      PROVE  draft[e].target \in Targets
  BY <1>d, <1>t DEF TypeOK, Drafts
<1>1. ASSUME NEW e \in Exporters, NEW t \in Targets, List(e, t) PROVE Goal
  <2>1. draft'[e] = [target |-> t, entries |-> Publishable(t)]
    BY <1>1, <1>t DEF List, TypeOK
  <2>2. generated' = generated /\ records' = records
    BY <1>1 DEF List
  <2>3. \A u \in Targets : Publishable(u)' = Publishable(u)
    BY <2>2 DEF Publishable
  <2>4. \A f \in Exporters : f = e
    BY DEF OneExporter
  <2>5. QED
    BY <2>1, <2>2, <2>3, <2>4 DEF ExportInv
<1>2. ASSUME NEW e \in Exporters, Replace(e) PROVE Goal
  <2>1. /\ draft[e] # None /\ draft[e].target \in Targets
        /\ generated' = [generated EXCEPT ![draft[e].target] = draft[e].entries]
        /\ records' = records
    BY <1>2, <1>d DEF Replace
  <2>2. /\ draft[e].entries \subseteq Publishable(draft[e].target)
        /\ generated[draft[e].target] \subseteq draft[e].entries
    BY <2>1 DEF ExportInv
  <2>3. \A u \in Targets : Publishable(u)' = Publishable(u)
    BY <2>1 DEF Publishable
  <2>4. \A f \in Exporters : draft'[f] = None
    BY <1>2, <1>t DEF Replace, OneExporter, TypeOK
  <2>5. \A u \in Targets : generated'[u] = IF u = draft[e].target THEN draft[e].entries
                                            ELSE generated[u]
    BY <2>1, <1>t DEF TypeOK
  <2>6. \A u \in Targets : generated[u] \subseteq generated'[u]
    BY <2>2, <2>5
  <2>7. \A u \in Targets : generated'[u] \subseteq Publishable(u)
    BY <2>2, <2>5 DEF ExportInv
  <2>8. QED
    BY <2>3, <2>4, <2>6, <2>7 DEF ExportInv
<1>3. ASSUME generated' = generated,
             \A e \in Exporters : draft'[e] \in {draft[e], None}
      PROVE  Goal
  <2>1. \A u \in Targets : Publishable(u) \subseteq Publishable(u)'
    BY PublishableGrows
  <2>2. ASSUME NEW u \in Targets PROVE generated'[u] \subseteq Publishable(u)'
    BY <1>3, <2>1 DEF ExportInv
  <2>3. ASSUME NEW e \in Exporters, draft'[e] # None
        PROVE  /\ (draft[e].entries \subseteq Publishable(draft[e].target))'
               /\ generated'[draft'[e].target] \subseteq draft'[e].entries
    <3>1. draft'[e] = draft[e] /\ draft[e] # None
      BY <1>3, <2>3
    <3>2. PICK u \in Targets : u = draft[e].target
      BY <3>1, <1>d
    <3>3. draft[e].entries \subseteq Publishable(u) /\ generated[u] \subseteq draft[e].entries
      BY <3>1, <3>2 DEF ExportInv
    <3>4. draft'[e].entries \subseteq Publishable(u)'
      BY <2>1, <3>1, <3>3
    <3>5. draft'[e].target = u
      BY <3>1, <3>2
    <3>6. (Publishable(draft[e].target))' = Publishable(u)'
      BY <3>5 DEF Publishable
    <3>7. QED
      BY <1>3, <3>1, <3>3, <3>4, <3>5, <3>6
  <2>4. QED
    BY <1>3, <2>2, <2>3 DEF ExportInv
<1>4. ASSUME Kill PROVE Goal
  BY <1>3, <1>4, <1>t DEF Kill, TypeOK
<1>5. QED
  BY <1>1, <1>2, <1>3, <1>4 DEF Next, Detect, Look, Link, EndScan, Read, Commit,
     Confirm, Refuse, Remove, vars

\* With one export at a time, a published signature stays published.
THEOREM PublicationsStay == ASSUME OneExporter PROVE Spec => PublishedOnlyGrows
<1>1. Init => ExportInv
  BY DEF Init, ExportInv
<1>2. ExportInv /\ IInv /\ [Next]_vars => ExportInv'
  BY ExportStep
<1>3. ExportInv /\ IInv /\ [Next]_vars =>
        [\A t \in Targets : generated[t] \subseteq generated'[t]]_vars
  BY ExportStep
<1>4. Spec => []IInv
  BY Invariant
<1>5. QED
  BY <1>1, <1>2, <1>3, <1>4, PTL DEF Spec, PublishedOnlyGrows
=============================================================================
