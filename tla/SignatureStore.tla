--------------------------- MODULE SignatureStore ---------------------------
(* The signature factory's candidate store and its life cycle: scans record    *)
(* what they detect (internal/signaturefactory/store.go, generate.go,          *)
(* clamav_pipeline.go), operators promote or reject it (lifecycle.go), and an  *)
(* export publishes what is promoted (export.go).                              *)
(*                                                                             *)
(* One file per candidate and directory, written under a temporary name and    *)
(* linked to its own, so that a reader never sees a part of it. The commands   *)
(* share nothing but the directories and take no lock. Two records of one      *)
(* candidate differ in created_at, the time of the scan; that time stands for  *)
(* the record's bytes.                                                         *)
EXTENDS Naturals, FiniteSets

CONSTANTS
  Ids,          \* exact candidates: a family and the digest of a sample
  Samples,      \* those digests
  Sample,       \* [Ids -> Samples]; two families may name one sample
  Targets,      \* the databases an export writes
  Target,       \* [Ids -> Targets], by the candidate's kind and engine
  Scanners,     \* concurrent aaa scan commands
  Operators,    \* concurrent aaa signatures promote and reject commands
  Exporters,    \* concurrent aaa signatures export commands
  None,
  MaxScans,     \* bound on scans that detect something
  MaxKills      \* bound on killed commands

ASSUME IdsAssumption == /\ Sample \in [Ids -> Samples]
                        /\ Target \in [Ids -> Targets]
ASSUME BoundsAssumption == {MaxScans, MaxKills} \subseteq Nat

Times == 1 .. MaxScans
Verdicts == {"promoted", "rejected"}
Dirs == Verdicts \cup {"candidates"}
Entries == [id : Ids, at : Times]
Jobs == [id : Ids, to : Verdicts, at : Times]
Scans == [at : Times, todo : SUBSET Ids]
Drafts == [target : Targets, entries : SUBSET Entries]
ASSUME NoneAssumption == None \notin Ids \cup Times \cup Jobs \cup Scans \cup Drafts

VARIABLES
  records,    \* [Dirs -> [Ids -> the time of the record there, or None]]
  generated,  \* [Targets -> the records the exported database was made from]
  scan, cur,  \* per scan command: what it detected and has yet to record, and
              \* the candidate it found missing and is about to link
  job, pc,    \* per operator: the transition and its next step
  draft,      \* per exporter: the database it is about to put in place
  scans, kills,
  recorded,   \* every record a scan has linked
  left,       \* what scans that ran to their end had detected and not linked
  reported,   \* the transitions that were reported as done
  contended   \* the candidates two operators have worked on at once

scanning == <<scan, cur>>
deciding == <<job, pc>>
bounds == <<scans, kills>>
history == <<recorded, left, reported, contended>>
vars == <<records, generated, scanning, deciding, draft, bounds, history>>

Init == /\ records = [d \in Dirs |-> [id \in Ids |-> None]]
        /\ generated = [t \in Targets |-> {}]
        /\ scan = [s \in Scanners |-> None] /\ cur = [s \in Scanners |-> None]
        /\ job = [o \in Operators |-> None] /\ pc = [o \in Operators |-> "idle"]
        /\ draft = [e \in Exporters |-> None]
        /\ scans = 0 /\ kills = 0
        /\ recorded = {} /\ left = {} /\ reported = {}
        /\ contended = {}

Go(o, from, to) == pc[o] = from /\ pc' = [pc EXCEPT ![o] = to]
Put(dir, id, at) == records' = [records EXCEPT ![dir][id] = at]
Candidate(id) == records["candidates"][id]
Decision(o) == records[job[o].to][job[o].id]  \* what the destination holds

\* The candidate is another operator's job as well.
Contends(o, id) ==
  contended' = contended \cup
    {i \in {id} : \E p \in Operators \ {o} : pc[p] # "idle" /\ job[p].id = i}

-----------------------------------------------------------------------------
\* The plausible bugs the properties are tested with.

DetectUndated(s, ids) ==  \* created_at is not filled in
  /\ scan[s] = None /\ ids # {} /\ scans < MaxScans
  /\ scans' = scans + 1
  /\ scan' = [scan EXCEPT ![s] = [at |-> 0, todo |-> ids]]
  /\ UNCHANGED <<records, generated, cur, deciding, draft, kills, history>>

LinkOver(s) ==  \* rename instead of link: the second writer wins
  /\ cur[s] # None
  /\ Put("candidates", cur[s], scan[s].at)
  /\ recorded' = recorded \cup {[id |-> cur[s], at |-> scan[s].at]}
  /\ scan' = [scan EXCEPT ![s].todo = @ \ {cur[s]}]
  /\ cur' = [cur EXCEPT ![s] = None]
  /\ UNCHANGED <<generated, deciding, draft, bounds, left, reported, contended>>

ConfirmAny(o) ==  \* an existing decision is taken for this one
  /\ pc[o] = "link" /\ Decision(o) # None
  /\ pc' = [pc EXCEPT ![o] = "remove"]
  /\ UNCHANGED <<records, generated, scanning, job, draft, bounds, history>>

ReadAway(o, id, to) ==  \* the candidate is moved out of the way first
  /\ Go(o, "idle", "link") /\ Candidate(id) # None
  /\ job' = [job EXCEPT ![o] = [id |-> id, to |-> to, at |-> Candidate(id)]]
  /\ Put("candidates", id, None) /\ Contends(o, id)
  /\ UNCHANGED <<generated, scanning, draft, bounds, recorded, left, reported>>

PublishAll(t) ==  \* candidates are published before they are promoted
  {r \in Entries : /\ Target[r.id] = t
                   /\ r.at \in {Candidate(r.id), records["promoted"][r.id]}}

-----------------------------------------------------------------------------
\* Scans: every infected file or archive member becomes one candidate.

\* A scan detects something. Each scan has a time of its own.
Detect(s, ids) ==
  /\ scan[s] = None /\ ids # {} /\ scans < MaxScans
  /\ scans' = scans + 1
  /\ scan' = [scan EXCEPT ![s] = [at |-> scans + 1, todo |-> ids]]
  /\ UNCHANGED <<records, generated, cur, deciding, draft, kills, history>>

\* WriteCandidate finds no candidate of that name and writes a temporary file.
Look(s, id) ==
  /\ scan[s] # None /\ cur[s] = None /\ id \in scan[s].todo
  /\ Candidate(id) = None
  /\ cur' = [cur EXCEPT ![s] = id]
  /\ UNCHANGED <<records, generated, scan, deciding, draft, bounds, history>>

\* It links the file, unless another command took the name.
Link(s) ==
  /\ cur[s] # None /\ Candidate(cur[s]) = None
  /\ Put("candidates", cur[s], scan[s].at)
  /\ recorded' = recorded \cup {[id |-> cur[s], at |-> scan[s].at]}
  /\ scan' = [scan EXCEPT ![s].todo = @ \ {cur[s]}]
  /\ cur' = [cur EXCEPT ![s] = None]
  /\ UNCHANGED <<generated, deciding, draft, bounds, left, reported, contended>>

\* The scan is over: all is recorded, or a candidate with other bytes has the
\* name and the error ends the loop. No other record has this scan's time.
Ends(s) ==
  /\ scan[s] # None
  /\ \/ scan[s].todo = {}
     \/ cur[s] = None /\ \E id \in scan[s].todo : Candidate(id) # None
     \/ cur[s] # None /\ Candidate(cur[s]) # None
EndScan(s) ==
  /\ Ends(s)
  /\ left' = left \cup scan[s].todo
  /\ scan' = [scan EXCEPT ![s] = None] /\ cur' = [cur EXCEPT ![s] = None]
  /\ UNCHANGED <<records, generated, deciding, draft, bounds, recorded, reported, contended>>

-----------------------------------------------------------------------------
\* Operators: transition copies the candidate into its new directory and then
\* removes it. (The reads before the last one only look whether it is there.)
\* The destination is looked at and, with nothing found, written and linked to,
\* where it is looked at again. What the first look finds the second would find
\* as well, for decisions stay, and to the same end: they are one step.

Read(o, id, to) ==
  /\ Go(o, "idle", "link") /\ Candidate(id) # None
  /\ job' = [job EXCEPT ![o] = [id |-> id, to |-> to, at |-> Candidate(id)]]
  /\ Contends(o, id)
  /\ UNCHANGED <<records, generated, scanning, draft, bounds, recorded, left, reported>>

Commit(o) ==  \* nothing is there: the temporary file takes the name
  /\ Go(o, "link", "remove") /\ Decision(o) = None
  /\ Put(job[o].to, job[o].id, job[o].at)
  /\ UNCHANGED <<generated, scanning, job, draft, bounds, history>>

Confirm(o) ==  \* the same bytes are there already
  /\ pc[o] = "link" /\ Decision(o) = job[o].at
  /\ pc' = [pc EXCEPT ![o] = "remove"]
  /\ UNCHANGED <<records, generated, scanning, job, draft, bounds, history>>

Stop(o) == job' = [job EXCEPT ![o] = None] /\ pc' = [pc EXCEPT ![o] = "idle"]

Refuse(o) ==  \* ErrCandidateConflict
  /\ pc[o] = "link" /\ Decision(o) \notin {None, job[o].at}
  /\ Stop(o)
  /\ UNCHANGED <<records, generated, scanning, draft, bounds, history>>

Remove(o) ==  \* whatever has the candidate's name by now
  /\ pc[o] = "remove"
  /\ Put("candidates", job[o].id, None)
  /\ reported' = reported \cup {job[o]}
  /\ Stop(o)
  /\ UNCHANGED <<generated, scanning, draft, bounds, recorded, left, contended>>

-----------------------------------------------------------------------------
\* Exporters. Records under promoted/ neither change nor go away, so reading
\* them after the listing gives the records of the moment of the listing.

Publishable(t) ==
  {r \in Entries : Target[r.id] = t /\ records["promoted"][r.id] = r.at}

List(e, t) ==
  /\ draft[e] = None
  /\ \A r, q \in Publishable(t) : r # q => Sample[r.id] # Sample[q.id]
  /\ draft' = [draft EXCEPT ![e] = [target |-> t, entries |-> Publishable(t)]]
  /\ UNCHANGED <<records, generated, scanning, deciding, bounds, history>>

\* writeGeneratedFile: renamed over the old database, or equal to it.
Replace(e) ==
  /\ draft[e] # None
  /\ generated' = [generated EXCEPT ![draft[e].target] = draft[e].entries]
  /\ draft' = [draft EXCEPT ![e] = None]
  /\ UNCHANGED <<records, scanning, deciding, bounds, history>>

-----------------------------------------------------------------------------
\* A command is killed, or a failing call ends it: the directories do not tell the
\* two apart. A temporary file that stays is not read by anyone.
Kill ==
  /\ kills < MaxKills /\ kills' = kills + 1
  /\ \/ \E s \in Scanners :
          /\ scan[s] # None
          /\ scan' = [scan EXCEPT ![s] = None] /\ cur' = [cur EXCEPT ![s] = None]
          /\ UNCHANGED <<deciding, draft>>
     \/ \E o \in Operators :
          pc[o] # "idle" /\ Stop(o) /\ UNCHANGED <<scanning, draft>>
     \/ \E e \in Exporters :
          /\ draft[e] # None /\ draft' = [draft EXCEPT ![e] = None]
          /\ UNCHANGED <<scanning, deciding>>
  /\ UNCHANGED <<records, generated, scans, history>>

Next ==
  \/ \E s \in Scanners :
       \/ \E ids \in SUBSET Ids : Detect(s, ids)
       \/ \E id \in Ids : Look(s, id)
       \/ Link(s) \/ EndScan(s)
  \/ \E o \in Operators :
       \/ \E id \in Ids, to \in Verdicts : Read(o, id, to)
       \/ Commit(o) \/ Confirm(o) \/ Refuse(o) \/ Remove(o)
  \/ \E e \in Exporters : (\E t \in Targets : List(e, t)) \/ Replace(e)
  \/ Kill

Spec == Init /\ [][Next]_vars

-----------------------------------------------------------------------------
\* Every variable keeps its type: a record carries the time of a scan.
TypeOK ==
  /\ records \in [Dirs -> [Ids -> Times \cup {None}]]
  /\ generated \in [Targets -> SUBSET Entries]
  /\ scan \in [Scanners -> Scans \cup {None}] /\ cur \in [Scanners -> Ids \cup {None}]
  /\ job \in [Operators -> Jobs \cup {None}]
  /\ pc \in [Operators -> {"idle", "link", "remove"}]
  /\ draft \in [Exporters -> Drafts \cup {None}]
  /\ scans \in 0 .. MaxScans /\ kills \in 0 .. MaxKills
  /\ recorded \subseteq Entries /\ left \subseteq Ids /\ reported \subseteq Jobs
  /\ contended \subseteq Ids

\* A record a scan has linked never vanishes from the store, wherever commands are
\* killed: that very record lies in some directory (Store.transition writes the
\* decision before it removes the candidate). The exception is a candidate two
\* operators have worked on at once: the slower one removes what has the name, and
\* that may be a newer record nobody decided about. What is left then is that some
\* record of the candidate has been decided.
NothingVanishes ==
  \A r \in recorded :
    \/ \E d \in Dirs : records[d][r.id] = r.at
    \/ r.id \in contended /\ \E d \in Verdicts : records[d][r.id] # None

\* "promoted <id>" and "rejected <id>" are printed only for the record that is
\* there: what an operator was told about the evidence they saw stays true.
ReportsAreTrue == \A j \in reported : records[j.to][j.id] = j.at

\* No command replaces a record by another one, whoever races it to the name,
\* and none takes a decision back (WriteCandidate and writeAtomicExclusive link).
RecordsAreImmutable ==
  [][\A d \in Dirs, id \in Ids :
       records[d][id] # None =>
         records'[d][id] \in {records[d][id]} \cup (IF d = "candidates" THEN {None} ELSE {})]_vars

\* A signature once published stays published: a later export never withdraws
\* one. (With one export at a time: a slower second one can put an older
\* listing over a newer database.)
PublishedOnlyGrows ==
  [][\A t \in Targets : generated[t] \subseteq generated'[t]]_vars

\* Said of RecordScanResult, and not so: when a scan has run to its end, each of
\* its detections has a record, be it one of another scan. A member detected
\* before ends the loop.
DetectionsAreRecorded == \A id \in left : \E d \in Dirs : records[d][id] # None
=============================================================================
