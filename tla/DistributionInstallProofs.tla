---------------------- MODULE DistributionInstallProofs ----------------------
(* What holds of the installation of distributions for any bundles, any number *)
(* of commands at once, and any number of kills, failures and power losses.    *)
EXTENDS DistributionInstall, TLAPS

-----------------------------------------------------------------------------
(* The inductive invariant.                                                    *)

\* A command holds its bundle while it works, and a copy of it before the rename.
HoldInv ==
  /\ \A i \in Installers : pc[i] = "place" => Verifies(staged[i], job[i])
  /\ \A v \in fragile : release[v] # None

TypeInv == TypeOK /\ HoldInv

\* Without a power loss, what a command has placed or found is there for good.
PlacedInv ==
  losses = 0 => \A i \in Installers :
    pc[i] \in {"settle", "activate", "commit"} => Verifies(release[Version(i)], job[i])

\* Without overlap one command works, on a bundle newer than the active one.
AloneInv ==
  ~overlap =>
    /\ \A i, j \in Installers : pc[i] # "idle" /\ pc[j] # "idle" => i = j
    /\ \A i \in Installers :
         pc[i] \in {"look", "stage", "place", "settle", "activate"} => Newer(job[i], state)
    /\ \A i \in Installers : pc[i] = "commit" => state = job[i]

IInv == TypeInv /\ PlacedInv /\ ActiveVerifies /\ AloneInv

-----------------------------------------------------------------------------
\* None is neither a bundle nor a directory.
LEMMA NoneApart == None \notin Bundles /\ None \notin Trees
BY NoneAssumption

\* The job of a command that works, and its version.
LEMMA JobType ==
  ASSUME TypeOK, NEW i \in Installers, pc[i] # "idle"
  PROVE  job[i] \in Bundles /\ Version(i) \in Versions
<1>1. job[i] \in Bundles
  BY DEF TypeOK
<1>2. QED
  BY <1>1 DEF Version, Versions

\* A version is a number.
LEMMA VersionType == \A b \in Bundles : b.version \in Versions /\ b.version \in Nat
BY BundlesAssumption DEF Versions

\* The bounds of a counter that may be stepped.
LEMMA CountOne ==
  ASSUME NEW n, NEW m \in Nat, n \in 0..m, n < m
  PROVE  n + 1 \in 0..m /\ n + 1 > 0 /\ n + 1 # n
OBVIOUS

\* Taking a command back to idle keeps the types.
LEMMA StopType ==
  ASSUME TypeOK, NEW i \in Installers, Stop(i)
  PROVE  /\ pc' \in [Installers -> PCs] /\ pc'[i] = "idle"
         /\ job' \in [Installers -> Bundles \cup {None}]
         /\ staged' \in [Installers -> Trees \cup {None}]
         /\ \A j \in Installers : pc'[j] # "idle" =>
              j # i /\ pc'[j] = pc[j] /\ job'[j] = job[j] /\ staged'[j] = staged[j]
BY DEF Stop, TypeOK, PCs

\* So does a step to the next label.
LEMMA GoType ==
  ASSUME TypeOK, NEW i \in Installers, NEW from, NEW to \in PCs \ {"idle"},
         from # "idle", Go(i, from, to)
  PROVE  /\ pc' \in [Installers -> PCs] /\ pc'[i] = to /\ pc[i] = from
         /\ \A j \in Installers : j # i => pc'[j] = pc[j]
         /\ \A j \in Installers : pc'[j] # "idle" => pc[j] # "idle"
BY DEF Go, TypeOK, PCs

-----------------------------------------------------------------------------
\* The initial state satisfies the invariant.
THEOREM InitIInv == Init => IInv
<1> SUFFICES ASSUME Init PROVE IInv
  OBVIOUS
<1>1. TypeOK
  <2>1. kills \in 0..MaxKills /\ losses \in 0..MaxPowerLosses /\ faults \in 0..MaxFaults
    BY BoundsAssumption DEF Init
  <2>2. release \in [Versions -> Trees \cup {None}]
    BY DEF Init
  <2>3. pc \in [Installers -> PCs] /\ \A i \in Installers : pc[i] = "idle"
    BY DEF Init, PCs
  <2>4. /\ job \in [Installers -> Bundles \cup {None}]
        /\ staged \in [Installers -> Trees \cup {None}]
    BY DEF Init
  <2>5. QED
    BY <2>1, <2>2, <2>3, <2>4 DEF Init, TypeOK
<1>2. HoldInv
  BY DEF Init, HoldInv
<1>3. PlacedInv
  BY DEF Init, PlacedInv
<1>4. ActiveVerifies
  BY DEF Init, ActiveVerifies
<1>5. AloneInv
  BY DEF Init, AloneInv
<1>6. QED
  BY <1>1, <1>2, <1>3, <1>4, <1>5 DEF IInv, TypeInv

-----------------------------------------------------------------------------
\* What a power loss leaves of a release has its type.
LEMMA RemainsType ==
  ASSUME TypeInv, NEW v \in Versions
  PROVE  Remains(v) \subseteq Trees \cup {None}
<1>1. release[v] \in Trees \cup {None}
  BY DEF TypeInv, TypeOK
<1>2. v \in fragile => [release[v] EXCEPT !["payloads"] = None] \in Trees
  <2> SUFFICES ASSUME v \in fragile
               PROVE  [release[v] EXCEPT !["payloads"] = None] \in Trees
    OBVIOUS
  <2>1. release[v] \in Trees
    BY <1>1 DEF TypeInv, HoldInv
  <2>2. QED
    BY <2>1 DEF Trees
<1>3. QED
  BY <1>1, <1>2 DEF Remains

\* Every step keeps the types.
LEMMA TypeStep == ASSUME TypeInv, [Next]_vars PROVE TypeOK'
<1>t. TypeOK
  BY DEF TypeInv
<1>n. {MaxKills, MaxPowerLosses, MaxFaults} \subseteq Nat
  BY BoundsAssumption
<1>1. ASSUME NEW i \in Installers, NEW b \in Bundles, Start(i, b) PROVE TypeOK'
  <2>1. pc' \in [Installers -> PCs] /\ job' \in [Installers -> Bundles \cup {None}]
    BY <1>1, <1>t DEF Start, TypeOK, PCs, told
  <2>2. \A j \in Installers : pc'[j] # "idle" => job'[j] # None
    BY <1>1, <1>t, NoneApart DEF Start, TypeOK, told
  <2>3. overlap' \in BOOLEAN
    BY <1>1 DEF Start
  <2>4. QED
    BY <1>1, <1>t, <2>1, <2>2, <2>3
    DEF Start, TypeOK, disk, pointer, bounds, told
<1>2. ASSUME NEW i \in Installers, NEW b \in Bundles, Reinstall(i, b) PROVE TypeOK'
  BY <1>2, <1>t DEF Reinstall, TypeOK, disk, pointer, procs, bounds, told
<1>3. ASSUME NEW i \in Installers, Absent(i) PROVE TypeOK'
  <2>1. /\ pc' \in [Installers -> PCs]
        /\ \A j \in Installers : pc'[j] # "idle" => pc[j] # "idle"
    BY <1>3, <1>t, GoType DEF Absent, PCs
  <2>2. QED
    BY <1>3, <1>t, <2>1 DEF Absent, TypeOK, disk, pointer, bounds, told
<1>4. ASSUME NEW i \in Installers, Present(i) PROVE TypeOK'
  <2>1. /\ pc' \in [Installers -> PCs]
        /\ \A j \in Installers : pc'[j] # "idle" => pc[j] # "idle"
    BY <1>4, <1>t, GoType DEF Present, PCs
  <2>2. QED
    BY <1>4, <1>t, <2>1 DEF Present, TypeOK, disk, pointer, bounds, told
<1>5. ASSUME NEW i \in Installers, Stage(i) PROVE TypeOK'
  <2>1. /\ pc' \in [Installers -> PCs]
        /\ \A j \in Installers : pc'[j] # "idle" => pc[j] # "idle"
    BY <1>5, <1>t, GoType DEF Stage, PCs
  <2>2. staged' \in [Installers -> Trees \cup {None}]
    BY <1>5, <1>t DEF Stage, TypeOK, Trees, told
  <2>3. QED
    BY <1>5, <1>t, <2>1, <2>2 DEF Stage, TypeOK, disk, pointer, bounds, told
<1>6. ASSUME NEW i \in Installers, Place(i) PROVE TypeOK'
  <2>1. /\ pc' \in [Installers -> PCs] /\ pc[i] = "place"
        /\ \A j \in Installers : pc'[j] # "idle" => pc[j] # "idle"
    BY <1>6, <1>t, GoType DEF Place, PCs
  <2>2. Version(i) \in Versions
    BY <2>1, <1>t, JobType
  <2>3. release' \in [Versions -> Trees \cup {None}]
    BY <1>6, <1>t, <2>2 DEF Place, TypeOK, told
  <2>4. staged' \in [Installers -> Trees \cup {None}]
    BY <1>6, <1>t DEF Place, TypeOK, told
  <2>5. settled' \subseteq Versions /\ fragile' \subseteq Versions
    BY <1>6, <1>t, <2>2 DEF Place, TypeOK, told
  <2>6. QED
    BY <1>6, <1>t, <2>1, <2>3, <2>4, <2>5 DEF Place, TypeOK, pointer, bounds, told
<1>7. ASSUME NEW i \in Installers, Settle(i) PROVE TypeOK'
  <2>1. /\ pc' \in [Installers -> PCs]
        /\ \A j \in Installers : pc'[j] # "idle" => pc[j] # "idle"
    BY <1>7, <1>t, GoType DEF Settle, PCs
  <2>2. settled' \subseteq Versions
    BY <1>7 DEF Settle
  <2>3. QED
    BY <1>7, <1>t, <2>1, <2>2 DEF Settle, TypeOK, pointer, bounds, told
<1>8. ASSUME NEW i \in Installers, Activate(i) PROVE TypeOK'
  <2>1. /\ pc' \in [Installers -> PCs] /\ pc[i] = "activate"
        /\ \A j \in Installers : pc'[j] # "idle" => pc[j] # "idle"
    BY <1>8, <1>t, GoType DEF Activate, PCs
  <2>2. job[i] \in Bundles
    BY <2>1, <1>t, JobType
  <2>3. QED
    BY <1>8, <1>t, <2>1, <2>2 DEF Activate, TypeOK, disk, bounds, told
<1>9. ASSUME NEW i \in Installers, Commit(i) PROVE TypeOK'
  <2>1. job[i] \in Bundles
    BY <1>9, <1>t, JobType DEF Commit
  <2>2. /\ pc' \in [Installers -> PCs] /\ job' \in [Installers -> Bundles \cup {None}]
        /\ staged' \in [Installers -> Trees \cup {None}]
        /\ \A j \in Installers : pc'[j] # "idle" => job'[j] # None
    BY <1>9, <1>t, StopType DEF Commit, TypeOK, told
  <2>3. QED
    BY <1>9, <1>t, <2>1, <2>2 DEF Commit, TypeOK, bounds, told
<1>10. ASSUME NEW i \in Installers, Refuse(i) \/ Fail(i) \/ Kill(i) PROVE TypeOK'
  <2>1. Stop(i)
    BY <1>10 DEF Refuse, Fail, Kill
  <2>2. /\ pc' \in [Installers -> PCs] /\ job' \in [Installers -> Bundles \cup {None}]
        /\ staged' \in [Installers -> Trees \cup {None}]
        /\ \A j \in Installers : pc'[j] # "idle" => job'[j] # None
    BY <2>1, <1>t, StopType DEF TypeOK
  <2>3. /\ kills' \in 0..MaxKills /\ losses' \in 0..MaxPowerLosses /\ faults' \in 0..MaxFaults
    BY <1>10, <1>t, <1>n, CountOne DEF Refuse, Fail, Kill, bounds, TypeOK
  <2>4. UNCHANGED <<release, settled, fragile, rooted, store, state, diskState, confirmed, taken, overlap>>
    BY <1>10 DEF Refuse, Fail, Kill, disk, pointer, told
  <2>5. QED
    BY <1>t, <2>2, <2>3, <2>4 DEF TypeOK
<1>11. ASSUME PowerLoss PROVE TypeOK'
  <2>1. release' \in [Versions -> Trees \cup {None}]
    <3>1. CASE /\ release' \in [Versions -> UNION {Remains(v) : v \in Versions}]
               /\ \A v \in Versions : release'[v] \in Remains(v)
      BY <3>1, RemainsType
    <3>2. CASE release' = [v \in Versions |-> None]
      BY <3>2
    <3>3. QED
      BY <1>11, <3>1, <3>2 DEF PowerLoss, Survives, Vanishes
  <2>2. /\ state' \in Bundles \cup {None} /\ diskState' = {state'}
        /\ rooted' \in BOOLEAN /\ store' \in {"absent", "made", "durable"}
        /\ taken' \subseteq confirmed
    BY <1>11, <1>t DEF PowerLoss, Survives, Vanishes, TypeOK
  <2>3. /\ losses' \in 0..MaxPowerLosses
    BY <1>11, <1>t, <1>n, CountOne DEF PowerLoss, TypeOK
  <2>4. settled' \subseteq Versions /\ fragile' \subseteq Versions
    BY <1>11 DEF PowerLoss
  <2>5. /\ pc' = [i \in Installers |-> "idle"] /\ job' = [i \in Installers |-> None]
        /\ staged' = [i \in Installers |-> None]
        /\ UNCHANGED <<confirmed, overlap, kills, faults>>
    BY <1>11 DEF PowerLoss
  <2>6. QED
    BY <1>t, <2>1, <2>2, <2>3, <2>4, <2>5 DEF TypeOK, PCs
<1>12. CASE UNCHANGED vars
  BY <1>12, <1>t DEF TypeOK, vars, disk, pointer, procs, told, bounds
<1>13. QED
  BY <1>1, <1>2, <1>3, <1>4, <1>5, <1>6, <1>7, <1>8, <1>9, <1>10, <1>11, <1>12
  DEF Next, Step

-----------------------------------------------------------------------------
\* A power loss is counted.
LEMMA LossCounted == ASSUME TypeInv, PowerLoss PROVE losses' # losses /\ losses' # 0
<1>1. losses \in 0..MaxPowerLosses /\ losses' = losses + 1
  BY DEF PowerLoss, TypeInv, TypeOK
<1>2. QED
  BY <1>1

\* Without a power loss a release that is there stays as it is.
LEMMA ReleaseStays ==
  ASSUME TypeInv, [Next]_vars, losses' = losses, NEW v \in Versions, release[v] # None
  PROVE  release'[v] = release[v]
<1>1. ASSUME NEW i \in Installers, Place(i) PROVE release'[v] = release[v]
  <2>1. release[Version(i)] = None
    BY <1>1 DEF Place
  <2>2. v # Version(i)
    BY <2>1
  <2>3. QED
    BY <1>1, <2>2 DEF Place, TypeInv, TypeOK
<1>2. QED
  BY <1>1, LossCounted DEF Next, Step, Start, Reinstall, Absent, Present, Stage, Settle,
     Activate, Commit, Refuse, Fail, Kill, disk, vars

\* A copy is whole before it is renamed, and only what is there is fragile.
LEMMA HoldStep == ASSUME TypeInv, [Next]_vars PROVE HoldInv'
<1>t. TypeOK /\ HoldInv
  BY DEF TypeInv
<1>1. ASSUME NEW i \in Installers, NEW b \in Bundles, Start(i, b) PROVE HoldInv'
  BY <1>1, <1>t DEF Start, HoldInv, Verifies, TypeOK, disk
<1>2. ASSUME NEW i \in Installers, NEW b \in Bundles, Reinstall(i, b) PROVE HoldInv'
  BY <1>2, <1>t DEF Reinstall, HoldInv, Verifies, disk, procs
<1>3. ASSUME NEW i \in Installers,
             Absent(i) \/ Present(i) \/ Settle(i) \/ Activate(i)
      PROVE  HoldInv'
  <2>1. \A j \in Installers : pc'[j] = "place" => pc[j] = "place"
    BY <1>3, <1>t DEF Absent, Present, Settle, Activate, Go, TypeOK
  <2>2. UNCHANGED <<release, fragile, job, staged>>
    BY <1>3 DEF Absent, Present, Settle, Activate, disk
  <2>3. QED
    BY <1>t, <2>1, <2>2 DEF HoldInv, Verifies
<1>4. ASSUME NEW i \in Installers, Stage(i) PROVE HoldInv'
  <2>1. PICK tree \in [Files -> Bundles] :
          Verifies(tree, job[i]) /\ staged' = [staged EXCEPT ![i] = tree]
    BY <1>4 DEF Stage
  <2>2. staged'[i] = tree /\ \A j \in Installers : j # i => staged'[j] = staged[j]
    BY <2>1, <1>t DEF TypeOK
  <2>3. \A j \in Installers : j # i => pc'[j] = pc[j]
    BY <1>4, <1>t DEF Stage, Go, TypeOK
  <2>4. QED
    BY <1>4, <1>t, <2>1, <2>2, <2>3 DEF Stage, HoldInv, Verifies, disk
<1>5. ASSUME NEW i \in Installers, Place(i) PROVE HoldInv'
  <2>1. pc[i] = "place" /\ Verifies(staged[i], job[i])
    BY <1>5, <1>t DEF Place, Go, HoldInv
  <2>2. Version(i) \in Versions
    BY <2>1, <1>t, JobType
  <2>3. /\ release'[Version(i)] = staged[i]
        /\ \A v \in Versions : v # Version(i) => release'[v] = release[v]
    BY <1>5, <1>t, <2>2 DEF Place, TypeOK
  <2>4. \A v \in fragile' : release'[v] # None
    BY <1>5, <1>t, <2>1, <2>3 DEF Place, HoldInv, Verifies, TypeOK
  <2>5. \A j \in Installers : pc'[j] = "place" => pc[j] = "place" /\ j # i
    BY <1>5, <1>t DEF Place, Go, TypeOK
  <2>6. \A j \in Installers : j # i => staged'[j] = staged[j] /\ job'[j] = job[j]
    BY <1>5, <1>t DEF Place, TypeOK
  <2>7. QED
    BY <1>t, <2>4, <2>5, <2>6 DEF HoldInv, Verifies
<1>6. ASSUME NEW i \in Installers, Stop(i), UNCHANGED <<release, fragile>> PROVE HoldInv'
  BY <1>6, <1>t, StopType DEF HoldInv, Verifies
<1>7. ASSUME PowerLoss PROVE HoldInv'
  BY <1>7 DEF PowerLoss, HoldInv
<1>8. CASE UNCHANGED vars
  BY <1>8, <1>t DEF HoldInv, Verifies, vars, disk, procs
<1>9. QED
  BY <1>1, <1>2, <1>3, <1>4, <1>5, <1>6, <1>7, <1>8
  DEF Next, Step, Commit, Refuse, Fail, Kill, disk

\* What is placed stays whole, and so does the active release.
LEMMA PlacedStep ==
  ASSUME TypeInv, PlacedInv, ActiveVerifies, [Next]_vars
  PROVE  PlacedInv' /\ ActiveVerifies'
<1>t. TypeOK /\ HoldInv
  BY DEF TypeInv
<1> SUFFICES ASSUME losses' = 0
             PROVE  /\ \A i \in Installers : pc'[i] \in {"settle", "activate", "commit"} =>
                          Verifies(release[Version(i)], job[i])'
                    /\ state' # None => Verifies(release[state.version], state)'
  BY DEF PlacedInv, ActiveVerifies
<1>l. losses' = losses /\ losses = 0
  <2>1. ~PowerLoss
    BY LossCounted
  <2>2. losses' = losses
    BY <2>1 DEF Next, Step, Start, Reinstall, Absent, Present, Stage, Place, Settle,
       Activate, Commit, Refuse, Fail, Kill, bounds, vars
  <2>3. QED
    BY <2>2
<1>s. \A v \in Versions : release[v] # None => release'[v] = release[v]
  BY <1>l, ReleaseStays
<1>v. ASSUME NEW b \in Bundles, Verifies(release[b.version], b)
      PROVE  Verifies(release[b.version], b)'
  BY <1>v, <1>s, VersionType DEF Verifies
<1>a. ASSUME state' = state
      PROVE  state' # None => Verifies(release[state.version], state)'
  BY <1>a, <1>v, <1>l, <1>t, NoneApart DEF ActiveVerifies, TypeOK, Verifies
<1>k. ASSUME NEW i \in Installers, pc[i] \in {"settle", "activate", "commit"}, job'[i] = job[i]
      PROVE  Verifies(release[Version(i)], job[i])'
  <2>1. job[i] \in Bundles
    BY <1>k, <1>t, JobType
  <2>2. Verifies(release[job[i].version], job[i])
    BY <1>k, <1>l DEF PlacedInv, Version
  <2>3. release'[job[i].version] = release[job[i].version]
    BY <2>1, <2>2, <1>s, VersionType DEF Verifies
  <2>4. QED
    BY <1>k, <2>2, <2>3 DEF Verifies, Version
<1>1. ASSUME NEW i \in Installers, NEW b \in Bundles, Start(i, b)
      PROVE  \A j \in Installers : pc'[j] \in {"settle", "activate", "commit"} =>
                Verifies(release[Version(j)], job[j])'
  BY <1>1, <1>k, <1>t DEF Start, TypeOK
<1>2. ASSUME NEW i \in Installers, Absent(i) \/ Stage(i) \/ Settle(i) \/ Activate(i)
      PROVE  \A j \in Installers : pc'[j] \in {"settle", "activate", "commit"} =>
                Verifies(release[Version(j)], job[j])'
  BY <1>2, <1>k, <1>t DEF Absent, Stage, Settle, Activate, Go, TypeOK
<1>3. ASSUME NEW i \in Installers, Present(i)
      PROVE  \A j \in Installers : pc'[j] \in {"settle", "activate", "commit"} =>
                Verifies(release[Version(j)], job[j])'
  <2>1. Verifies(release[Version(i)], job[i]) /\ release' = release /\ job' = job
    BY <1>3 DEF Present, disk
  <2>2. \A j \in Installers : j # i => pc'[j] = pc[j]
    BY <1>3, <1>t DEF Present, Go, TypeOK
  <2>3. QED
    BY <2>1, <2>2, <1>k DEF Verifies, Version
<1>4. ASSUME NEW i \in Installers, Place(i)
      PROVE  \A j \in Installers : pc'[j] \in {"settle", "activate", "commit"} =>
                Verifies(release[Version(j)], job[j])'
  <2>1. pc[i] = "place" /\ Verifies(staged[i], job[i]) /\ job' = job
    BY <1>4, <1>t DEF Place, Go, HoldInv
  <2>2. Version(i) \in Versions
    BY <2>1, <1>t, JobType
  <2>3. release'[Version(i)] = staged[i]
    BY <1>4, <1>t, <2>2 DEF Place, TypeOK
  <2>4. \A j \in Installers : j # i => pc'[j] = pc[j]
    BY <1>4, <1>t DEF Place, Go, TypeOK
  <2>5. Verifies(release[Version(i)], job[i])'
    BY <2>1, <2>3 DEF Verifies, Version
  <2>6. QED
    BY <2>1, <2>4, <2>5, <1>k
<1>5. ASSUME NEW i \in Installers, Stop(i)
      PROVE  \A j \in Installers : pc'[j] \in {"settle", "activate", "commit"} =>
                Verifies(release[Version(j)], job[j])'
  BY <1>5, <1>t, <1>k, StopType
<1>6. ASSUME NEW i \in Installers, Activate(i)
      PROVE  state' # None => Verifies(release[state.version], state)'
  <2>1. job[i] \in Bundles /\ state' = job[i]
    BY <1>6, <1>t, JobType DEF Activate, Go
  <2>2. Verifies(release[job[i].version], job[i])
    BY <1>6, <1>l DEF Activate, Go, PlacedInv, Version
  <2>3. release' = release
    BY <1>6 DEF Activate, disk
  <2>4. QED
    BY <2>1, <2>2, <2>3 DEF Verifies
<1>7. ASSUME UNCHANGED procs
      PROVE  \A j \in Installers : pc'[j] \in {"settle", "activate", "commit"} =>
                Verifies(release[Version(j)], job[j])'
  BY <1>7, <1>k DEF procs
<1>8. ~PowerLoss
  BY <1>l, LossCounted
<1>9. /\ \A j \in Installers : pc'[j] \in {"settle", "activate", "commit"} =>
            Verifies(release[Version(j)], job[j])'
  BY <1>1, <1>2, <1>3, <1>4, <1>5, <1>7, <1>8
  DEF Next, Step, Reinstall, Commit, Refuse, Fail, Kill, vars
<1>10. state' # None => Verifies(release[state.version], state)'
  BY <1>a, <1>6, <1>8
  DEF Next, Step, Start, Reinstall, Absent, Present, Stage, Place, Settle, Commit, Refuse,
      Fail, Kill, pointer, vars
<1>11. QED
  BY <1>9, <1>10

-----------------------------------------------------------------------------
\* Two commands that were under way at once are remembered.
LEMMA OverlapStays == ASSUME [Next]_vars, overlap, overlap \in BOOLEAN PROVE overlap'
BY DEF Next, Step, Start, Reinstall, Absent, Present, Stage, Place, Settle, Activate,
       Commit, Refuse, Fail, Kill, PowerLoss, vars

\* One command at a time works on a bundle that is newer than the active one, up to
\* the moment it has made it the active one.
LEMMA AloneStep == ASSUME TypeInv, AloneInv, [Next]_vars PROVE AloneInv'
<1>t. TypeOK
  BY DEF TypeInv
<1> SUFFICES ASSUME ~overlap' PROVE AloneInv'
  BY DEF AloneInv
<1>o. ~overlap
  BY <1>t, OverlapStays DEF TypeOK
<1>a. /\ \A i, j \in Installers : pc[i] # "idle" /\ pc[j] # "idle" => i = j
      /\ \A i \in Installers :
           pc[i] \in {"look", "stage", "place", "settle", "activate"} => Newer(job[i], state)
      /\ \A i \in Installers : pc[i] = "commit" => state = job[i]
  BY <1>o DEF AloneInv
<1>1. ASSUME NEW i \in Installers, NEW b \in Bundles, Start(i, b) PROVE AloneInv'
  <2>1. \A j \in Installers : pc[j] = "idle"
    BY <1>1 DEF Start
  <2>2. /\ pc'[i] = "look" /\ job'[i] = b
        /\ \A j \in Installers : j # i => pc'[j] = "idle"
    BY <1>1, <1>t, <2>1 DEF Start, TypeOK
  <2>3. Newer(b, state) /\ state' = state
    BY <1>1 DEF Start, pointer
  <2>4. QED
    BY <2>2, <2>3 DEF AloneInv, Newer
<1>2. ASSUME NEW i \in Installers,
             Absent(i) \/ Present(i) \/ Stage(i) \/ Place(i) \/ Settle(i)
      PROVE  AloneInv'
  <2>1. /\ pc[i] \in {"look", "stage", "place", "settle"}
        /\ pc'[i] \in {"stage", "activate", "place", "settle"}
        /\ \A j \in Installers : j # i => pc'[j] = pc[j]
    BY <1>2, <1>t DEF Absent, Present, Stage, Place, Settle, Go, TypeOK
  <2>2. job' = job /\ state' = state
    BY <1>2 DEF Absent, Present, Stage, Place, Settle, pointer
  <2>3. \A j \in Installers : j # i => pc'[j] = "idle"
    BY <2>1, <1>a
  <2>4. Newer(job[i], state)
    BY <2>1, <1>a
  <2>5. QED
    BY <2>1, <2>2, <2>3, <2>4 DEF AloneInv, Newer
<1>3. ASSUME NEW i \in Installers, Activate(i) PROVE AloneInv'
  <2>1. pc[i] = "activate" /\ pc'[i] = "commit"
    BY <1>3, <1>t DEF Activate, Go, TypeOK
  <2>2. \A j \in Installers : j # i => pc'[j] = "idle"
    BY <1>3, <1>t, <1>a, <2>1 DEF Activate, Go, TypeOK
  <2>3. job' = job /\ state' = job[i]
    BY <1>3 DEF Activate
  <2>4. QED
    BY <2>1, <2>2, <2>3 DEF AloneInv
<1>4. ASSUME NEW i \in Installers, pc[i] # "idle", Stop(i) PROVE AloneInv'
  <2>1. \A j \in Installers : pc'[j] = "idle"
    BY <1>4, <1>t, <1>a, StopType
  <2>2. QED
    BY <2>1 DEF AloneInv
<1>5. ASSUME NEW i \in Installers, Commit(i) \/ Refuse(i) \/ Fail(i) \/ Kill(i)
      PROVE  AloneInv'
  BY <1>5, <1>4 DEF Commit, Refuse, Fail, Kill
<1>6. CASE PowerLoss
  BY <1>6 DEF PowerLoss, AloneInv
<1>7. ASSUME UNCHANGED <<pc, job, state>> PROVE AloneInv'
  BY <1>7, <1>a DEF AloneInv, Newer
<1>8. QED
  BY <1>1, <1>2, <1>3, <1>5, <1>6, <1>7
  DEF Next, Step, Reinstall, procs, pointer, vars

-----------------------------------------------------------------------------
\* The invariant is inductive.
THEOREM StepIInv == ASSUME IInv, [Next]_vars PROVE IInv'
<1>1. TypeInv'
  BY TypeStep, HoldStep DEF IInv, TypeInv
<1>2. PlacedInv' /\ ActiveVerifies'
  BY PlacedStep DEF IInv
<1>3. AloneInv'
  BY AloneStep DEF IInv
<1>4. QED
  BY <1>1, <1>2, <1>3 DEF IInv

THEOREM Invariant == Spec => []IInv
BY InitIInv, StepIInv, PTL DEF Spec

\* Every reachable state of the installation has its type.
THEOREM TypeCorrect == Spec => []TypeOK
<1>1. IInv => TypeOK
  BY DEF IInv, TypeInv
<1>2. QED
  BY <1>1, Invariant, PTL

\* InstallDistributionBundle: current.json names a complete release of one
\* authentic bundle, whatever commands race, die or fail, until a power loss.
THEOREM ActiveIsWhole == Spec => []ActiveVerifies
<1>1. IInv => ActiveVerifies
  BY DEF IInv
<1>2. QED
  BY <1>1, Invariant, PTL

-----------------------------------------------------------------------------
(* What was reported survives.                                                 *)

\* The release of s is there with the manifest and the signature of s.
Signed(s) == /\ release[s.version] # None
             /\ \A f \in {"manifest.json", "manifest.sig"} : release[s.version][f] = s

\* Without a power loss: the active version is not older than a reported one.
KeptInv == ~overlap /\ losses = 0 =>
  \A b \in confirmed : state # None /\ state.version >= b.version

\* Without a killed or failed command: only a command at its fsync has a name that
\* is not durable, and whatever a power loss may leave of current.json is right.
UnsettledInv == \A v \in Versions : release[v] # None /\ v \notin settled =>
  \E i \in Installers : pc[i] = "settle" /\ Version(i) = v
QuietInv == (\A i \in Installers : pc[i] # "commit") =>
  /\ diskState = {state}
  /\ state # None /\ release[state.version] # None => rooted
PlacedSigned == \A i \in Installers :
  pc[i] \in {"settle", "activate", "commit"} => Signed(job[i])
OnDisk == \A b \in Owed :
  rooted /\ \A s \in diskState : s # None /\ s.version >= b.version /\ Signed(s)
DurableInv == ~overlap /\ kills = 0 /\ faults = 0 =>
  state \in diskState /\ UnsettledInv /\ QuietInv /\ PlacedSigned /\ OnDisk

FullInv == IInv /\ KeptInv /\ DurableInv

\* What is owed grows with what is reported, and with nothing else.
LEMMA OwedStays == UNCHANGED told => Owed' = Owed
BY DEF told, Owed

LEMMA OwedGrows ==
  ASSUME TypeOK, NEW b, confirmed' = confirmed \cup {b}, taken' = taken \ {b}
  PROVE  Owed' = Owed \cup {b}
<1>1. taken \subseteq confirmed
  BY DEF TypeOK
<1>2. QED
  BY <1>1 DEF Owed

\* Initially nothing is reported, and nothing is on the disk.
LEMMA InitDurable == Init => KeptInv /\ DurableInv
BY DEF Init, KeptInv, DurableInv, UnsettledInv, QuietInv, PlacedSigned, OnDisk, Owed

\* The active version only grows past those reported.
LEMMA KeptStep == ASSUME IInv, KeptInv, [Next]_vars PROVE KeptInv'
<1>t. TypeInv /\ TypeOK /\ AloneInv
  BY DEF IInv, TypeInv
<1> SUFFICES ASSUME ~overlap', losses' = 0
             PROVE  \A b \in confirmed' : state' # None /\ state'.version >= b.version
  BY DEF KeptInv
<1>p. ~PowerLoss
  BY <1>t, LossCounted
<1>l. losses = 0
  BY <1>p DEF Next, Step, Start, Reinstall, Absent, Present, Stage, Place, Settle,
     Activate, Commit, Refuse, Fail, Kill, bounds, vars
<1>o. ~overlap
  BY <1>t, OverlapStays DEF TypeOK
<1>k. \A b \in confirmed : state # None /\ state.version >= b.version
  BY <1>o, <1>l DEF KeptInv
<1>b. \A b \in confirmed \cup {state} : b \in Bundles => b.version \in Nat
  BY VersionType
<1>1. ASSUME NEW i \in Installers, Activate(i)
      PROVE  \A b \in confirmed' : state' # None /\ state'.version >= b.version
  <2>1. pc[i] = "activate" /\ state' = job[i] /\ confirmed' = confirmed
    BY <1>1 DEF Activate, Go, told
  <2>2. job[i] \in Bundles /\ Newer(job[i], state)
    BY <1>t, <1>o, <2>1, JobType DEF AloneInv
  <2>3. ASSUME NEW b \in confirmed
        PROVE  state' # None /\ state'.version >= b.version
    <3>1. state # None /\ state.version >= b.version /\ state \in Bundles /\ b \in Bundles
      BY <1>k, <1>t DEF TypeOK
    <3>2. job[i].version > state.version
      BY <2>2, <3>1 DEF Newer
    <3>3. job[i].version \in Nat /\ state.version \in Nat /\ b.version \in Nat
      BY <2>2, <3>1, VersionType
    <3>4. job[i].version >= b.version
      BY <3>1, <3>2, <3>3
    <3>5. QED
      BY <2>1, <2>2, <3>4, NoneApart
  <2>4. QED
    BY <2>1, <2>3
<1>2. ASSUME NEW b \in Bundles, state = b, state' = state, confirmed' = confirmed \cup {b}
      PROVE  \A c \in confirmed' : state' # None /\ state'.version >= c.version
  <2>1. b # None /\ b.version >= b.version
    BY VersionType, NoneApart
  <2>2. QED
    BY <1>2, <1>k, <2>1
<1>3. ASSUME NEW i \in Installers, Commit(i)
      PROVE  \A b \in confirmed' : state' # None /\ state'.version >= b.version
  <2>1. job[i] \in Bundles /\ state = job[i] /\ state' = state
    BY <1>3, <1>t, <1>o, JobType DEF Commit, AloneInv
  <2>2. QED
    BY <1>3, <1>2, <2>1 DEF Commit
<1>4. ASSUME NEW i \in Installers, NEW b \in Bundles, Reinstall(i, b)
      PROVE  \A c \in confirmed' : state' # None /\ state'.version >= c.version
  BY <1>4, <1>2 DEF Reinstall, pointer
<1>5. ASSUME UNCHANGED <<state, confirmed>>
      PROVE  \A b \in confirmed' : state' # None /\ state'.version >= b.version
  BY <1>5, <1>k
<1>6. QED
  BY <1>1, <1>3, <1>4, <1>5, <1>p
  DEF Next, Step, Start, Absent, Present, Stage, Place, Settle, Refuse, Fail, Kill,
      pointer, told, vars

\* A release that carries the manifest and the signature of s goes on to.
LEMMA SignedStays ==
  ASSUME TypeInv, [Next]_vars, losses' = losses, NEW s \in Bundles, Signed(s)
  PROVE  (Signed(s))'
BY ReleaseStays, VersionType DEF Signed

\* One that verifies carries them.
LEMMA VerifiesSigned ==
  ASSUME NEW s, Verifies(release[s.version], s) PROVE Signed(s)
BY DEF Verifies, Signed, Files

\* Also after a power loss, when its name is durable.
LEMMA SignedRemains ==
  ASSUME TypeInv, NEW s \in Bundles, Signed(s), s.version \in settled,
         release'[s.version] \in Remains(s.version)
  PROVE  (Signed(s))'
<1>1. release[s.version] \in Trees
  BY VersionType DEF Signed, TypeInv, TypeOK
<1>2. release'[s.version] \in
        {release[s.version], [release[s.version] EXCEPT !["payloads"] = None]}
  BY DEF Remains
<1>3. [release[s.version] EXCEPT !["payloads"] = None] \in Trees
  BY <1>1 DEF Trees
<1>4. \A f \in {"manifest.json", "manifest.sig"} :
        [release[s.version] EXCEPT !["payloads"] = None][f] = release[s.version][f]
  BY <1>1 DEF Trees, Files
<1>5. release'[s.version] # None
  BY <1>1, <1>2, <1>3, NoneApart
<1>6. \A f \in {"manifest.json", "manifest.sig"} : release'[s.version][f] = s
  BY <1>2, <1>4 DEF Signed
<1>7. QED
  BY <1>5, <1>6 DEF Signed

\* What holds of the disk while commands run one after the other to their end.
LEMMA DurableStep ==
  ASSUME IInv, DurableInv, [Next]_vars PROVE DurableInv'
<1>t. TypeInv /\ TypeOK /\ HoldInv /\ AloneInv
  BY DEF IInv, TypeInv
<1> SUFFICES ASSUME ~overlap', kills' = 0, faults' = 0
             PROVE  (state \in diskState /\ UnsettledInv /\ QuietInv /\ PlacedSigned /\ OnDisk)'
  BY DEF DurableInv
<1>o. ~overlap
  BY <1>t, OverlapStays DEF TypeOK
<1>c. kills \in Nat /\ faults \in Nat
  BY <1>t, BoundsAssumption DEF TypeOK
<1>f. \A i \in Installers : ~Fail(i) /\ ~Kill(i)
  BY <1>c DEF Fail, Kill
<1>z. kills = 0 /\ faults = 0
  BY <1>f DEF Next, Step, Start, Reinstall, Absent, Present, Stage, Place, Settle,
     Activate, Commit, Refuse, PowerLoss, bounds, vars
<1>d. state \in diskState /\ UnsettledInv /\ QuietInv /\ PlacedSigned /\ OnDisk
  BY <1>o, <1>z DEF DurableInv
<1>b. /\ \A b \in Owed : b \in Bundles
      /\ \A s \in diskState : s # None => s \in Bundles
  BY <1>t DEF TypeOK, Owed
<1>a. /\ \A i, j \in Installers : pc[i] # "idle" /\ pc[j] # "idle" => i = j
      /\ \A i \in Installers :
           pc[i] \in {"look", "stage", "place", "settle", "activate"} => Newer(job[i], state)
      /\ \A i \in Installers : pc[i] = "commit" => state = job[i]
  BY <1>t, <1>o DEF AloneInv
<1>1. ASSUME NEW i \in Installers, NEW b \in Bundles, Start(i, b) \/ Reinstall(i, b)
      PROVE  \A j \in Installers : pc[j] = "idle"
  BY <1>1 DEF Start, Reinstall
<1>2. ASSUME NEW i \in Installers, NEW b \in Bundles, Start(i, b) PROVE DurableInv'
  <2>1. /\ UNCHANGED <<release, settled, rooted, state, diskState, Owed>>
        /\ \A j \in Installers : pc'[j] \in {"idle", "look"}
    BY <1>1, <1>2, <1>t, OwedStays DEF Start, pointer, TypeOK
  <2>2. UnsettledInv'
    BY <1>1, <1>2, <1>d, <2>1 DEF UnsettledInv
  <2>3. QuietInv' /\ PlacedSigned'
    BY <1>1, <1>2, <1>d, <2>1 DEF QuietInv, PlacedSigned
  <2>4. OnDisk'
    BY <1>d, <2>1 DEF OnDisk, Signed
  <2>5. QED
    BY <1>d, <2>1, <2>2, <2>3, <2>4 DEF DurableInv
<1>3. ASSUME NEW i \in Installers, NEW b \in Bundles, Reinstall(i, b) PROVE DurableInv'
  <2>1. /\ UNCHANGED <<release, settled, rooted, state, diskState, pc, job>>
        /\ Owed' = Owed \cup {b} /\ state = b /\ Verifies(release[b.version], b)
    BY <1>3, <1>t, OwedGrows DEF Reinstall, disk, pointer, procs
  <2>2. UnsettledInv' /\ QuietInv' /\ PlacedSigned'
    BY <1>d, <2>1 DEF UnsettledInv, QuietInv, PlacedSigned, Signed, Version
  <2>3. Signed(b) /\ b # None /\ b.version >= b.version
    BY <2>1, VerifiesSigned, VersionType, NoneApart
  <2>4. diskState = {b} /\ rooted
    BY <1>1, <1>3, <1>d, <2>1, <2>3 DEF QuietInv, Signed
  <2>5. OnDisk'
    BY <1>d, <2>1, <2>3, <2>4 DEF OnDisk, Signed
  <2>6. QED
    BY <1>d, <2>1, <2>2, <2>5 DEF DurableInv
<1>4. ASSUME NEW i \in Installers, Absent(i) \/ Present(i) \/ Stage(i) PROVE DurableInv'
  <2>1. /\ UNCHANGED <<release, settled, rooted, state, diskState, job, Owed>>
        /\ pc[i] \in {"look", "stage"} /\ pc'[i] \in {"stage", "activate", "place"}
        /\ \A j \in Installers : j # i => pc'[j] = pc[j]
    BY <1>4, <1>t, OwedStays DEF Absent, Present, Stage, Go, disk, pointer, TypeOK
  <2>2. UnsettledInv' /\ QuietInv'
    BY <1>d, <2>1 DEF UnsettledInv, QuietInv, Version
  <2>3. pc'[i] = "activate" => Signed(job[i])
    BY <1>4, <1>t, <2>1, VerifiesSigned DEF Absent, Present, Stage, Go, Version, TypeOK
  <2>4. PlacedSigned'
    BY <1>d, <2>1, <2>3 DEF PlacedSigned, Signed
  <2>5. OnDisk'
    BY <1>d, <2>1 DEF OnDisk, Signed
  <2>6. QED
    BY <1>d, <2>1, <2>2, <2>4, <2>5 DEF DurableInv
<1>5. ASSUME NEW i \in Installers, Place(i) PROVE DurableInv'
  <2>1. /\ UNCHANGED <<rooted, state, diskState, job, Owed>>
        /\ pc[i] = "place" /\ pc'[i] = "settle"
        /\ release[Version(i)] = None /\ settled' = settled \ {Version(i)}
        /\ losses' = losses
    BY <1>5, <1>t, OwedStays DEF Place, Go, pointer, bounds, TypeOK
  <2>2. \A j \in Installers : j # i => pc[j] = "idle" /\ pc'[j] = "idle"
    BY <1>5, <1>t, <1>a, <2>1 DEF Place, Go, TypeOK
  <2>3. job[i] \in Bundles /\ Version(i) \in Versions /\ Verifies(staged[i], job[i])
    BY <1>t, <2>1, JobType DEF HoldInv
  <2>4. /\ release'[Version(i)] = staged[i]
        /\ \A v \in Versions : v # Version(i) => release'[v] = release[v]
    BY <1>5, <1>t, <2>3 DEF Place, TypeOK
  <2>5. Newer(job[i], state)
    BY <1>a, <2>1
  <2>6. UnsettledInv'
    <3>1. ASSUME NEW v \in Versions, release'[v] # None, v \notin settled', v # Version(i)
          PROVE  FALSE
      <4>1. release[v] # None /\ v \notin settled
        BY <2>1, <2>4, <3>1
      <4>2. PICK j \in Installers : pc[j] = "settle" /\ Version(j) = v
        BY <1>d, <4>1 DEF UnsettledInv
      <4>3. QED
        BY <2>1, <2>2, <4>2
    <3>2. QED
      BY <2>1, <3>1 DEF UnsettledInv, Version
  <2>7. QuietInv'
    <3>1. (\A j \in Installers : pc[j] # "commit") /\ diskState = {state}
      BY <1>d, <2>1, <2>2 DEF QuietInv
    <3>2. ASSUME state # None, release'[state.version] # None PROVE rooted
      <4>1. state \in Bundles
        BY <1>t, <3>2 DEF TypeOK
      <4>2. job[i].version > state.version
        BY <2>5, <3>2 DEF Newer
      <4>3. state.version # Version(i)
        BY <2>3, <4>1, <4>2, VersionType DEF Version
      <4>4. release[state.version] # None
        BY <2>4, <3>2, <4>1, <4>3, VersionType
      <4>5. QED
        BY <1>d, <3>1, <3>2, <4>4 DEF QuietInv
    <3>3. QED
      BY <2>1, <3>1, <3>2 DEF QuietInv
  <2>8. PlacedSigned'
    <3>1. (Signed(job[i]))'
      BY <2>1, <2>3, <2>4 DEF Signed, Verifies, Files, Version
    <3>2. QED
      BY <2>2, <3>1 DEF PlacedSigned
  <2>9. OnDisk'
    <3>1. ASSUME NEW s \in diskState, s # None, Signed(s) PROVE (Signed(s))'
      BY <1>b, <2>1, <3>1, <1>t, SignedStays
    <3>2. QED
      BY <1>d, <2>1, <3>1 DEF OnDisk
  <2>10. QED
    BY <1>d, <2>1, <2>6, <2>7, <2>8, <2>9 DEF DurableInv
<1>6. ASSUME NEW i \in Installers, Settle(i) PROVE DurableInv'
  <2>1. /\ UNCHANGED <<release, rooted, state, diskState, job, Owed>>
        /\ pc[i] = "settle" /\ pc'[i] = "activate"
        /\ settled' = {v \in Versions : release[v] # None}
        /\ \A j \in Installers : j # i => pc'[j] = pc[j]
    BY <1>6, <1>t, OwedStays DEF Settle, Go, pointer, TypeOK
  <2>2. UnsettledInv'
    BY <2>1 DEF UnsettledInv
  <2>3. QuietInv' /\ PlacedSigned'
    BY <1>d, <2>1 DEF QuietInv, PlacedSigned, Signed
  <2>4. OnDisk'
    BY <1>d, <2>1 DEF OnDisk, Signed
  <2>5. QED
    BY <1>d, <2>1, <2>2, <2>3, <2>4 DEF DurableInv
<1>7. ASSUME NEW i \in Installers, Activate(i) PROVE DurableInv'
  <2>1. /\ UNCHANGED <<release, settled, rooted, job, Owed>>
        /\ pc[i] = "activate" /\ pc'[i] = "commit" /\ state' = job[i]
        /\ diskState' = diskState \cup {job[i]}
        /\ \A j \in Installers : j # i => pc'[j] = pc[j]
    BY <1>7, <1>t, OwedStays DEF Activate, Go, disk, TypeOK
  <2>2. job[i] \in Bundles /\ job[i] # None /\ Newer(job[i], state) /\ Signed(job[i])
    BY <1>t, <1>a, <1>d, <2>1, JobType, NoneApart DEF PlacedSigned
  <2>3. UnsettledInv' /\ QuietInv' /\ PlacedSigned'
    BY <1>d, <2>1 DEF UnsettledInv, QuietInv, PlacedSigned, Signed, Version
  <2>4. ASSUME NEW b \in Owed PROVE job[i].version >= b.version
    <3>1. state # None /\ state.version >= b.version /\ state \in Bundles
      BY <1>d, <1>b, <2>4 DEF OnDisk
    <3>2. job[i].version > state.version
      BY <2>2, <3>1 DEF Newer
    <3>3. job[i].version \in Nat /\ state.version \in Nat /\ b.version \in Nat
      BY <1>b, <2>2, <3>1, VersionType
    <3>4. QED
      BY <3>1, <3>2, <3>3
  <2>5. OnDisk'
    BY <1>d, <2>1, <2>2, <2>4 DEF OnDisk, Signed
  <2>6. QED
    BY <2>1, <2>3, <2>5 DEF DurableInv
<1>8. ASSUME NEW i \in Installers, Commit(i) PROVE DurableInv'
  <2>1. /\ UNCHANGED <<release, settled, state>> /\ rooted' = TRUE
        /\ diskState' = {state} /\ Owed' = Owed \cup {job[i]}
        /\ pc[i] = "commit"
    BY <1>8, <1>t, OwedGrows DEF Commit
  <2>2. \A j \in Installers : pc'[j] = "idle"
    BY <1>8, <1>t, <1>a, <2>1, StopType DEF Commit
  <2>3. job[i] \in Bundles /\ job[i] # None /\ state = job[i] /\ Signed(job[i])
    BY <1>t, <1>a, <1>d, <2>1, JobType, NoneApart DEF PlacedSigned
  <2>4. \A j \in Installers : pc[j] # "settle"
    BY <1>a, <2>1
  <2>5. UnsettledInv'
    BY <1>d, <2>1, <2>4 DEF UnsettledInv
  <2>6. QuietInv' /\ PlacedSigned'
    BY <2>1, <2>2 DEF QuietInv, PlacedSigned
  <2>7. job[i].version >= job[i].version
    BY <2>3, VersionType
  <2>8. OnDisk'
    BY <1>d, <2>1, <2>3, <2>7 DEF OnDisk, Signed
  <2>9. QED
    BY <2>1, <2>5, <2>6, <2>8 DEF DurableInv
<1>9. ASSUME NEW i \in Installers, Refuse(i) PROVE DurableInv'
  <2>1. /\ UNCHANGED <<release, settled, rooted, state, diskState, Owed>>
        /\ pc[i] \in {"look", "stage", "place"}
    BY <1>9, OwedStays DEF Refuse, disk, pointer
  <2>2. \A j \in Installers : pc'[j] = "idle"
    BY <1>9, <1>t, <1>a, <2>1, StopType DEF Refuse
  <2>3. \A j \in Installers : pc[j] \notin {"settle", "commit"}
    BY <1>a, <2>1
  <2>4. UnsettledInv' /\ QuietInv' /\ PlacedSigned'
    BY <1>d, <2>1, <2>2, <2>3 DEF UnsettledInv, QuietInv, PlacedSigned
  <2>5. OnDisk'
    BY <1>d, <2>1 DEF OnDisk, Signed
  <2>6. QED
    BY <1>d, <2>1, <2>4, <2>5 DEF DurableInv
<1>10. ASSUME PowerLoss PROVE DurableInv'
  <2>1. /\ settled' = {v \in Versions : release'[v] # None}
        /\ diskState' = {state'}
        /\ \A i \in Installers : pc'[i] = "idle"
        /\ state' # None => state' \in diskState
        /\ rooted' \/ release' = [v \in Versions |-> None]
    BY <1>10 DEF PowerLoss, Survives, Vanishes
  <2>l. Owed' = {} \/ (Owed' = Owed /\ Survives)
    BY <1>10 DEF PowerLoss, Survives, Vanishes, Owed
  <2>2. UnsettledInv' /\ PlacedSigned'
    BY <2>1 DEF UnsettledInv, PlacedSigned
  <2>3. QuietInv'
    <3>2. \A b \in Bundles : release' = [v \in Versions |-> None] => release'[b.version] = None
      BY VersionType
    <3>3. state' # None => state' \in Bundles
      BY <1>b, <2>1
    <3>4. QED
      BY <2>1, <3>2, <3>3 DEF QuietInv
  <2>4. ASSUME NEW b \in Owed, Owed' = Owed, Survives
        PROVE  rooted' /\ state' # None /\ state'.version >= b.version /\ (Signed(state))'
    <3>1. PICK s \in diskState : s = state'
      BY <2>4 DEF Survives
    <3>2. rooted /\ s # None /\ s.version >= b.version /\ Signed(s) /\ s \in Bundles
      BY <1>d, <1>b, <2>4 DEF OnDisk
    <3>3. rooted' /\ release'[s.version] \in Remains(s.version)
      BY <2>4, <3>2, VersionType DEF Survives
    <3>4. s.version \in settled
      <4> SUFFICES ASSUME s.version \notin settled PROVE FALSE
        OBVIOUS
      <4>1. PICK j \in Installers : pc[j] = "settle" /\ Version(j) = s.version
        BY <1>d, <3>2, VersionType DEF UnsettledInv, Signed
      <4>2. \A k \in Installers : pc[k] # "commit"
        BY <1>a, <4>1
      <4>3. s = state
        BY <1>d, <4>2 DEF QuietInv
      <4>4. job[j].version > s.version /\ job[j].version = s.version
        BY <1>a, <3>2, <4>1, <4>3 DEF Newer, Version
      <4>5. QED
        BY <3>2, <4>4, VersionType
    <3>5. (Signed(s))'
      BY <1>t, <3>2, <3>3, <3>4, SignedRemains
    <3>6. QED
      BY <3>1, <3>2, <3>3, <3>5 DEF Signed
  <2>5. OnDisk'
    BY <2>1, <2>l, <2>4 DEF OnDisk, Signed
  <2>6. QED
    BY <2>1, <2>2, <2>3, <2>5 DEF DurableInv
<1>11. ASSUME UNCHANGED vars PROVE DurableInv'
  BY <1>11, <1>d, OwedStays DEF vars, disk, pointer, procs, DurableInv, UnsettledInv, QuietInv,
     PlacedSigned, OnDisk, Signed, Version
<1>12. ASSUME NEW i \in Installers, Step(i) PROVE DurableInv'
  BY <1>12, <1>2, <1>3, <1>4, <1>5, <1>6, <1>7, <1>8, <1>9, <1>f DEF Step
<1>13. DurableInv'
  BY <1>10, <1>11, <1>12 DEF Next
<1>14. QED
  BY <1>13 DEF DurableInv

-----------------------------------------------------------------------------
\* InstallDistributionBundle: what a command reported as installed is not rolled
\* back, and the manifest and signature current.json names stay, also after a power
\* loss that leaves the store, while commands run one after the other and none is
\* killed or fails as well.
THEOREM ReportsSurvive == Spec => []ConfirmedSurvives
<1>1. Init => FullInv
  BY InitIInv, InitDurable DEF FullInv
<1>2. FullInv /\ [Next]_vars => FullInv'
  BY StepIInv, KeptStep, DurableStep DEF FullInv
<1>3. FullInv => ConfirmedSurvives
  <2> SUFFICES ASSUME IInv, KeptInv, DurableInv, ~overlap, losses = 0 \/ kills + faults = 0, NEW b \in Owed
               PROVE  state # None /\ state.version >= b.version /\ Signed(state)
    BY DEF FullInv, ConfirmedSurvives, Signed
  <2>1. CASE losses = 0
    <3>1. state # None /\ state.version >= b.version
      BY <2>1 DEF KeptInv, Owed
    <3>2. Signed(state)
      BY <2>1, <3>1, VerifiesSigned DEF IInv, ActiveVerifies
    <3>3. QED
      BY <3>1, <3>2
  <2>2. CASE kills + faults = 0
    <3>1. kills \in Nat /\ faults \in Nat
      BY BoundsAssumption DEF IInv, TypeInv, TypeOK
    <3>2. kills = 0 /\ faults = 0
      BY <2>2, <3>1
    <3>3. QED
      BY <3>2 DEF DurableInv, OnDisk
  <2>3. QED
    BY <2>1, <2>2
<1>4. QED
  BY <1>1, <1>2, <1>3, PTL DEF Spec
=============================================================================
