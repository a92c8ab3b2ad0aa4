------------------------ MODULE DistributionInstall ------------------------
(* Installing a signed signature distribution:                                 *)
(* internal/signaturefactory/distribution_install.go, with the verification of *)
(* distribution_bundle.go and the versions of distribution_manifest.go.        *)
(*                                                                             *)
(* Every release has a directory of its own, distributions/<version>, which is *)
(* staged under a temporary name, verified there and renamed into place; then  *)
(* current.json is replaced to name it. The commands take no lock. A directory *)
(* is the bundle each of its files comes from: the source may be built or      *)
(* signed anew while it is copied.                                             *)
(*                                                                             *)
(* A power loss keeps a name only if its directory was fsynced since. The      *)
(* payloads lie in subdirectories that no call fsyncs, and no call fsyncs the  *)
(* directory the store itself was made in.                                     *)
EXTENDS Naturals, FiniteSets

CONSTANTS
  Installers,      \* concurrent install commands, of bundles or of updates
  Bundles,         \* authentic bundles, [version, id]; the id is the digest of the
                   \* manifest, and two bundles may carry one version
  None,            \* no file, no release, no state
  MaxKills,        \* bound on killed commands
  MaxPowerLosses,  \* bound on power losses
  MaxFaults        \* bound on failing calls

Versions == {b.version : b \in Bundles}
Files == {"manifest.json", "manifest.sig", "payloads"}
Trees == [Files -> Bundles \cup {None}]

ASSUME BundlesAssumption ==
  /\ Versions \subseteq Nat
  /\ \A b \in Bundles : b = [version |-> b.version, id |-> b.id]
ASSUME NoneAssumption == None \notin Bundles \cup Trees
ASSUME BoundsAssumption == {MaxKills, MaxPowerLosses, MaxFaults} \subseteq Nat

VARIABLES
  release,    \* [Versions -> what distributions/<version> holds, or None]
  settled,    \* the versions whose directory name is durable
  fragile,    \* the versions a power loss can take the payloads of
  rooted,     \* the name "distributions" is durable
  store,      \* "absent"; "made": its own entry was never fsynced; "durable"
  state,      \* the bundle current.json names, or None
  diskState,  \* what a power loss may leave of current.json
  pc, job,    \* per command: its next step and the bundle it verified
  staged,     \* per command: its staging directory
  confirmed,  \* the bundles reported as installed
  taken,      \* those of them a power loss took with the whole store
  overlap,    \* two commands have been under way at once
  kills, losses, faults

disk == <<release, settled, fragile, rooted, store>>
told == <<confirmed, taken>>
pointer == <<state, diskState>>
procs == <<pc, job, staged>>
bounds == <<kills, losses, faults>>
vars == <<disk, pointer, procs, told, overlap, bounds>>

PCs == {"idle", "look", "stage", "place", "settle", "activate", "commit"}

Init == /\ release = [v \in Versions |-> None]
        /\ settled = {} /\ fragile = {} /\ rooted = FALSE
        /\ store \in {"absent", "durable"}
        /\ state = None /\ diskState = {None}
        /\ pc = [i \in Installers |-> "idle"]
        /\ job = [i \in Installers |-> None]
        /\ staged = [i \in Installers |-> None]
        /\ confirmed = {} /\ taken = {} /\ overlap = FALSE
        /\ kills = 0 /\ losses = 0 /\ faults = 0

\* ReleaseVersion.Compare orders the three numbers of a version as one.
Newer(b, s) == s # None => b.version > s.version

\* VerifyDistributionBundle: manifest, signature and payloads belong together.
Verifies(tree, b) == tree # None /\ \A f \in Files : tree[f] = b

Version(i) == job[i].version
Go(i, from, to) == pc[i] = from /\ pc' = [pc EXCEPT ![i] = to]
Stop(i) == /\ pc' = [pc EXCEPT ![i] = "idle"]
           /\ job' = [job EXCEPT ![i] = None]
           /\ staged' = [staged EXCEPT ![i] = None]

-----------------------------------------------------------------------------
\* The plausible bugs the properties are tested with.

StageUnverified(i) ==  \* the staged copy is not verified again
  /\ Go(i, "stage", "place")
  /\ \E tree \in [Files -> Bundles] :
       tree["manifest.json"] = job[i] /\ staged' = [staged EXCEPT ![i] = tree]
  /\ UNCHANGED <<disk, pointer, job, told, overlap, bounds>>

PlaceAndActivate(i) ==  \* distributions/ is not fsynced before current.json moves
  /\ Go(i, "place", "activate")
  /\ release[Version(i)] = None
  /\ release' = [release EXCEPT ![Version(i)] = staged[i]]
  /\ settled' = settled \ {Version(i)}
  /\ fragile' = fragile \cup {Version(i)}
  /\ staged' = [staged EXCEPT ![i] = None]
  /\ UNCHANGED <<rooted, store, pointer, job, told, overlap, bounds>>

-----------------------------------------------------------------------------
(* InstallDistributionBundle up to its first look at distributions/: the       *)
(* bundle verifies, the store is made where there is none, and the bundle is   *)
(* newer than the active one. A refusal changes nothing that matters (it may   *)
(* create the empty distributions/).                                           *)
Start(i, b) ==
  /\ pc[i] = "idle" /\ Newer(b, state)
  /\ store' = IF store = "absent" THEN "made" ELSE store
  /\ pc' = [pc EXCEPT ![i] = "look"] /\ job' = [job EXCEPT ![i] = b]
  /\ overlap' = (overlap \/ \E j \in Installers : pc[j] # "idle")
  /\ UNCHANGED <<release, settled, fragile, rooted, pointer, staged, told, bounds>>

\* The bundle is the active one already, and still verifies where it lies.
Reinstall(i, b) ==
  /\ pc[i] = "idle" /\ state = b /\ Verifies(release[b.version], b)
  /\ confirmed' = confirmed \cup {b} /\ taken' = taken \ {b}
  /\ overlap' = (overlap \/ \E j \in Installers : pc[j] # "idle")
  /\ UNCHANGED <<disk, pointer, procs, bounds>>

\* The version's directory is free.
Absent(i) ==
  /\ Go(i, "look", "stage")
  /\ release[Version(i)] = None
  /\ UNCHANGED <<disk, pointer, job, staged, told, overlap, bounds>>

\* It is there, with this bundle: it is taken as it is.
Present(i) ==
  /\ Go(i, "look", "activate")
  /\ Verifies(release[Version(i)], job[i])
  /\ UNCHANGED <<disk, pointer, job, staged, told, overlap, bounds>>

\* stageDistributionBundle: every file is copied and fsynced. When the source
\* changed meanwhile, verifying the copy fails (see Refuse).
Stage(i) ==
  /\ Go(i, "stage", "place")
  /\ \E tree \in [Files -> Bundles] :
       Verifies(tree, job[i]) /\ staged' = [staged EXCEPT ![i] = tree]
  /\ UNCHANGED <<disk, pointer, job, told, overlap, bounds>>

\* The directory is renamed: only a name that is free can be taken.
Place(i) ==
  /\ Go(i, "place", "settle")
  /\ release[Version(i)] = None
  /\ release' = [release EXCEPT ![Version(i)] = staged[i]]
  /\ settled' = settled \ {Version(i)}
  /\ fragile' = fragile \cup {Version(i)}
  /\ staged' = [staged EXCEPT ![i] = None]
  /\ UNCHANGED <<rooted, store, pointer, job, told, overlap, bounds>>

\* distributions/ is fsynced, and with it every name in it.
Settle(i) ==
  /\ Go(i, "settle", "activate")
  /\ settled' = {v \in Versions : release[v] # None}
  /\ UNCHANGED <<release, fragile, rooted, store, pointer, job, staged, told, overlap, bounds>>

\* writeDistributionInstallStateAtomic: written and fsynced under another name,
\* renamed.
Activate(i) ==
  /\ Go(i, "activate", "commit")
  /\ state' = job[i]
  /\ diskState' = diskState \cup {job[i]}
  /\ UNCHANGED <<disk, job, staged, told, overlap, bounds>>

\* The store directory is fsynced, and the command reports what it installed.
Commit(i) ==
  /\ pc[i] = "commit"
  /\ diskState' = {state} /\ rooted' = TRUE
  /\ confirmed' = confirmed \cup {job[i]} /\ taken' = taken \ {job[i]}
  /\ Stop(i)
  /\ UNCHANGED <<release, settled, fragile, store, state, overlap, bounds>>

\* Another bundle or a damaged release has the version, or the copy does not verify.
Refuse(i) ==
  /\ \/ /\ pc[i] = "look" /\ release[Version(i)] # None
        /\ ~Verifies(release[Version(i)], job[i])
     \/ pc[i] = "stage"
     \/ pc[i] = "place" /\ release[Version(i)] # None
  /\ Stop(i)
  /\ UNCHANGED <<disk, pointer, told, overlap, bounds>>

\* A failing call ends the command; a staging directory is removed, nothing else.
Fail(i) ==
  /\ pc[i] # "idle"
  /\ faults < MaxFaults /\ faults' = faults + 1
  /\ Stop(i)
  /\ UNCHANGED <<disk, pointer, told, overlap, kills, losses>>

-----------------------------------------------------------------------------
\* A staging directory that stays is not looked at by any command.
Kill(i) ==
  /\ pc[i] # "idle"
  /\ kills < MaxKills /\ kills' = kills + 1
  /\ Stop(i)
  /\ UNCHANGED <<disk, pointer, told, overlap, losses, faults>>

\* What may be left of distributions/<version>.
Remains(v) ==
  {release[v]}
    \cup (IF v \in fragile THEN {[release[v] EXCEPT !["payloads"] = None]} ELSE {})
    \cup (IF v \notin settled THEN {None} ELSE {})

\* Every name keeps what may be left of it; distributions/ may be gone.
Survives ==
  /\ \/ /\ release' \in [Versions -> UNION {Remains(v) : v \in Versions}]
        /\ \A v \in Versions : release'[v] \in Remains(v)
        /\ rooted' = TRUE
     \/ /\ ~rooted /\ rooted' = FALSE
        /\ release' = [v \in Versions |-> None]
  /\ state' \in diskState
  /\ store' = IF store = "made" THEN "durable" ELSE store
  /\ taken' = taken

\* The store was made and its entry never fsynced: all of it is gone.
Vanishes ==
  /\ store = "made" /\ store' = "absent"
  /\ release' = [v \in Versions |-> None] /\ rooted' = FALSE
  /\ state' = None
  /\ taken' = confirmed

PowerLoss ==
  /\ losses < MaxPowerLosses /\ losses' = losses + 1
  /\ Survives \/ Vanishes
  /\ settled' = {v \in Versions : release'[v] # None} /\ fragile' = {}
  /\ diskState' = {state'}
  /\ pc' = [i \in Installers |-> "idle"]
  /\ job' = [i \in Installers |-> None]
  /\ staged' = [i \in Installers |-> None]
  /\ UNCHANGED <<confirmed, overlap, kills, faults>>

Step(i) == \/ \E b \in Bundles : Start(i, b) \/ Reinstall(i, b)
           \/ Absent(i) \/ Present(i) \/ Stage(i) \/ Place(i) \/ Settle(i)
           \/ Activate(i) \/ Commit(i) \/ Refuse(i) \/ Fail(i) \/ Kill(i)

Next == PowerLoss \/ \E i \in Installers : Step(i)

Spec == Init /\ [][Next]_vars

-----------------------------------------------------------------------------
\* Every variable keeps its type (directories, current.json and commands of
\* distribution_install.go).
TypeOK ==
  /\ release \in [Versions -> Trees \cup {None}]
  /\ settled \subseteq Versions /\ fragile \subseteq Versions /\ rooted \in BOOLEAN
  /\ store \in {"absent", "made", "durable"}
  /\ state \in Bundles \cup {None}
  /\ diskState \subseteq Bundles \cup {None}
  /\ pc \in [Installers -> PCs]
  /\ job \in [Installers -> Bundles \cup {None}]
  /\ \A i \in Installers : pc[i] # "idle" => job[i] # None
  /\ staged \in [Installers -> Trees \cup {None}]
  /\ confirmed \subseteq Bundles /\ taken \subseteq confirmed /\ overlap \in BOOLEAN
  /\ kills \in 0..MaxKills /\ losses \in 0..MaxPowerLosses /\ faults \in 0..MaxFaults

\* "Never partially activate a bundle" (M7.4): current.json names a release that
\* is complete and of one authentic bundle, also when commands race, die or fail
\* and when the source changes under them. A power loss is the exception.
ActiveVerifies ==
  losses = 0 /\ state # None => Verifies(release[state.version], state)

\* What was reported and not taken with the store since.
Owed == confirmed \ taken

\* A release that was reported as installed is not rolled back, and the manifest
\* and signature current.json names are there, also after a power loss that leaves
\* the store. With commands that run one after the other, and unless a command was
\* killed or failed as well: the next one takes over names that were never fsynced.
\* The exception is a store the command made itself: no call fsyncs its parent, and
\* the first power loss may take the store with every release reported in it.
ConfirmedSurvives ==
  ~overlap /\ (losses = 0 \/ kills + faults = 0) =>
    \A b \in Owed :
      /\ state # None /\ state.version >= b.version
      /\ release[state.version] # None
      /\ \A f \in {"manifest.json", "manifest.sig"} : release[state.version][f] = state
=============================================================================
