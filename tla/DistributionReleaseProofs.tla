--------------------- MODULE DistributionReleaseProofs ---------------------
(* What holds of releases and of what a client installs, for any number of     *)
(* release commands, keys, versions, mishaps and answers of the servers. The   *)
(* invariant says that a signature of the trusted key is only found on what it *)
(* signed, and what a command that nobody disturbs knows of the directory it   *)
(* works in.                                                                   *)
EXTENDS DistributionRelease, SequenceTheorems, WellFoundedInduction, TLAPS

\* What may lie under a file's name, and a directory of such files.
Fits(f, c) == /\ f \in Payloads => c \in Nat \cup {None}
              /\ f = "manifest.json" => c \in Manifests \cup {None, Torn}
              /\ f = "manifest.sig" => c \in Signatures \cup {None}
IsFunction(g, S) == g = [x \in S |-> g[x]]
Dir(d) == IsFunction(d, Files) /\ \A f \in Files : Fits(f, d[f])

\* The trusted key's signature vouches for a release it has signed.
Content(m) == [version |-> m.version, payloads |-> m.sums]
Vouched(s, released) == s # None /\ s.key = Trusted => Content(s.of) \in released
Sound(d, released) == Dir(d) /\ Vouched(d["manifest.sig"], released)

TablesInv == /\ generated \in [Payloads -> Nat]
             /\ IsFunction(archive, Versions) /\ IsFunction(checksum, Versions)
             /\ IsFunction(reported, Versions) /\ IsFunction(download, Versions)
             /\ pc \in [Releasers -> PCs] /\ alone \in [Releasers -> BOOLEAN]
             /\ IsFunction(job, Releasers)

\* Wherever a signed release lies or passes through, it is sound.
BundleInv == bundle # None => Sound(bundle, signed)
ArchiveInv == \A v \in Versions : archive[v] # None => Sound(archive[v], signed)
DownloadInv == \A v \in Versions : download[v] \notin {None, Torn} => Sound(download[v], signed)

\* What a command holds at each of its steps.
Holds(r) ==
  /\ job[r] = [version |-> job[r].version, key |-> job[r].key, files |-> job[r].files]
  /\ Sound(job[r].files, signed)
Phase(r) ==
  /\ Building(r) \/ pc[r] \in Files \cup {"look", "publish", "digest", "checksum"} =>
       job[r].version \in Versions
  /\ pc[r] \in {"read", "check", "stamp", "sign", "signed"} => job[r].key \in Keys
  /\ pc[r] \in {"copy hsb", "hash hsb", "manifest"} => job[r].files["aaa/bootblocks.json"] \in Nat
  /\ pc[r] = "manifest" => job[r].files["clamav/aaa.hsb"] \in Nat
  /\ pc[r] \in {"check", "stamp", "sign", "signed"} => job[r].files["manifest.json"] \in Manifests
  /\ pc[r] \in {"stamp", "sign", "signed"} => job[r].files["manifest.json"].signer = job[r].key
ProcInv == \A r \in Releasers : Holds(r) /\ Phase(r)

\* What a command nobody disturbs knows of the directory: a sign command that its
\* manifest describes the payloads, an archive command that it packs what it verified.
Packed(at) == IF at \in Files \cup {"publish"}
              THEN {f \in Files : \/ at = "publish"
                                  \/ at = "manifest.sig" /\ f # "manifest.sig"
                                  \/ at = "manifest.json" /\ f \in Payloads
                                  \/ at = "clamav/aaa.hsb" /\ f = "aaa/bootblocks.json"}
              ELSE {}
Describes(m) == bundle # None /\ \A p \in Payloads : bundle[p] = m.sums[p]
SignsAlone(r) ==
  /\ pc[r] \in {"stamp", "sign", "signed"} => Describes(job[r].files["manifest.json"])
  /\ pc[r] \in {"sign", "signed"} => bundle["manifest.json"] = job[r].files["manifest.json"]
  /\ pc[r] = "signed" =>
       bundle["manifest.sig"] = Signature(job[r].files["manifest.json"], job[r].key)
Good(v, files) == Verifies(files, Trusted) /\ Agrees(v, files)
PacksAlone(r) ==
  /\ pc[r] \in Files \cup {"look", "publish"} => Good(job[r].version, bundle)
  /\ \A f \in Packed(pc[r]) : job[r].files[f] = bundle[f]
  /\ pc[r] \in {"digest", "checksum"} => Good(job[r].version, archive[job[r].version])
  /\ pc[r] = "checksum" => /\ archive[job[r].version] = job[r].files
                          /\ job[r].version \notin unsynced
AloneInv == \A r \in Releasers : alone[r] =>
  /\ \A q \in Releasers \ {r} : pc[q] = "idle"
  /\ SignsAlone(r) /\ PacksAlone(r)

\* A bundle that must verify is under no command that could change it.
FreshInv == fresh # None => /\ Verifies(bundle, fresh)
                            /\ \A r \in Releasers :
                                 pc[r] \in Files \cup {"idle", "look", "publish", "digest", "checksum"}

\* An archive that was reported is good and durable as far as its directory is, and
\* no command is about to replace it.
Owed(v) == reported[v] # None /\ v \notin taken
Stays(v) == Owed(v) =>
  /\ archive[v] = reported[v] /\ v \notin unsynced
  /\ v \in summed => checksum[v] = reported[v]
  /\ Good(v, archive[v])
  /\ \A r \in Releasers :
       pc[r] \in Files \cup {"publish", "digest", "checksum"} => job[r].version # v
ReportInv == \A v \in Versions : Stays(v)

SoundInv == TablesInv /\ BundleInv /\ ArchiveInv /\ DownloadInv /\ ProcInv
IInv == /\ SoundInv /\ AloneInv /\ FreshInv
        /\ ReportInv /\ InstalledWasSigned

-----------------------------------------------------------------------------
\* Files and directories.
LEMMA Names ==
  /\ "manifest.json" \in Files /\ "manifest.sig" \in Files
  /\ "manifest.json" \notin Payloads /\ "manifest.sig" \notin Payloads
  /\ "aaa/bootblocks.json" \in Payloads /\ "clamav/aaa.hsb" \in Payloads /\ Payloads \subseteq Files
  /\ \A f \in Files : f \in Payloads \/ f = "manifest.json" \/ f = "manifest.sig"
  /\ \A p \in Payloads : p = "aaa/bootblocks.json" \/ p = "clamav/aaa.hsb"
BY DEF Files, Payloads

LEMMA NoneIsNothing ==
  /\ None \notin Manifests /\ Torn \notin Manifests /\ None \notin Signatures
  /\ None \notin Keys /\ None \notin Nat /\ None # Torn
BY MarksAssumption, ValuesAssumption

LEMMA DirIsSome == ASSUME NEW d, Dir(d) PROVE d # None
<1>1. d = [f \in Files |-> d[f]]
  BY DEF Dir, IsFunction
<1>2. \A f \in Files : d[f] \in Contents
  BY Names DEF Dir, Fits, Contents
<1>3. d \in [Files -> Contents]
  BY <1>1, <1>2
<1>4. QED
  BY <1>3, MarksAssumption

LEMMA NoFilesSound == \A S : Sound(NoFiles, S)
BY Names DEF Sound, Dir, IsFunction, NoFiles, Fits, Vouched

LEMMA NoFilesEmpty == \A f \in Files : NoFiles[f] = None
BY DEF NoFiles

LEMMA Grows ==
  ASSUME NEW d, NEW S, NEW T, Sound(d, S), S \subseteq T
  PROVE  Sound(d, T)
BY DEF Sound, Vouched

LEMMA DirPut ==
  ASSUME NEW d, NEW S, NEW f \in Files, NEW c, Sound(d, S), Fits(f, c),
         f = "manifest.sig" => Vouched(c, S)
  PROVE  /\ Sound([d EXCEPT ![f] = c], S)
         /\ [d EXCEPT ![f] = c][f] = c
         /\ \A g \in Files \ {f} : [d EXCEPT ![f] = c][g] = d[g]
<1> DEFINE e == [d EXCEPT ![f] = c]
<1>1. d = [x \in Files |-> d[x]] /\ \A x \in Files : Fits(x, d[x])
  BY DEF Sound, Dir, IsFunction
<1>2. /\ e[f] = c /\ \A g \in Files \ {f} : e[g] = d[g]
      /\ e = [x \in Files |-> e[x]]
  BY <1>1
<1>3. \A x \in Files : Fits(x, e[x])
  BY <1>1, <1>2
<1>4. Vouched(e["manifest.sig"], S)
  BY <1>2, Names DEF Sound
<1>5. QED
  BY <1>2, <1>3, <1>4 DEF Sound, Dir, IsFunction

LEMMA SameFiles ==
  ASSUME NEW d, NEW e, Dir(d), Dir(e), \A f \in Files : d[f] = e[f]
  PROVE  d = e
<1>1. d = [f \in Files |-> d[f]] /\ e = [f \in Files |-> e[f]]
  BY DEF Dir, IsFunction
<1>2. [f \in Files |-> d[f]] = [f \in Files |-> e[f]]
  OBVIOUS
<1>3. QED
  BY <1>1, <1>2

LEMMA ManifestFields ==
  ASSUME NEW m \in Manifests
  PROVE  /\ m.version \in Versions /\ m.signer \in Keys \cup {None}
         /\ m.sums \in [Payloads -> Nat]
         /\ m # None /\ m # Torn
BY NoneIsNothing DEF Manifests

LEMMA StampIsManifest ==
  ASSUME NEW m \in Manifests, NEW k \in Keys
  PROVE  /\ Stamp(m, k) \in Manifests /\ Stamp(m, k).signer = k
         /\ Stamp(m, k).sums = m.sums /\ Stamp(m, k).version = m.version
BY DEF Stamp, Manifests

LEMMA SignatureFields ==
  ASSUME NEW m \in Manifests, NEW k \in Keys
  PROVE  /\ Signature(m, k) \in Signatures /\ Signature(m, k).key = k /\ Signature(m, k).of = m
         /\ Signature(m, k) # None
BY NoneIsNothing DEF Signature, Signatures

-----------------------------------------------------------------------------
\* Commands.
LEMMA Stopped ==
  ASSUME TablesInv, NEW R, Stop(R)
  PROVE  /\ pc' \in [Releasers -> PCs] /\ alone' \in [Releasers -> BOOLEAN]
         /\ IsFunction(job', Releasers)
         /\ \A q \in Releasers : /\ alone'[q] => alone[q] /\ q \notin R
                                 /\ q \in R => pc'[q] = "idle" /\ job'[q] = NoJob
                                 /\ q \notin R => pc'[q] = pc[q] /\ job'[q] = job[q]
BY DEF Stop, TablesInv, IsFunction, PCs

LEMMA IdleHolds ==
  ASSUME NEW r \in Releasers, job[r] = NoJob, pc[r] = "idle"
  PROVE  Holds(r) /\ Phase(r)
<1>1. Holds(r)
  BY NoFilesSound DEF Holds, NoJob
<1>2. Phase(r)
  BY DEF Phase, Building, Files, Payloads
<1>3. QED
  BY <1>1, <1>2

LEMMA Went ==
  ASSUME TablesInv, NEW r \in Releasers, NEW from, NEW to, to \in PCs, Go(r, from, to)
  PROVE  /\ pc[r] = from /\ pc'[r] = to /\ pc' \in [Releasers -> PCs]
         /\ \A q \in Releasers \ {r} : pc'[q] = pc[q]
BY DEF Go, TablesInv

\* What a command holds grows by one file, or is read anew.
Keeps(r, f, c) == job' = [job EXCEPT ![r].files[f] = c]
Rereads(r, d) == job' = [job EXCEPT ![r].files = d]

LEMMA JobFill ==
  ASSUME TablesInv, NEW r \in Releasers, NEW d, Holds(r), Rereads(r, d)
  PROVE  /\ IsFunction(job', Releasers) /\ \A q \in Releasers \ {r} : job'[q] = job[q]
         /\ job'[r].files = d
         /\ job'[r].version = job[r].version /\ job'[r].key = job[r].key
         /\ job'[r] = [version |-> job'[r].version, key |-> job'[r].key, files |-> job'[r].files]
BY DEF TablesInv, IsFunction, Holds, Rereads

\* A command starts.
LEMMA Started ==
  ASSUME TablesInv, NEW r \in Releasers, NEW first \in PCs, NEW v, NEW k, Start(r, first, v, k)
  PROVE  /\ pc[r] = "idle" /\ pc'[r] = first /\ \A q \in Releasers \ {r} : pc'[q] = pc[q]
         /\ \A q \in Releasers \ {r} : job'[q] = job[q]
         /\ job'[r] = [version |-> v, key |-> k, files |-> NoFiles]
         /\ pc' \in [Releasers -> PCs] /\ alone' \in [Releasers -> BOOLEAN]
         /\ IsFunction(job', Releasers)
         /\ \A q \in Releasers : alone'[q] => q = r /\ \A s \in Releasers : pc[s] = "idle"
         /\ UNCHANGED <<generated, releases, consumer, signed>>
BY DEF Start, Go, TablesInv, IsFunction, NoJob

-----------------------------------------------------------------------------
\* The steps of a command, by what they leave alone.
Begins(r) == \/ \E v \in Versions : Build(r, v) \/ Archive(r, v)
             \/ \E k \in Keys : Sign(r, k)
Copies(r) == \/ CopyPayload(r, "aaa/bootblocks.json", "copy boot", "hash boot")
             \/ CopyPayload(r, "clamav/aaa.hsb", "copy hsb", "hash hsb")
Lays(r) == Copies(r) \/ PutManifest(r) \/ PutSignature(r) \/ Look(r) \/ Publish(r)
Hashes(r) == \/ Identify(r, "aaa/bootblocks.json", "hash boot", "copy hsb")
             \/ Identify(r, "clamav/aaa.hsb", "hash hsb", "manifest")
Fills(r) == Hashes(r) \/ ReadManifest(r) \/ CheckPayloads(r) \/ PackEntry(r) \/ Digest(r)
Ends(r) == \/ WriteManifest(r) \/ AbandonBuild(r) \/ ReportSigned(r) \/ ReportArchive(r)
           \/ WriteChecksum(r) \/ AbandonChecksum(r) \/ Refuse(r) \/ Fail(r) \/ Kill(r)

LEMMA StepCases ==
  ASSUME NEW r \in Releasers, Step(r)
  PROVE  Lays(r) \/ Fills(r) \/ Ends(r)
BY DEF Step, Lays, Copies, Fills, Hashes, Ends

LEMMA NextCases ==
  ASSUME [Next]_vars
  PROVE  \/ \E r \in Releasers : Begins(r) \/ Lays(r) \/ Fills(r) \/ Ends(r)
         \/ \E p \in Payloads : Export(p)
         \/ RemoveBundle \/ \E v \in Versions : RemoveArchive(v)
         \/ PowerLoss \/ Update \/ UNCHANGED vars
BY StepCases DEF Next, Begins

LEMMA EntryList ==
  /\ ArchivePaths[1] = "aaa/bootblocks.json" /\ ArchivePaths[2] = "clamav/aaa.hsb"
  /\ ArchivePaths[3] = "manifest.json" /\ ArchivePaths[4] = "manifest.sig"
  /\ Len(ArchivePaths) = 4 /\ DOMAIN ArchivePaths = {1, 2, 3, 4}
  /\ Head(ArchivePaths) = "aaa/bootblocks.json"
BY DEF ArchivePaths

LEMMA AfterEach ==
  /\ AfterEntry("aaa/bootblocks.json") = "clamav/aaa.hsb"
  /\ AfterEntry("clamav/aaa.hsb") = "manifest.json"
  /\ AfterEntry("manifest.json") = "manifest.sig"
  /\ AfterEntry("manifest.sig") = "publish"
<1> HIDE DEF ArchivePaths
<1>1. AfterEntry("aaa/bootblocks.json") = "clamav/aaa.hsb"
  <2> DEFINE i == CHOOSE n \in DOMAIN ArchivePaths : ArchivePaths[n] = "aaa/bootblocks.json"
  <2>1. i = 1
    BY EntryList
  <2>2. QED
    BY <2>1, EntryList DEF AfterEntry
<1>2. AfterEntry("clamav/aaa.hsb") = "manifest.json"
  <2> DEFINE i == CHOOSE n \in DOMAIN ArchivePaths : ArchivePaths[n] = "clamav/aaa.hsb"
  <2>1. i = 2
    BY EntryList
  <2>2. QED
    BY <2>1, EntryList DEF AfterEntry
<1>3. AfterEntry("manifest.json") = "manifest.sig"
  <2> DEFINE i == CHOOSE n \in DOMAIN ArchivePaths : ArchivePaths[n] = "manifest.json"
  <2>1. i = 3
    BY EntryList
  <2>2. QED
    BY <2>1, EntryList DEF AfterEntry
<1>4. AfterEntry("manifest.sig") = "publish"
  <2> DEFINE i == CHOOSE n \in DOMAIN ArchivePaths : ArchivePaths[n] = "manifest.sig"
  <2>1. i = 4
    BY EntryList
  <2>2. QED
    BY <2>1, EntryList DEF AfterEntry
<1>5. QED
  BY <1>1, <1>2, <1>3, <1>4

LEMMA AfterIsPC == \A f \in Files : AfterEntry(f) \in PCs
BY AfterEach DEF Files, Payloads, PCs

LEMMA EndsEffect ==
  ASSUME NEW r \in Releasers, Ends(r)
  PROVE  Stop({r}) /\ pc[r] # "idle" /\ UNCHANGED <<generated, consumer, signed>>
<1>1. CASE WriteManifest(r) \/ AbandonBuild(r) \/ ReportSigned(r)
  BY <1>1 DEF WriteManifest, AbandonBuild, ReportSigned, Building
<1>5. CASE ReportArchive(r) \/ WriteChecksum(r) \/ AbandonChecksum(r)
  BY <1>5 DEF ReportArchive, WriteChecksum, AbandonChecksum
<1>2. CASE Refuse(r)
  BY <1>2 DEF Refuse, Amiss, Files, Payloads
<1>3. CASE Fail(r) \/ Kill(r)
  BY <1>3 DEF Fail, Kill
<1>4. QED
  BY <1>1, <1>2, <1>3, <1>5 DEF Ends

\* A step that packs or copies goes on, and leaves the rest alone.
LEMMA FillsEffect ==
  ASSUME NEW r \in Releasers, Fills(r)
  PROVE  /\ pc[r] # "idle" /\ \E to \in PCs : Go(r, pc[r], to)
         /\ UNCHANGED <<generated, bundle, archive, checksum, anchored, reports, alone, consumer, signed, fresh>>
         /\ unsynced' \in {unsynced, {}}
<1>1. CASE Hashes(r)
  BY <1>1 DEF Hashes, Identify, PCs, Go, releases, shelf
<1>2. CASE ReadManifest(r) \/ CheckPayloads(r) \/ Digest(r)
  BY <1>2 DEF ReadManifest, CheckPayloads, Digest, PCs, Go, releases, shelf
<1>3. CASE PackEntry(r)
  BY <1>3, AfterIsPC DEF PackEntry, Files, Payloads, releases, shelf
<1>4. QED
  BY <1>1, <1>2, <1>3 DEF Fills

LEMMA LaysEffect ==
  ASSUME NEW r \in Releasers, Lays(r)
  PROVE  /\ pc[r] # "idle" /\ \E to \in PCs : Go(r, pc[r], to)
         /\ UNCHANGED <<generated, checksum, anchored, reports, job, alone, consumer, fresh>>
         /\ signed \subseteq signed'
<1>1. CASE Copies(r)
  BY <1>1 DEF Copies, CopyPayload, PCs, Go, releases, shelf
<1>2. CASE PutManifest(r) \/ PutSignature(r) \/ Publish(r)
  BY <1>2 DEF PutManifest, PutSignature, Publish, PCs, Go, releases, shelf
<1>3. CASE Look(r)
  BY <1>3, EntryList DEF Look, PCs, Go, releases, shelf, Files, Payloads
<1>4. QED
  BY <1>1, <1>2, <1>3 DEF Lays

\* A command that has just started holds no file, and is alone only among idle ones.
Opens(r) ==
  /\ pc[r] = "idle" /\ \A q \in Releasers \ {r} : pc'[q] = pc[q] /\ job'[q] = job[q]
  /\ pc' \in [Releasers -> PCs] /\ alone' \in [Releasers -> BOOLEAN]
  /\ IsFunction(job', Releasers)
  /\ \A q \in Releasers : alone'[q] => q = r /\ \A s \in Releasers : pc[s] = "idle"
  /\ UNCHANGED <<generated, releases, consumer, signed>>
  /\ job'[r] = [version |-> job'[r].version, key |-> job'[r].key, files |-> NoFiles]
  /\ job'[r].files = NoFiles

LEMMA BeginsFrame ==
  ASSUME TablesInv, NEW r \in Releasers, NEW first \in PCs, NEW v, NEW k, Start(r, first, v, k)
  PROVE  Opens(r) /\ pc'[r] = first /\ job'[r].version = v /\ job'[r].key = k
<1>1. job'[r] = [version |-> v, key |-> k, files |-> NoFiles] /\ pc'[r] = first
  BY Started
<1>2. job'[r].version = v /\ job'[r].key = k /\ job'[r].files = NoFiles
  BY <1>1
<1>3. job'[r] = [version |-> job'[r].version, key |-> job'[r].key, files |-> NoFiles]
  BY <1>1, <1>2
<1>4. QED
  BY <1>1, <1>2, <1>3, Started DEF Opens

LEMMA BeginsEffect ==
  ASSUME TablesInv, NEW r \in Releasers, Begins(r)
  PROVE  /\ Opens(r)
         /\ \/ /\ pc'[r] = "copy boot" /\ job'[r].version \in Versions
               /\ bundle = None /\ bundle' = NoFiles /\ fresh' = fresh
            \/ /\ pc'[r] = "look" /\ job'[r].version \in Versions
               /\ Good(job'[r].version, bundle) /\ UNCHANGED <<bundle, fresh>>
            \/ /\ pc'[r] = "read" /\ job'[r].key \in Keys
               /\ bundle' = bundle /\ fresh' = None
<1>p. "copy boot" \in PCs /\ "look" \in PCs /\ "read" \in PCs
  BY DEF PCs
<1>1. ASSUME NEW v \in Versions, Build(r, v)
      PROVE  Start(r, "copy boot", v, None) /\ bundle = None /\ bundle' = NoFiles /\ fresh' = fresh
  BY <1>1 DEF Build
<1>2. ASSUME NEW v \in Versions, Archive(r, v)
      PROVE  Start(r, "look", v, None) /\ Good(v, bundle) /\ UNCHANGED <<bundle, fresh>>
  BY <1>2 DEF Archive, Good
<1>3. ASSUME NEW k \in Keys, Sign(r, k)
      PROVE  Start(r, "read", None, k) /\ bundle' = bundle /\ fresh' = None
  BY <1>3 DEF Sign
<1>4. CASE \E v \in Versions : Build(r, v)
  <2>1. PICK v \in Versions : Build(r, v)
    BY <1>4
  <2>2. QED
    BY <2>1, <1>1, <1>p, BeginsFrame
<1>5. CASE \E v \in Versions : Archive(r, v)
  <2>1. PICK v \in Versions : Archive(r, v)
    BY <1>5
  <2>2. QED
    BY <2>1, <1>2, <1>p, BeginsFrame
<1>6. CASE \E k \in Keys : Sign(r, k)
  <2>1. PICK k \in Keys : Sign(r, k)
    BY <1>6
  <2>2. QED
    BY <2>1, <1>3, <1>p, BeginsFrame
<1>7. QED
  BY <1>4, <1>5, <1>6 DEF Begins

LEMMA UpdateEffect ==
  ASSUME TablesInv, Update
  PROVE  /\ UNCHANGED <<generated, bundle, releases, procs, signed, fresh>>
         /\ IsFunction(download', Versions)
         /\ \A v \in Versions : \/ download'[v] \in {download[v], None, Torn}
                                \/ \E w \in Versions : archive[w] # None /\ download'[v] = archive[w]
         /\ \/ active' = active
            \/ \E v \in Versions : Install(v)
<1>1. ASSUME NEW feed \in Feeds, Check(feed)
      PROVE  UNCHANGED <<generated, bundle, releases, procs, signed, fresh, download, active>>
  BY <1>1 DEF Check
<1>2. ASSUME NEW v \in Versions, NEW e, Download(v, e)
      PROVE  UNCHANGED <<generated, bundle, releases, procs, signed, fresh, download, active>>
  BY <1>2 DEF Download
<1>3. ASSUME NEW v \in Versions, Install(v)
      PROVE  UNCHANGED <<generated, bundle, releases, procs, signed, fresh, download>>
  BY <1>3 DEF Install
<1>4. ASSUME NEW v \in Versions, Discard(v)
      PROVE  /\ UNCHANGED <<generated, bundle, releases, procs, signed, fresh, active>>
             /\ download' = [download EXCEPT ![v] = None]
  BY <1>4 DEF Discard
<1>5. ASSUME Fetch
      PROVE  /\ UNCHANGED <<generated, bundle, releases, procs, signed, fresh, active>>
             /\ \/ download' = download
                \/ \E body \in Bodies : download' = [download EXCEPT ![client.version] = body]
  BY <1>5 DEF Fetch
<1>6. IsFunction(download, Versions)
  BY DEF TablesInv
<1>7. CASE Fetch
  <2>1. CASE download' = download
    BY <1>5, <1>6, <1>7, <2>1
  <2>2. ASSUME NEW body \in Bodies, download' = [download EXCEPT ![client.version] = body]
        PROVE  /\ IsFunction(download', Versions)
               /\ \A v \in Versions : download'[v] \in {download[v], body}
    BY <1>6, <2>2 DEF IsFunction
  <2>3. \A body \in Bodies : body = Torn \/ \E w \in Versions : archive[w] # None /\ body = archive[w]
    BY DEF Bodies
  <2>4. QED
    BY <1>5, <1>7, <2>1, <2>2, <2>3
<1>8. ASSUME NEW v \in Versions, Discard(v)
      PROVE  /\ IsFunction(download', Versions)
             /\ \A w \in Versions : download'[w] \in {download[w], None}
  BY <1>4, <1>6, <1>8 DEF IsFunction
<1>9. CASE \E v \in Versions : Discard(v)
  BY <1>4, <1>8, <1>9
<1>10. CASE (\E feed \in Feeds : Check(feed)) \/ \E v \in Versions : (\E e \in {None, checksum[v]} : Download(v, e)) \/ Install(v)
  BY <1>1, <1>2, <1>3, <1>6, <1>10
<1>11. QED
  BY <1>7, <1>9, <1>10 DEF Update

\* The operator's hand and the power.
LEMMA HandEffect ==
  ASSUME TablesInv, RemoveBundle \/ PowerLoss \/ \E v \in Versions : RemoveArchive(v)
  PROVE  /\ UNCHANGED <<generated, consumer, signed>>
         /\ \A r \in Releasers : ~alone'[r]
         /\ pc' \in [Releasers -> PCs] /\ alone' \in [Releasers -> BOOLEAN]
         /\ IsFunction(job', Releasers)
         /\ \A r \in Releasers : \/ pc'[r] = pc[r] /\ job'[r] = job[r]
                                 \/ pc'[r] = "idle" /\ job'[r] = NoJob
         /\ \/ UNCHANGED <<bundle, fresh>> /\ ~PowerLoss
            \/ fresh' = None
<1>1. CASE RemoveBundle
  BY <1>1 DEF RemoveBundle, Disturbed, TablesInv, releases
<1>2. ASSUME NEW v \in Versions, RemoveArchive(v), ~PowerLoss
      PROVE  /\ UNCHANGED <<generated, consumer, signed, bundle, fresh, pc, job>>
             /\ alone' = [r \in Releasers |-> FALSE]
  BY <1>2 DEF RemoveArchive, Disturbed
<1>3. CASE PowerLoss
  <2>1. /\ Stop(Releasers) /\ UNCHANGED <<generated, consumer, signed>>
        /\ fresh' = None
    BY <1>3 DEF PowerLoss
  <2>2. QED
    BY <2>1, Stopped
<1>4. QED
  BY <1>1, <1>2, <1>3 DEF TablesInv

LEMMA SignedGrows == ASSUME TablesInv, [Next]_vars PROVE signed \subseteq signed'
<1>1. ASSUME NEW r \in Releasers, Begins(r) \/ Lays(r) \/ Fills(r) \/ Ends(r) PROVE signed \subseteq signed'
  BY <1>1, BeginsEffect, LaysEffect, FillsEffect, EndsEffect DEF Opens
<1>2. ASSUME NEW p \in Payloads, Export(p) PROVE signed \subseteq signed'
  BY <1>2 DEF Export
<1>3. QED
  BY <1>1, <1>2, HandEffect, UpdateEffect, NextCases DEF vars

-----------------------------------------------------------------------------
\* The tables keep their shape.
LEMMA TablesStep == TablesInv /\ [Next]_vars => TablesInv'
<1> SUFFICES ASSUME TablesInv, [Next]_vars PROVE TablesInv'
  OBVIOUS
<1>1. ASSUME NEW r \in Releasers, Begins(r) PROVE TablesInv'
  BY <1>1, BeginsEffect DEF Opens, TablesInv, releases, reports, consumer
<1>2. ASSUME NEW r \in Releasers, Lays(r) PROVE TablesInv'
  <2>1. /\ \E to \in PCs : Go(r, pc[r], to)
        /\ UNCHANGED <<generated, checksum, reported, job, alone, consumer>>
    BY <1>2, LaysEffect DEF reports
  <2>2. pc' \in [Releasers -> PCs]
    BY <2>1, Went
  <2>3. IsFunction(archive', Versions)
    BY <1>2 DEF Lays, Copies, CopyPayload, PutManifest, PutSignature, Look, Publish,
                releases, TablesInv, IsFunction
  <2>4. QED
    BY <2>1, <2>2, <2>3 DEF TablesInv, consumer
<1>3. ASSUME NEW r \in Releasers, Fills(r) PROVE TablesInv'
  <2>1. /\ \E to \in PCs : Go(r, pc[r], to)
        /\ UNCHANGED <<generated, archive, checksum, reported, alone, consumer>>
    BY <1>3, FillsEffect DEF reports
  <2>2. pc' \in [Releasers -> PCs]
    BY <2>1, Went
  <2>3. IsFunction(job', Releasers)
    <3>1. CASE Hashes(r)
      BY <3>1 DEF Hashes, Identify, TablesInv, IsFunction
    <3>2. CASE ReadManifest(r)
      BY <3>2 DEF ReadManifest, TablesInv, IsFunction
    <3>3. CASE CheckPayloads(r)
      BY <3>3 DEF CheckPayloads, TablesInv, IsFunction
    <3>4. CASE PackEntry(r)
      BY <3>4 DEF PackEntry, TablesInv, IsFunction
    <3>5. CASE Digest(r)
      BY <3>5 DEF Digest, TablesInv, IsFunction
    <3>6. QED
      BY <1>3, <3>1, <3>2, <3>3, <3>4, <3>5 DEF Fills
  <2>4. QED
    BY <2>1, <2>2, <2>3 DEF TablesInv, consumer
<1>4. ASSUME NEW r \in Releasers, Ends(r) PROVE TablesInv'
  <2>1. Stop({r}) /\ UNCHANGED <<generated, consumer>>
    BY <1>4, EndsEffect
  <2>2. IsFunction(archive', Versions)
    BY <1>4 DEF Ends, WriteManifest, AbandonBuild, ReportSigned, ReportArchive, WriteChecksum, AbandonChecksum,
                Refuse, Fail, Kill, Reports, TablesInv, IsFunction, releases, reports
  <2>3. IsFunction(checksum', Versions)
    BY <1>4 DEF Ends, WriteManifest, AbandonBuild, ReportSigned, ReportArchive, WriteChecksum, AbandonChecksum,
                Refuse, Fail, Kill, Reports, TablesInv, IsFunction, releases, reports
  <2>4. IsFunction(reported', Versions)
    BY <1>4 DEF Ends, WriteManifest, AbandonBuild, ReportSigned, ReportArchive, WriteChecksum, AbandonChecksum,
                Refuse, Fail, Kill, Reports, TablesInv, IsFunction, releases, reports
  <2>5. QED
    BY <2>1, <2>2, <2>3, <2>4, Stopped DEF TablesInv, consumer
<1>5. ASSUME NEW p \in Payloads, Export(p) PROVE TablesInv'
  BY <1>5 DEF Export, TablesInv, releases, reports, procs, consumer
<1>6. CASE RemoveBundle \/ PowerLoss \/ \E v \in Versions : RemoveArchive(v)
  <2>1. IsFunction(archive', Versions) /\ IsFunction(checksum', Versions) /\ IsFunction(reported', Versions)
    BY <1>6 DEF RemoveBundle, PowerLoss, ShelfVanishes, ShelfSurvives, RemoveArchive, TablesInv,
                IsFunction, releases, reports
  <2>2. QED
    BY <1>6, <2>1, HandEffect DEF TablesInv, consumer
<1>7. CASE Update
  BY <1>7, UpdateEffect DEF TablesInv, releases, reports, procs
<1>8. CASE UNCHANGED vars
  BY <1>8 DEF vars, TablesInv, releases, reports, procs, consumer
<1>9. QED
  BY <1>1, <1>2, <1>3, <1>4, <1>5, <1>6, <1>7, <1>8, NextCases

-----------------------------------------------------------------------------
\* The bundle stays sound: what is put there is a payload, a manifest or the
\* signature of one, which is then among the signed ones.
LEMMA BundleStep == SoundInv /\ [Next]_vars => BundleInv'
<1> SUFFICES ASSUME SoundInv, [Next]_vars PROVE BundleInv'
  OBVIOUS
<1>t. TablesInv /\ BundleInv /\ ProcInv /\ signed \subseteq signed'
  BY SignedGrows DEF SoundInv
<1>0. ASSUME bundle' \in {bundle, None, NoFiles} PROVE BundleInv'
  BY <1>t, <1>0, NoFilesSound, Grows DEF BundleInv
<1>1. ASSUME NEW r \in Releasers, Begins(r) PROVE BundleInv'
  BY <1>t, <1>0, <1>1, BeginsEffect
<1>2. ASSUME NEW r \in Releasers, NEW p \in Payloads, NEW from, NEW to, CopyPayload(r, p, from, to)
      PROVE BundleInv'
  <2> DEFINE old == IF bundle = None THEN NoFiles ELSE bundle
  <2>1. Sound(old, signed) /\ bundle' = [old EXCEPT ![p] = generated[p]] /\ signed' = signed
    BY <1>t, <1>2, NoFilesSound DEF BundleInv, CopyPayload
  <2>2. Fits(p, generated[p]) /\ p \in Files /\ p # "manifest.sig"
    BY <1>t, Names DEF Fits, TablesInv
  <2> HIDE DEF old
  <2>3. Sound(bundle', signed')
    BY <2>1, <2>2, DirPut
  <2>4. QED
    BY <2>3 DEF BundleInv
<1>3. ASSUME NEW r \in Releasers, PutManifest(r) PROVE BundleInv'
  <2> DEFINE m == job[r].files["manifest.json"]
  <2>1. /\ pc[r] = "stamp" /\ bundle # None /\ signed' = signed
        /\ bundle' = [bundle EXCEPT !["manifest.json"] = m]
    BY <1>3 DEF PutManifest, Go
  <2>2. Sound(bundle, signed) /\ Fits("manifest.json", m)
    BY <1>t, <2>1, Names DEF BundleInv, ProcInv, Phase, Fits
  <2> HIDE DEF m
  <2>3. Sound(bundle', signed')
    BY <2>1, <2>2, DirPut, Names
  <2>4. QED
    BY <2>3 DEF BundleInv
<1>4. ASSUME NEW r \in Releasers, PutSignature(r) PROVE BundleInv'
  <2> DEFINE m == job[r].files["manifest.json"]
             s == Signature(m, job[r].key)
  <2>1. /\ pc[r] = "sign" /\ bundle # None
        /\ bundle' = [bundle EXCEPT !["manifest.sig"] = s]
        /\ job[r].key = Trusted => Content(m) \in signed'
    BY <1>4 DEF PutSignature, Go, Content
  <2>2. m \in Manifests /\ job[r].key \in Keys /\ Sound(bundle, signed')
    BY <1>t, <2>1, Grows DEF BundleInv, ProcInv, Phase
  <2>3. Fits("manifest.sig", s) /\ Vouched(s, signed')
    BY <2>1, <2>2, SignatureFields, Names DEF Fits, Vouched
  <2> HIDE DEF s, m
  <2>4. Sound(bundle', signed')
    BY <2>1, <2>2, <2>3, DirPut, Names
  <2>5. QED
    BY <2>4 DEF BundleInv
<1>5. ASSUME NEW r \in Releasers, Look(r) \/ Publish(r) \/ Fills(r) PROVE BundleInv'
  BY <1>0, <1>5, FillsEffect DEF Look, Publish
<1>6. ASSUME NEW r \in Releasers, WriteManifest(r) PROVE BundleInv'
  <2> DEFINE m == Manifest(job[r].version, None, job[r].files)
  <2>1. /\ pc[r] = "manifest" /\ bundle # None /\ signed' = signed
        /\ bundle' = [bundle EXCEPT !["manifest.json"] = m]
    BY <1>6 DEF WriteManifest
  <2>2. /\ job[r].version \in Versions /\ job[r].files["aaa/bootblocks.json"] \in Nat
        /\ job[r].files["clamav/aaa.hsb"] \in Nat
    BY <1>t, <2>1 DEF ProcInv, Phase, Building
  <2>3. [p \in Payloads |-> job[r].files[p]] \in [Payloads -> Nat]
    BY <2>2 DEF Payloads
  <2>4. m \in Manifests
    BY <2>2, <2>3 DEF Manifest, Manifests
  <2>5. Sound(bundle, signed) /\ Fits("manifest.json", m)
    BY <1>t, <2>1, <2>4, Names DEF BundleInv, Fits
  <2> HIDE DEF m
  <2>6. Sound(bundle', signed')
    BY <2>1, <2>5, DirPut, Names
  <2>7. QED
    BY <2>6 DEF BundleInv
<1>7. ASSUME NEW r \in Releasers, Ends(r), ~WriteManifest(r) PROVE BundleInv'
  <2>1. \/ bundle' \in {bundle, None}
        \/ bundle # None /\ bundle' = [bundle EXCEPT !["manifest.json"] = Torn] /\ signed' = signed
    BY <1>7 DEF Ends, AbandonBuild, ReportSigned, ReportArchive, WriteChecksum, AbandonChecksum,
                Refuse, Fail, Kill
  <2>2. CASE bundle # None /\ bundle' = [bundle EXCEPT !["manifest.json"] = Torn] /\ signed' = signed
    <3>1. Sound(bundle, signed) /\ Fits("manifest.json", Torn)
      BY <1>t, <2>2, Names DEF BundleInv, Fits
    <3>2. Sound(bundle', signed')
      BY <2>2, <3>1, DirPut, Names
    <3>3. QED
      BY <3>2 DEF BundleInv
  <2>3. QED
    BY <1>0, <2>1, <2>2
<1>8. CASE PowerLoss
  <2>1. CASE bundle' = None
    BY <2>1, <1>0
  <2>2. ASSUME NEW gone \in SUBSET Payloads, NEW m \in {bundle["manifest.json"], None, Torn},
               bundle # None,
               bundle' = [f \in Files |-> IF f \in gone THEN None
                                          ELSE IF f = "manifest.json" THEN m ELSE bundle[f]]
        PROVE  BundleInv'
    <3>1. Sound(bundle, signed)
      BY <1>t, <2>2 DEF BundleInv
    <3>2. IsFunction(bundle', Files)
      BY <2>2 DEF IsFunction
    <3>3. \A f \in Files : Fits(f, bundle'[f])
      BY <2>2, <3>1, Names DEF Sound, Dir, Fits
    <3>4. bundle'["manifest.sig"] = bundle["manifest.sig"]
      BY <2>2, Names
    <3>5. Sound(bundle', signed')
      BY <1>t, <3>1, <3>2, <3>3, <3>4 DEF Sound, Dir, Vouched
    <3>6. QED
      BY <3>5 DEF BundleInv
  <2>3. QED
    BY <1>8, <2>1, <2>2 DEF PowerLoss
<1>9. CASE RemoveBundle \/ (\E v \in Versions : RemoveArchive(v)) \/ (\E p \in Payloads : Export(p))
  BY <1>0, <1>9 DEF RemoveBundle, RemoveArchive, Export
<1>10. CASE Update \/ UNCHANGED vars
  BY <1>0, <1>t, <1>10, UpdateEffect DEF vars
<1>11. ASSUME NEW r \in Releasers, Lays(r) PROVE BundleInv'
  BY <1>2, <1>3, <1>4, <1>5, <1>11, Names DEF Lays, Copies
<1>12. QED
  BY <1>1, <1>5, <1>6, <1>7, <1>8, <1>9, <1>10, <1>11, NextCases

\* A signed release stays sound on its way to the archive and to the client.
LEMMA ArchiveStep == SoundInv /\ [Next]_vars => ArchiveInv'
<1> SUFFICES ASSUME SoundInv, [Next]_vars PROVE ArchiveInv'
  OBVIOUS
<1>t. TablesInv /\ ArchiveInv /\ ProcInv /\ signed \subseteq signed'
  BY SignedGrows DEF SoundInv
<1>0. ASSUME \A v \in Versions : archive'[v] \in {archive[v], None} PROVE ArchiveInv'
  BY <1>t, <1>0, Grows DEF ArchiveInv
<1>1. ASSUME NEW r \in Releasers, Publish(r) PROVE ArchiveInv'
  <2>1. /\ \A v \in Versions : archive'[v] \in {archive[v], job[r].files}
        /\ Sound(job[r].files, signed)
    BY <1>t, <1>1 DEF Publish, TablesInv, IsFunction, ProcInv, Holds
  <2>2. QED
    BY <1>t, <2>1, Grows DEF ArchiveInv
<1>2. ASSUME NEW r \in Releasers, Begins(r) \/ Fills(r) PROVE ArchiveInv'
  BY <1>t, <1>0, <1>2, BeginsEffect, FillsEffect DEF Opens, releases
<1>3. ASSUME NEW r \in Releasers, Lays(r), ~Publish(r) PROVE ArchiveInv'
  BY <1>0, <1>3 DEF Lays, Copies, CopyPayload, PutManifest, PutSignature, Look, releases
<1>4. ASSUME NEW r \in Releasers, Ends(r) PROVE ArchiveInv'
  <2>1. \A v \in Versions : archive'[v] \in {archive[v], None}
    BY <1>t, <1>4 DEF Ends, WriteManifest, AbandonBuild, ReportSigned, ReportArchive, WriteChecksum, AbandonChecksum,
                Refuse, Fail, Kill, TablesInv, IsFunction, releases
  <2>2. QED
    BY <1>0, <2>1
<1>5. CASE RemoveBundle \/ PowerLoss \/ (\E v \in Versions : RemoveArchive(v)) \/ (\E p \in Payloads : Export(p))
  <2>1. \A v \in Versions : archive'[v] \in {archive[v], None}
    BY <1>t, <1>5 DEF RemoveBundle, PowerLoss, ShelfVanishes, ShelfSurvives, RemoveArchive, Export, TablesInv, IsFunction, releases
  <2>2. QED
    BY <1>0, <2>1
<1>6. CASE Update \/ UNCHANGED vars
  BY <1>0, <1>t, <1>6, UpdateEffect DEF vars, releases
<1>7. QED
  BY <1>1, <1>2, <1>3, <1>4, <1>5, <1>6, NextCases

LEMMA DownloadStep == SoundInv /\ [Next]_vars => DownloadInv'
<1> SUFFICES ASSUME SoundInv, [Next]_vars PROVE DownloadInv'
  OBVIOUS
<1>t. TablesInv /\ ArchiveInv /\ DownloadInv /\ signed \subseteq signed'
  BY SignedGrows DEF SoundInv
<1>1. CASE Update
  <2>1. \A v \in Versions : \/ download'[v] \in {download[v], None, Torn}
                            \/ \E w \in Versions : archive[w] # None /\ download'[v] = archive[w]
    BY <1>t, <1>1, UpdateEffect
  <2>2. QED
    BY <1>t, <2>1, Grows DEF DownloadInv, ArchiveInv
<1>2. ASSUME download' = download PROVE DownloadInv'
  BY <1>t, <1>2, Grows DEF DownloadInv
<1>3. ASSUME NEW r \in Releasers, Begins(r) \/ Lays(r) \/ Fills(r) \/ Ends(r) PROVE download' = download
  BY <1>t, <1>3, BeginsEffect, LaysEffect, FillsEffect, EndsEffect DEF Opens, consumer
<1>4. CASE RemoveBundle \/ PowerLoss \/ \E v \in Versions : RemoveArchive(v)
  BY <1>t, <1>2, <1>4, HandEffect DEF consumer
<1>5. CASE (\E p \in Payloads : Export(p)) \/ UNCHANGED vars
  BY <1>2, <1>5 DEF Export, vars, consumer
<1>6. QED
  BY <1>1, <1>2, <1>3, <1>4, <1>5, NextCases

-----------------------------------------------------------------------------
\* What a command holds.
LEMMA OneMoves ==
  ASSUME ProcInv, signed \subseteq signed', NEW r \in Releasers,
         \A q \in Releasers \ {r} : pc'[q] = pc[q] /\ job'[q] = job[q],
         Holds(r)', Phase(r)'
  PROVE  ProcInv'
<1>1. ASSUME NEW q \in Releasers \ {r} PROVE Holds(q)' /\ Phase(q)'
  BY <1>1, Grows DEF ProcInv, Holds, Phase, Building
<1>2. QED
  BY <1>1 DEF ProcInv

LEMMA NobodyMoves ==
  ASSUME ProcInv, signed \subseteq signed',
         \A q \in Releasers : \/ pc'[q] = pc[q] /\ job'[q] = job[q]
                              \/ pc'[q] = "idle" /\ job'[q] = NoJob
  PROVE  ProcInv'
<1>1. ASSUME NEW q \in Releasers, pc'[q] = pc[q], job'[q] = job[q] PROVE Holds(q)' /\ Phase(q)'
  BY <1>1, Grows DEF ProcInv, Holds, Phase, Building
<1>2. ASSUME NEW q \in Releasers, pc'[q] = "idle", job'[q] = NoJob PROVE Holds(q)' /\ Phase(q)'
  <2>1. Holds(q)'
    BY <1>2, NoFilesSound DEF Holds, NoJob
  <2>2. Phase(q)'
    BY <1>2 DEF Phase, Building, Files, Payloads
  <2>3. QED
    BY <2>1, <2>2
<1>3. QED
  BY <1>1, <1>2 DEF ProcInv

LEMMA FillStep ==
  ASSUME SoundInv, NEW r \in Releasers, Fills(r)
  PROVE  (Holds(r) /\ Phase(r))'
<1>t. /\ TablesInv /\ BundleInv /\ ArchiveInv /\ Holds(r) /\ Phase(r)
      /\ signed' = signed
  BY FillsEffect DEF SoundInv, ProcInv
<1>0. ASSUME NEW f \in Files, NEW c, Keeps(r, f, c), Fits(f, c),
             f = "manifest.sig" => Vouched(c, signed)
      PROVE  /\ Holds(r)' /\ job'[r].files[f] = c
             /\ \A g \in Files \ {f} : job'[r].files[g] = job[r].files[g]
             /\ job'[r].version = job[r].version /\ job'[r].key = job[r].key
  <2>1. /\ job'[r].files = [job[r].files EXCEPT ![f] = c]
        /\ job'[r].version = job[r].version /\ job'[r].key = job[r].key
        /\ job'[r] = [version |-> job'[r].version, key |-> job'[r].key, files |-> job'[r].files]
    BY <1>t, <1>0 DEF TablesInv, IsFunction, Holds, Keeps
  <2>2. Sound(job[r].files, signed)
    BY <1>t DEF Holds
  <2>3. /\ Sound(job'[r].files, signed) /\ job'[r].files[f] = c
        /\ \A g \in Files \ {f} : job'[r].files[g] = job[r].files[g]
    BY <1>0, <2>1, <2>2, DirPut
  <2>4. QED
    BY <1>t, <2>1, <2>3 DEF Holds
<1>1. ASSUME NEW p \in Payloads, NEW from, NEW to \in PCs, Identify(r, p, from, to)
      PROVE  /\ pc[r] = from /\ pc'[r] = to /\ Holds(r)' /\ job'[r].files[p] \in Nat
             /\ \A g \in Files \ {p} : job'[r].files[g] = job[r].files[g]
             /\ job'[r].version = job[r].version
  <2>1. /\ Go(r, from, to) /\ bundle # None /\ bundle[p] # None
        /\ Keeps(r, p, bundle[p])
    BY <1>1 DEF Identify, Has, Keeps
  <2>2. bundle[p] \in Nat /\ Fits(p, bundle[p]) /\ p # "manifest.sig" /\ p \in Files
    BY <1>t, <2>1, Names DEF BundleInv, Sound, Dir, Fits
  <2>3. /\ Holds(r)' /\ job'[r].files[p] = bundle[p]
        /\ \A g \in Files \ {p} : job'[r].files[g] = job[r].files[g]
        /\ job'[r].version = job[r].version
    BY <1>0, <2>1, <2>2
  <2>4. QED
    BY <1>t, <2>1, <2>2, <2>3, Went
<1>2. CASE Identify(r, "aaa/bootblocks.json", "hash boot", "copy hsb")
  <2>1. /\ pc[r] = "hash boot" /\ pc'[r] = "copy hsb" /\ Holds(r)'
        /\ job'[r].files["aaa/bootblocks.json"] \in Nat /\ job'[r].version = job[r].version
    BY <1>1, <1>2, Names DEF PCs
  <2>2. QED
    BY <1>t, <2>1 DEF Phase, Building
<1>3. CASE Identify(r, "clamav/aaa.hsb", "hash hsb", "manifest")
  <2>1. /\ pc[r] = "hash hsb" /\ pc'[r] = "manifest" /\ Holds(r)'
        /\ job'[r].files["clamav/aaa.hsb"] \in Nat /\ job'[r].version = job[r].version
        /\ job'[r].files["aaa/bootblocks.json"] = job[r].files["aaa/bootblocks.json"]
    BY <1>1, <1>3, Names DEF PCs
  <2>2. QED
    BY <1>t, <2>1 DEF Phase, Building
<1>4. CASE ReadManifest(r)
  <2>1. /\ Go(r, "read", "check") /\ Readable(bundle)
        /\ Keeps(r, "manifest.json", bundle["manifest.json"])
    BY <1>4 DEF ReadManifest, Keeps
  <2>2. bundle["manifest.json"] \in Manifests /\ Fits("manifest.json", bundle["manifest.json"])
    BY <1>t, <2>1, Names DEF Readable, BundleInv, Sound, Dir, Fits
  <2>3. /\ Holds(r)' /\ job'[r].files["manifest.json"] = bundle["manifest.json"]
        /\ job'[r].key = job[r].key
    BY <1>0, <2>1, <2>2, Names
  <2>4. pc[r] = "read" /\ pc'[r] = "check"
    BY <1>t, <2>1, Went DEF PCs
  <2>5. QED
    BY <1>t, <2>2, <2>3, <2>4 DEF Phase, Building, Files, Payloads
<1>5. CASE CheckPayloads(r)
  <2> DEFINE m == job[r].files["manifest.json"]
  <2>1. /\ Go(r, "check", "stamp")
        /\ Keeps(r, "manifest.json", Stamp(m, job[r].key))
    <3>1. job' = [job EXCEPT ![r].files["manifest.json"] = Stamp(@, job[r].key)]
      BY <1>5 DEF CheckPayloads
    <3>2. job' = [job EXCEPT ![r].files["manifest.json"] = Stamp(m, job[r].key)]
      BY <1>t, <3>1 DEF TablesInv, IsFunction
    <3>3. QED
      BY <1>5, <3>2 DEF CheckPayloads, Keeps
  <2>2. pc[r] = "check" /\ pc'[r] = "stamp"
    BY <1>t, <2>1, Went DEF PCs
  <2>3. m \in Manifests /\ job[r].key \in Keys
    BY <1>t, <2>2 DEF Phase
  <2>4. /\ Stamp(m, job[r].key) \in Manifests /\ Stamp(m, job[r].key).signer = job[r].key
        /\ Fits("manifest.json", Stamp(m, job[r].key))
    BY <2>3, StampIsManifest, Names DEF Fits
  <2>5. /\ Holds(r)' /\ job'[r].files["manifest.json"] = Stamp(m, job[r].key)
        /\ job'[r].key = job[r].key
    BY <1>0, <2>1, <2>4, Names
  <2>6. QED
    BY <1>t, <2>2, <2>3, <2>4, <2>5 DEF Phase, Building, Files, Payloads
<1>6. CASE PackEntry(r)
  <2>1. /\ pc[r] \in Files /\ bundle # None /\ Go(r, pc[r], AfterEntry(pc[r]))
        /\ Keeps(r, pc[r], bundle[pc[r]])
    BY <1>6 DEF PackEntry, Has, Keeps
  <2>2. /\ Fits(pc[r], bundle[pc[r]])
        /\ pc[r] = "manifest.sig" => Vouched(bundle[pc[r]], signed)
    BY <1>t, <2>1 DEF BundleInv, Sound, Dir
  <2>3. Holds(r)' /\ job'[r].version = job[r].version
    BY <1>0, <2>1, <2>2
  <2>4. pc'[r] = AfterEntry(pc[r])
    BY <1>t, <2>1, AfterIsPC, Went
  <2>5. pc'[r] \in Files \cup {"publish"}
    BY <2>1, <2>4, AfterEach DEF Files, Payloads
  <2>6. QED
    BY <1>t, <2>1, <2>3, <2>5 DEF Phase, Building, Files, Payloads
<1>7. CASE Digest(r)
  <2>1. /\ Go(r, "digest", "checksum") /\ archive[job[r].version] # None
        /\ Rereads(r, archive[job[r].version])
    BY <1>7 DEF Digest, Rereads
  <2>2. pc[r] = "digest" /\ pc'[r] = "checksum"
    BY <1>t, <2>1, Went DEF PCs
  <2>3. job[r].version \in Versions
    BY <1>t, <2>2 DEF Phase
  <2>4. Sound(archive[job[r].version], signed)
    BY <1>t, <2>1, <2>3 DEF ArchiveInv
  <2>5. /\ job'[r].files = archive[job[r].version] /\ job'[r].version = job[r].version
        /\ job'[r] = [version |-> job'[r].version, key |-> job'[r].key, files |-> job'[r].files]
    BY <1>t, <2>1, JobFill
  <2>6. Holds(r)'
    BY <1>t, <2>4, <2>5 DEF Holds
  <2>7. QED
    BY <2>2, <2>3, <2>5, <2>6 DEF Phase, Building, Files, Payloads
<1>8. QED
  BY <1>2, <1>3, <1>4, <1>5, <1>6, <1>7 DEF Fills, Hashes

LEMMA LayStep ==
  ASSUME SoundInv, NEW r \in Releasers, Lays(r)
  PROVE  (Holds(r) /\ Phase(r))'
<1>t. /\ TablesInv /\ Holds(r) /\ Phase(r)
      /\ signed \subseteq signed' /\ job' = job
  BY LaysEffect DEF SoundInv, ProcInv
<1>1. Holds(r)'
  BY <1>t, Grows DEF Holds
<1>2. CASE Copies(r)
  <2>1. \/ pc[r] = "copy boot" /\ pc'[r] = "hash boot"
        \/ pc[r] = "copy hsb" /\ pc'[r] = "hash hsb"
    BY <1>t, <1>2, Went DEF Copies, CopyPayload, PCs
  <2>2. QED
    BY <1>t, <1>1, <2>1 DEF Phase, Building, Files, Payloads
<1>3. CASE PutManifest(r) \/ PutSignature(r)
  <2>1. \/ pc[r] = "stamp" /\ pc'[r] = "sign"
        \/ pc[r] = "sign" /\ pc'[r] = "signed"
    BY <1>t, <1>3, Went DEF PutManifest, PutSignature, PCs
  <2>2. QED
    BY <1>t, <1>1, <2>1 DEF Phase, Building, Files, Payloads
<1>4. CASE Look(r) \/ Publish(r)
  <2>1. \/ pc[r] = "look" /\ pc'[r] = "aaa/bootblocks.json"
        \/ pc[r] = "publish" /\ pc'[r] = "digest"
    <3>1. Look(r) => Go(r, "look", "aaa/bootblocks.json")
      BY EntryList DEF Look
    <3>2. Publish(r) => Go(r, "publish", "digest")
      BY DEF Publish
    <3>3. "aaa/bootblocks.json" \in PCs /\ "digest" \in PCs
      BY DEF PCs, Files, Payloads
    <3>4. QED
      BY <1>t, <1>4, <3>1, <3>2, <3>3, Went
  <2>2. QED
    BY <1>t, <1>1, <2>1 DEF Phase, Building, Files, Payloads
<1>5. QED
  BY <1>2, <1>3, <1>4 DEF Lays

LEMMA ProcStep == SoundInv /\ [Next]_vars => ProcInv'
<1> SUFFICES ASSUME SoundInv, [Next]_vars PROVE ProcInv'
  OBVIOUS
<1>t. TablesInv /\ ProcInv /\ signed \subseteq signed'
  BY SignedGrows DEF SoundInv
<1>1. ASSUME NEW r \in Releasers, Begins(r) PROVE ProcInv'
  <2>1. /\ \A q \in Releasers \ {r} : pc'[q] = pc[q] /\ job'[q] = job[q]
        /\ job'[r] = [version |-> job'[r].version, key |-> job'[r].key, files |-> NoFiles]
        /\ job'[r].files = NoFiles
        /\ \/ pc'[r] \in {"copy boot", "look"} /\ job'[r].version \in Versions
           \/ pc'[r] = "read" /\ job'[r].key \in Keys
    BY <1>t, <1>1, BeginsEffect DEF Opens
  <2>2. Holds(r)'
    BY <2>1, NoFilesSound DEF Holds
  <2>3. Phase(r)'
    BY <2>1 DEF Phase, Building, Files, Payloads
  <2>4. QED
    BY <1>t, <2>1, <2>2, <2>3, OneMoves
<1>2. ASSUME NEW r \in Releasers, Lays(r) PROVE ProcInv'
  <2>1. \A q \in Releasers \ {r} : pc'[q] = pc[q] /\ job'[q] = job[q]
    BY <1>t, <1>2, LaysEffect, Went
  <2>2. QED
    BY <1>t, <1>2, <2>1, LayStep, OneMoves
<1>3. ASSUME NEW r \in Releasers, Fills(r) PROVE ProcInv'
  <2>1. \A q \in Releasers \ {r} : pc'[q] = pc[q]
    BY <1>t, <1>3, FillsEffect, Went
  <2>2. \A q \in Releasers \ {r} : job'[q] = job[q]
    BY <1>t, <1>3 DEF Fills, Hashes, Identify, ReadManifest, CheckPayloads, PackEntry, Digest,
                      TablesInv, IsFunction
  <2>3. QED
    BY <1>t, <1>3, <2>1, <2>2, FillStep, OneMoves
<1>4. ASSUME NEW r \in Releasers, Ends(r) PROVE ProcInv'
  BY <1>t, <1>4, EndsEffect, Stopped, NobodyMoves
<1>5. CASE RemoveBundle \/ PowerLoss \/ \E v \in Versions : RemoveArchive(v)
  BY <1>t, <1>5, HandEffect, NobodyMoves
<1>6. CASE Update \/ (\E p \in Payloads : Export(p)) \/ UNCHANGED vars
  <2>1. UNCHANGED procs
    BY <1>t, <1>6, UpdateEffect DEF Export, vars
  <2>2. QED
    BY <1>t, <2>1, NobodyMoves DEF procs
<1>7. QED
  BY <1>1, <1>2, <1>3, <1>4, <1>5, <1>6, NextCases

LEMMA SoundStep == SoundInv /\ [Next]_vars => SoundInv'
<1>1. SoundInv => TablesInv
  BY DEF SoundInv
<1>2. QED
  BY <1>1, TablesStep, BundleStep, ArchiveStep, DownloadStep, ProcStep DEF SoundInv

-----------------------------------------------------------------------------
\* A command that is alone.
LEMMA PackedAt ==
  /\ Packed("aaa/bootblocks.json") = {} /\ Packed("clamav/aaa.hsb") = {"aaa/bootblocks.json"}
  /\ Packed("manifest.json") = Payloads /\ Packed("manifest.sig") = Files \ {"manifest.sig"}
  /\ Packed("publish") = Files
  /\ \A at : at \notin Files \cup {"publish"} => Packed(at) = {}
BY DEF Packed, Files, Payloads

LEMMA PacksOne ==
  ASSUME NEW f \in Files
  PROVE  Packed(AfterEntry(f)) = Packed(f) \cup {f}
BY PackedAt, AfterEach DEF Files, Payloads

LEMMA AloneActs ==
  ASSUME AloneInv, NEW r \in Releasers, pc[r] # "idle",
         \A q \in Releasers : alone'[q] => alone[q],
         \A q \in Releasers \ {r} : pc'[q] = pc[q],
         alone'[r] /\ alone[r] /\ SignsAlone(r) /\ PacksAlone(r) => (SignsAlone(r) /\ PacksAlone(r))'
  PROVE  AloneInv'
BY DEF AloneInv

LEMMA AloneLays ==
  ASSUME SoundInv, SoundInv', NEW r \in Releasers, Lays(r), SignsAlone(r), PacksAlone(r)
  PROVE  (SignsAlone(r) /\ PacksAlone(r))'
<1>t. /\ TablesInv /\ BundleInv /\ ProcInv /\ job' = job
  BY LaysEffect DEF SoundInv
<1>1. CASE Copies(r)
  <2>1. pc'[r] \in {"hash boot", "hash hsb"}
    BY <1>t, <1>1, Went DEF Copies, CopyPayload, PCs
  <2>2. pc'[r] \notin Files \cup {"publish"}
    BY <2>1 DEF Files, Payloads
  <2>3. QED
    BY <2>1, <2>2, PackedAt DEF SignsAlone, PacksAlone
<1>2. CASE PutManifest(r)
  <2> DEFINE m == job[r].files["manifest.json"]
  <2>1. /\ pc[r] = "stamp" /\ pc'[r] = "sign" /\ bundle # None
        /\ bundle' = [bundle EXCEPT !["manifest.json"] = m]
    BY <1>t, <1>2, Went DEF PutManifest, PCs
  <2>2. pc'[r] \notin Files \cup {"publish", "look", "digest", "checksum"}
    BY <2>1 DEF Files, Payloads
  <2>3. Sound(bundle, signed) /\ Describes(m)
    BY <1>t, <2>1 DEF BundleInv, SignsAlone
  <2>4. /\ bundle'["manifest.json"] = m /\ \A p \in Payloads : bundle'[p] = bundle[p]
        /\ IsFunction(bundle', Files)
    BY <2>1, <2>3, Names DEF Sound, Dir, IsFunction
  <2>5. bundle' # None
    <3>1. \A f \in Files \ {"manifest.json"} : bundle'[f] = bundle[f]
      BY <2>1, <2>3, Names DEF Sound, Dir, IsFunction
    <3>2. Fits("manifest.json", m)
      BY <1>t, <2>1, Names DEF ProcInv, Phase, Fits
    <3>3. Dir(bundle')
      BY <2>3, <2>4, <3>1, <3>2 DEF Sound, Dir
    <3>4. QED
      BY <3>3, DirIsSome
  <2>6. SignsAlone(r)'
    BY <1>t, <2>1, <2>3, <2>4, <2>5 DEF SignsAlone, Describes
  <2>7. PacksAlone(r)'
    BY <2>2, PackedAt DEF PacksAlone
  <2>8. QED
    BY <2>6, <2>7
<1>3. CASE PutSignature(r)
  <2> DEFINE m == job[r].files["manifest.json"]
             s == Signature(m, job[r].key)
  <2>1. /\ pc[r] = "sign" /\ pc'[r] = "signed" /\ bundle # None
        /\ bundle' = [bundle EXCEPT !["manifest.sig"] = s]
    BY <1>t, <1>3, Went DEF PutSignature, PCs
  <2>2. pc'[r] \notin Files \cup {"publish", "look", "digest", "checksum"}
    BY <2>1 DEF Files, Payloads
  <2>3. Sound(bundle, signed) /\ Describes(m) /\ bundle["manifest.json"] = m
    BY <1>t, <2>1 DEF BundleInv, SignsAlone
  <2> HIDE DEF s
  <2>4. /\ bundle'["manifest.sig"] = s /\ \A f \in Files \ {"manifest.sig"} : bundle'[f] = bundle[f]
        /\ IsFunction(bundle', Files)
    BY <2>1, <2>3, Names DEF Sound, Dir, IsFunction
  <2>5. bundle' # None
    <3>1. Fits("manifest.sig", s)
      BY <1>t, <2>1, Names, SignatureFields DEF ProcInv, Phase, Fits, s
    <3>2. Dir(bundle')
      BY <2>3, <2>4, <3>1 DEF Sound, Dir
    <3>3. QED
      BY <3>2, DirIsSome
  <2>6. SignsAlone(r)'
    BY <1>t, <2>1, <2>3, <2>4, <2>5, Names DEF SignsAlone, Describes, s
  <2>7. PacksAlone(r)'
    BY <2>2, PackedAt DEF PacksAlone
  <2>8. QED
    BY <2>6, <2>7
<1>4. CASE Look(r)
  <2>1. pc[r] = "look" /\ pc'[r] = "aaa/bootblocks.json" /\ bundle' = bundle
    <3>1. Go(r, "look", "aaa/bootblocks.json") /\ bundle' = bundle
      BY <1>4, EntryList DEF Look
    <3>2. "aaa/bootblocks.json" \in PCs
      BY DEF PCs, Files, Payloads
    <3>3. QED
      BY <1>t, <3>1, <3>2, Went
  <2>2. QED
    BY <1>t, <2>1, PackedAt DEF SignsAlone, PacksAlone
<1>5. CASE Publish(r)
  <2>1. /\ pc[r] = "publish" /\ pc'[r] = "digest" /\ bundle' = bundle
        /\ archive' = [archive EXCEPT ![job[r].version] = job[r].files]
    BY <1>t, <1>5, Went DEF Publish, PCs
  <2>2. job[r].version \in Versions /\ Sound(job[r].files, signed)
    BY <1>t, <2>1 DEF ProcInv, Phase, Holds
  <2>3. Good(job[r].version, bundle) /\ \A f \in Files : job[r].files[f] = bundle[f]
    BY <2>1, PackedAt DEF PacksAlone
  <2>4. bundle # None
    BY <2>3 DEF Good, Verifies, Readable
  <2>5. job[r].files = bundle
    BY <1>t, <2>2, <2>3, <2>4, SameFiles DEF BundleInv, Sound
  <2>6. archive'[job[r].version] = bundle
    BY <1>t, <2>1, <2>2, <2>5 DEF TablesInv, IsFunction
  <2>7. pc'[r] \notin Files \cup {"publish", "look", "checksum"}
    BY <2>1 DEF Files, Payloads
  <2>8. QED
    BY <1>t, <2>1, <2>3, <2>6, <2>7, PackedAt DEF SignsAlone, PacksAlone
<1>6. QED
  BY <1>1, <1>2, <1>3, <1>4, <1>5 DEF Lays

LEMMA AloneFills ==
  ASSUME SoundInv, NEW r \in Releasers, Fills(r), SignsAlone(r), PacksAlone(r)
  PROVE  (SignsAlone(r) /\ PacksAlone(r))'
<1>t. TablesInv /\ BundleInv /\ ProcInv /\ UNCHANGED <<bundle, archive>>
  BY FillsEffect DEF SoundInv
<1>0. ASSUME pc'[r] \in {"copy hsb", "manifest", "check"} PROVE (SignsAlone(r) /\ PacksAlone(r))'
  <2>1. pc'[r] \notin Files \cup {"publish"}
    BY <1>0 DEF Files, Payloads
  <2>2. QED
    BY <1>0, <2>1, PackedAt DEF SignsAlone, PacksAlone
<1>1. CASE Hashes(r) \/ ReadManifest(r)
  BY <1>t, <1>0, <1>1, Went DEF Hashes, Identify, ReadManifest, PCs
<1>2. CASE CheckPayloads(r)
  <2> DEFINE m == job[r].files["manifest.json"]
             files == [bundle EXCEPT !["manifest.json"] = m]
  <2>1. /\ Go(r, "check", "stamp") /\ bundle # None
        /\ \A p \in Payloads : PayloadMatches(files, p)
        /\ job' = [job EXCEPT ![r].files["manifest.json"] = Stamp(@, job[r].key)]
    BY <1>2 DEF CheckPayloads, Matches
  <2>2. pc[r] = "check" /\ pc'[r] = "stamp"
    BY <1>t, <2>1, Went DEF PCs
  <2>3. /\ m \in Manifests /\ job[r].key \in Keys /\ Sound(bundle, signed)
        /\ job[r] = [version |-> job[r].version, key |-> job[r].key, files |-> job[r].files]
        /\ IsFunction(job[r].files, Files)
    BY <1>t, <2>1, <2>2 DEF ProcInv, Phase, Holds, BundleInv, Sound, Dir
  <2>4. \A p \in Payloads : files[p] = bundle[p] /\ files["manifest.json"] = m
    BY <2>3, Names DEF Sound, Dir, IsFunction
  <2>5. \A p \in Payloads : bundle[p] = m.sums[p]
    BY <2>1, <2>4 DEF PayloadMatches
  <2>6. job'[r].files["manifest.json"] = Stamp(m, job[r].key)
    BY <1>t, <2>1, <2>3, Names DEF TablesInv, IsFunction
  <2>7. Describes(job'[r].files["manifest.json"])
    BY <2>1, <2>3, <2>5, <2>6, StampIsManifest DEF Describes
  <2>8. SignsAlone(r)'
    BY <1>t, <2>2, <2>7 DEF SignsAlone, Describes
  <2>9. pc'[r] \notin Files \cup {"publish", "look"}
    BY <2>2 DEF Files, Payloads
  <2>10. PacksAlone(r)'
    BY <2>2, <2>9, PackedAt DEF PacksAlone
  <2>11. QED
    BY <2>8, <2>10
<1>3. CASE PackEntry(r)
  <2> DEFINE f == pc[r]
  <2>1. /\ f \in Files /\ Go(r, f, AfterEntry(f))
        /\ Keeps(r, f, bundle[f])
    BY <1>3 DEF PackEntry, Keeps
  <2>2. pc'[r] = AfterEntry(f)
    BY <1>t, <2>1, AfterIsPC, Went
  <2>3. /\ job[r] = [version |-> job[r].version, key |-> job[r].key, files |-> job[r].files]
        /\ IsFunction(job[r].files, Files)
    BY <1>t DEF ProcInv, Holds, Sound, Dir
  <2>4. /\ job'[r].files[f] = bundle[f] /\ job'[r].version = job[r].version
        /\ \A g \in Files \ {f} : job'[r].files[g] = job[r].files[g]
    BY <1>t, <2>1, <2>3 DEF TablesInv, IsFunction, Keeps
  <2>5. Packed(pc'[r]) = Packed(f) \cup {f} /\ Packed(f) \subseteq Files
    BY <2>1, <2>2, PacksOne DEF Packed
  <2>6. \A g \in Packed(f) : job[r].files[g] = bundle[g]
    BY DEF PacksAlone
  <2>7. \A g \in Packed(pc'[r]) : job'[r].files[g] = bundle[g]
    <3> SUFFICES ASSUME NEW g \in Packed(pc'[r]) PROVE job'[r].files[g] = bundle[g]
      OBVIOUS
    <3>1. CASE g = f
      BY <2>4, <3>1
    <3>2. CASE g # f
      BY <2>4, <2>5, <2>6, <3>2
    <3>3. QED
      BY <3>1, <3>2
  <2>8. Good(job'[r].version, bundle)
    BY <2>1, <2>4 DEF PacksAlone
  <2>9. pc'[r] \in Files \cup {"publish"}
    BY <2>1, <2>2, AfterEach DEF Files, Payloads
  <2>10. pc'[r] \notin {"stamp", "sign", "signed", "digest", "checksum"}
    BY <2>9 DEF Files, Payloads
  <2>11. PacksAlone(r)'
    BY <1>t, <2>7, <2>8, <2>10 DEF PacksAlone
  <2>12. SignsAlone(r)'
    BY <2>10 DEF SignsAlone
  <2>13. QED
    BY <2>11, <2>12
<1>4. CASE Digest(r)
  <2>1. /\ Go(r, "digest", "checksum")
        /\ Rereads(r, archive[job[r].version])
    BY <1>4 DEF Digest, Rereads
  <2>2. pc[r] = "digest" /\ pc'[r] = "checksum"
    BY <1>t, <2>1, Went DEF PCs
  <2>3. /\ job'[r].version = job[r].version /\ job'[r].files = archive[job[r].version]
        /\ archive' = archive /\ unsynced' = {}
    BY <1>t, <1>4, <2>1, JobFill DEF ProcInv, Digest
  <2>4. Good(job'[r].version, archive'[job'[r].version])
    BY <1>t, <2>2, <2>3 DEF PacksAlone
  <2>5. pc'[r] \notin Files \cup {"publish", "look"}
    BY <2>2 DEF Files, Payloads
  <2>6. QED
    BY <2>2, <2>3, <2>4, <2>5, PackedAt DEF SignsAlone, PacksAlone
<1>5. QED
  BY <1>1, <1>2, <1>3, <1>4 DEF Fills

LEMMA AloneStep == IInv /\ [Next]_vars => AloneInv'
<1> SUFFICES ASSUME IInv, [Next]_vars PROVE AloneInv'
  OBVIOUS
<1>t. TablesInv /\ SoundInv /\ SoundInv' /\ AloneInv
  BY SoundStep DEF IInv, SoundInv
<1>1. ASSUME NEW r \in Releasers, Begins(r) PROVE AloneInv'
  <2>0. \A q \in Releasers : alone'[q] => q = r
    BY <1>t, <1>1, BeginsEffect DEF Opens
  <2> SUFFICES ASSUME alone'[r]
               PROVE  /\ \A q \in Releasers \ {r} : pc'[q] = "idle"
                      /\ SignsAlone(r)' /\ PacksAlone(r)'
    BY <2>0 DEF AloneInv
  <2>1. \A q \in Releasers \ {r} : pc'[q] = "idle"
    BY <1>t, <1>1, BeginsEffect DEF Opens
  <2>2. /\ pc'[r] \in {"copy boot", "look", "read"}
        /\ pc'[r] = "look" => Good(job'[r].version, bundle) /\ bundle' = bundle
    BY <1>t, <1>1, BeginsEffect
  <2>3. pc'[r] \notin Files \cup {"publish", "digest", "checksum"}
    BY <2>2 DEF Files, Payloads
  <2>4. SignsAlone(r)' /\ PacksAlone(r)'
    BY <2>2, <2>3, PackedAt DEF SignsAlone, PacksAlone
  <2>5. QED
    BY <2>1, <2>4
<1>2. ASSUME NEW r \in Releasers, Lays(r) PROVE AloneInv'
  <2>1. /\ pc[r] # "idle" /\ \E to \in PCs : Go(r, pc[r], to)
        /\ alone' = alone
    BY <1>2, LaysEffect
  <2>2. \A q \in Releasers \ {r} : pc'[q] = pc[q]
    BY <1>t, <2>1, Went
  <2>3. SignsAlone(r) /\ PacksAlone(r) => (SignsAlone(r) /\ PacksAlone(r))'
    BY <1>t, <1>2, AloneLays
  <2>4. QED
    BY <1>t, <2>1, <2>2, <2>3, AloneActs
<1>3. ASSUME NEW r \in Releasers, Fills(r) PROVE AloneInv'
  <2>1. /\ pc[r] # "idle" /\ \E to \in PCs : Go(r, pc[r], to)
        /\ alone' = alone
    BY <1>3, FillsEffect
  <2>2. \A q \in Releasers \ {r} : pc'[q] = pc[q]
    BY <1>t, <2>1, Went
  <2>3. SignsAlone(r) /\ PacksAlone(r) => (SignsAlone(r) /\ PacksAlone(r))'
    BY <1>t, <1>3, AloneFills
  <2>4. QED
    BY <1>t, <2>1, <2>2, <2>3, AloneActs
<1>4. ASSUME NEW r \in Releasers, Ends(r) PROVE AloneInv'
  <2>1. /\ pc[r] # "idle"
        /\ \A q \in Releasers : alone'[q] => alone[q] /\ q # r
        /\ \A q \in Releasers \ {r} : pc'[q] = pc[q]
    BY <1>t, <1>4, EndsEffect, Stopped
  <2>2. QED
    BY <1>t, <2>1, AloneActs
<1>5. CASE RemoveBundle \/ PowerLoss \/ \E v \in Versions : RemoveArchive(v)
  BY <1>t, <1>5, HandEffect DEF AloneInv
<1>6. CASE Update \/ (\E p \in Payloads : Export(p)) \/ UNCHANGED vars
  <2>1. UNCHANGED <<procs, bundle, releases>>
    BY <1>t, <1>6, UpdateEffect DEF Export, vars
  <2>2. /\ pc' = pc /\ job' = job /\ alone' = alone /\ bundle' = bundle /\ archive' = archive
        /\ unsynced' = unsynced
    BY <2>1 DEF procs, releases, shelf
  <2>3. ASSUME NEW r \in Releasers, SignsAlone(r) PROVE SignsAlone(r)'
    BY <2>2, <2>3 DEF SignsAlone, Describes
  <2>4. ASSUME NEW r \in Releasers, PacksAlone(r) PROVE PacksAlone(r)'
    <3>1. \A f \in Packed(pc'[r]) : job'[r].files[f] = bundle'[f]
      BY <2>2, <2>4 DEF PacksAlone
    <3>2. QED
      BY <2>2, <2>4, <3>1 DEF PacksAlone
  <2>5. QED
    BY <1>t, <2>2, <2>3, <2>4 DEF AloneInv
<1>7. QED
  BY <1>1, <1>2, <1>3, <1>4, <1>5, <1>6, NextCases

-----------------------------------------------------------------------------
\* A bundle that must verify does.
LEMMA FreshStep == IInv /\ [Next]_vars => FreshInv'
<1> SUFFICES ASSUME IInv, [Next]_vars, fresh' # None
             PROVE  /\ Verifies(bundle', fresh')
                    /\ \A r \in Releasers :
                         pc'[r] \in Files \cup {"idle", "look", "publish", "digest", "checksum"}
  BY DEF FreshInv
<1> DEFINE Quiet == Files \cup {"idle", "look", "publish", "digest", "checksum"}
           Goal == Verifies(bundle', fresh') /\ \A r \in Releasers : pc'[r] \in Quiet
<1>q. Quiet \cap {"copy boot", "hash boot", "copy hsb", "hash hsb", "manifest", "read", "check",
                  "stamp", "sign", "signed"} = {}
  BY DEF Files, Payloads
<1>t. TablesInv /\ BundleInv /\ ProcInv /\ AloneInv /\ FreshInv
  BY DEF IInv, SoundInv
<1>f. fresh # None => Verifies(bundle, fresh) /\ \A r \in Releasers : pc[r] \in Quiet
  BY <1>t DEF FreshInv
<1> HIDE DEF Quiet
<1>0. ASSUME UNCHANGED <<bundle, fresh>>, \A r \in Releasers : pc'[r] \in {pc[r], "idle"} \cup Quiet
      PROVE  Goal
  BY <1>f, <1>0 DEF Quiet
<1>1. ASSUME NEW r \in Releasers, Begins(r) PROVE Goal
  <2>1. /\ \A q \in Releasers \ {r} : pc'[q] = pc[q]
        /\ \/ bundle = None /\ fresh' = fresh
           \/ pc'[r] = "look" /\ UNCHANGED <<bundle, fresh>>
           \/ fresh' = None
    BY <1>t, <1>1, BeginsEffect DEF Opens
  <2>2. ~(bundle = None /\ fresh' = fresh)
    BY <1>f DEF Verifies, Readable
  <2>3. QED
    BY <1>0, <2>1, <2>2 DEF Quiet
<1>2. ASSUME NEW r \in Releasers, Lays(r) PROVE Goal
  <2>1. pc[r] \in Quiet /\ fresh' = fresh
    BY <1>f, <1>2, LaysEffect
  <2>2. CASE Copies(r) \/ PutManifest(r) \/ PutSignature(r)
    BY <1>q, <2>1, <2>2 DEF Copies, CopyPayload, PutManifest, PutSignature, Go
  <2>3. CASE Look(r) \/ Publish(r)
    <3>1. \/ Go(r, "look", "aaa/bootblocks.json")
          \/ Go(r, "publish", "digest")
      BY <2>3, EntryList DEF Look, Publish
    <3>2. "aaa/bootblocks.json" \in PCs \cap Quiet /\ "digest" \in PCs \cap Quiet
      BY DEF PCs, Quiet, Files, Payloads
    <3>3. \A q \in Releasers : pc'[q] \in {pc[q]} \cup Quiet
      BY <1>t, <3>1, <3>2, Went
    <3>4. bundle' = bundle
      BY <2>3 DEF Look, Publish
    <3>5. QED
      BY <1>0, <2>1, <3>3, <3>4
  <2>4. QED
    BY <1>2, <2>2, <2>3 DEF Lays
<1>3. ASSUME NEW r \in Releasers, Fills(r) PROVE Goal
  <2>1. pc[r] \in Quiet /\ UNCHANGED <<bundle, fresh>>
    BY <1>f, <1>3, FillsEffect
  <2>2. CASE Hashes(r) \/ ReadManifest(r) \/ CheckPayloads(r)
    BY <1>q, <2>1, <2>2 DEF Hashes, Identify, ReadManifest, CheckPayloads, Go
  <2>3. CASE PackEntry(r) \/ Digest(r)
    <3>1. \/ pc[r] \in Files /\ Go(r, pc[r], AfterEntry(pc[r]))
          \/ Go(r, "digest", "checksum")
      BY <2>3 DEF PackEntry, Digest
    <3>2. /\ \A f \in Files : AfterEntry(f) \in PCs \cap Quiet
          /\ "checksum" \in PCs \cap Quiet
      BY AfterEach DEF PCs, Quiet, Files, Payloads
    <3>3. \A q \in Releasers : pc'[q] \in {pc[q]} \cup Quiet
      BY <1>t, <3>1, <3>2, Went
    <3>4. QED
      BY <1>0, <2>1, <3>3
  <2>4. QED
    BY <1>3, <2>2, <2>3 DEF Fills
<1>4. ASSUME NEW r \in Releasers, Ends(r) PROVE Goal
  <2>1. pc'[r] = "idle" /\ \A q \in Releasers \ {r} : pc'[q] = pc[q]
    BY <1>t, <1>4, EndsEffect, Stopped
  <2>2. CASE WriteManifest(r) \/ AbandonBuild(r)
    BY <1>f, <1>q, <2>2 DEF WriteManifest, AbandonBuild
  <2>3. CASE ReportSigned(r)
    <3> DEFINE m == job[r].files["manifest.json"]
    <3>1. pc[r] = "signed" /\ bundle' = bundle
      BY <2>3 DEF ReportSigned
    <3>2. fresh = None
      BY <1>f, <1>q, <3>1
    <3>3. alone[r] /\ fresh' = job[r].key
      BY <2>3, <3>2 DEF ReportSigned
    <3>4. /\ \A q \in Releasers \ {r} : pc[q] = "idle"
          /\ Describes(m) /\ bundle["manifest.json"] = m
          /\ bundle["manifest.sig"] = Signature(m, job[r].key)
      BY <1>t, <3>1, <3>3 DEF AloneInv, SignsAlone
    <3>5. m \in Manifests /\ m.signer = job[r].key
      BY <1>t, <3>1 DEF ProcInv, Phase
    <3>6. Verifies(bundle, job[r].key)
      BY <3>4, <3>5, ManifestFields DEF Verifies, Readable, Describes, PayloadMatches
    <3>7. QED
      BY <2>1, <3>1, <3>3, <3>4, <3>6 DEF Quiet
  <2>4. CASE ReportArchive(r) \/ WriteChecksum(r) \/ AbandonChecksum(r) \/ Refuse(r) \/ Fail(r) \/ Kill(r)
    <3>1. UNCHANGED <<bundle, fresh>>
      BY <1>f, <1>q, <2>4 DEF ReportArchive, WriteChecksum, AbandonChecksum, Refuse, Fail, Kill
    <3>2. QED
      BY <1>0, <2>1, <3>1
  <2>5. QED
    BY <1>4, <2>2, <2>3, <2>4 DEF Ends
<1>5. ASSUME RemoveBundle \/ PowerLoss \/ \E v \in Versions : RemoveArchive(v) PROVE Goal
  BY <1>t, <1>0, <1>5, HandEffect
<1>6. ASSUME Update \/ (\E p \in Payloads : Export(p)) \/ UNCHANGED vars PROVE Goal
  <2>1. UNCHANGED <<procs, bundle, fresh>>
    BY <1>t, <1>6, UpdateEffect DEF Export, vars
  <2>2. QED
    BY <1>0, <2>1 DEF procs
<1>7. QED
  BY <1>1, <1>2, <1>3, <1>4, <1>5, <1>6, NextCases DEF Quiet

-----------------------------------------------------------------------------
\* A reported archive stays.
LEMMA StaysOn ==
  ASSUME NEW v \in Versions, Stays(v), reported'[v] \in {reported[v], None},
         v \in taken => v \in taken',
         Owed(v) => /\ archive'[v] = archive[v] /\ v \notin unsynced'
                    /\ v \in summed' => v \in summed /\ checksum'[v] = checksum[v],
         \A r \in Releasers :
           Owed(v) /\ pc'[r] \in Files \cup {"publish", "digest", "checksum"} => job'[r].version # v
  PROVE  Stays(v)'
BY DEF Stays, Owed

LEMMA ReportStep == IInv /\ [Next]_vars => ReportInv'
<1> SUFFICES ASSUME IInv, [Next]_vars, NEW v \in Versions PROVE Stays(v)'
  BY DEF ReportInv
<1> DEFINE Busy == Files \cup {"publish", "digest", "checksum"}
<1>t. TablesInv /\ ProcInv /\ AloneInv /\ Stays(v)
  BY DEF IInv, SoundInv, ReportInv
<1>b. \A r \in Releasers : Owed(v) /\ pc[r] \in Busy => job[r].version # v
  BY <1>t DEF Stays
<1>i. Busy \cap {"idle", "copy boot", "look", "read", "hash boot", "copy hsb", "hash hsb", "manifest",
                 "check", "stamp", "sign", "signed"} = {}
  BY DEF Files, Payloads
<1>a. Owed(v) => archive[v] # None /\ v \notin unsynced
  BY <1>t DEF Stays, Owed
<1>0. ASSUME UNCHANGED releases,
             \A r \in Releasers : Owed(v) /\ pc'[r] \in Busy => job'[r].version # v
      PROVE  Stays(v)'
  BY <1>t, <1>0, <1>a, StaysOn DEF releases, shelf, reports
<1>1. ASSUME NEW r \in Releasers, Begins(r) PROVE Stays(v)'
  <2>1. /\ \A q \in Releasers \ {r} : pc'[q] = pc[q] /\ job'[q] = job[q]
        /\ UNCHANGED releases /\ pc'[r] \in {"copy boot", "look", "read"}
    BY <1>t, <1>1, BeginsEffect DEF Opens
  <2>2. QED
    BY <1>0, <1>b, <1>i, <2>1
<1>2. ASSUME NEW r \in Releasers, Lays(r) PROVE Stays(v)'
  <2>1. /\ UNCHANGED <<checksum, reports, job>>
        /\ \A q \in Releasers \ {r} : pc'[q] = pc[q]
    BY <1>t, <1>2, LaysEffect, Went
  <2>2. CASE Copies(r) \/ PutManifest(r) \/ PutSignature(r)
    <3>1. UNCHANGED releases /\ pc'[r] \in {"hash boot", "hash hsb", "sign", "signed"}
      BY <1>t, <2>2, Went DEF Copies, CopyPayload, PutManifest, PutSignature, PCs
    <3>2. QED
      BY <1>0, <1>b, <1>i, <2>1, <3>1
  <2>3. CASE Look(r)
    <3>1. UNCHANGED releases /\ archive[job[r].version] = None
      BY <2>3 DEF Look, NameIsFree
    <3>2. QED
      BY <1>0, <1>a, <1>b, <2>1, <3>1
  <2>4. CASE Publish(r)
    <3>1. /\ pc[r] = "publish" /\ archive' = [archive EXCEPT ![job[r].version] = job[r].files]
          /\ unsynced' = unsynced \cup {job[r].version}
      BY <2>4 DEF Publish, Go
    <3>2. Owed(v) => archive'[v] = archive[v] /\ v \notin unsynced' /\ job[r].version # v
      BY <1>t, <1>a, <1>b, <3>1 DEF TablesInv, IsFunction
    <3>3. QED
      BY <1>t, <1>b, <2>1, <3>2, StaysOn DEF reports
  <2>5. QED
    BY <1>2, <2>2, <2>3, <2>4 DEF Lays
<1>3. ASSUME NEW r \in Releasers, Fills(r) PROVE Stays(v)'
  <2>1. /\ UNCHANGED <<archive, checksum, reports>> /\ unsynced' \in {unsynced, {}}
        /\ \A q \in Releasers \ {r} : pc'[q] = pc[q]
    BY <1>t, <1>3, FillsEffect, Went
  <2>0. ASSUME \A q \in Releasers : Owed(v) /\ pc'[q] \in Busy => job'[q].version # v
        PROVE  Stays(v)'
    BY <1>t, <1>a, <2>0, <2>1, StaysOn DEF reports
  <2>2. \A q \in Releasers \ {r} : job'[q] = job[q]
    BY <1>t, <1>3 DEF Fills, Hashes, Identify, ReadManifest, CheckPayloads, PackEntry, Digest,
                      TablesInv, IsFunction
  <2>3. CASE Hashes(r) \/ ReadManifest(r) \/ CheckPayloads(r)
    <3>1. pc'[r] \in {"copy hsb", "manifest", "check", "stamp"}
      BY <1>t, <2>3, Went DEF Hashes, Identify, ReadManifest, CheckPayloads, PCs
    <3>2. QED
      BY <2>0, <1>b, <1>i, <2>1, <2>2, <3>1
  <2>4. CASE PackEntry(r) \/ Digest(r)
    <3>1. pc[r] \in Busy
      BY <2>4 DEF PackEntry, Digest, Go
    <3>2. job'[r].version = job[r].version
      BY <1>t, <2>4 DEF PackEntry, Digest, TablesInv, IsFunction, ProcInv, Holds
    <3>3. QED
      BY <2>0, <1>b, <2>1, <2>2, <3>1, <3>2
  <2>5. QED
    BY <1>3, <2>3, <2>4 DEF Fills
<1>4. ASSUME NEW r \in Releasers, Ends(r) PROVE Stays(v)'
  <2>1. pc'[r] = "idle" /\ \A q \in Releasers \ {r} : pc'[q] = pc[q] /\ job'[q] = job[q]
    BY <1>t, <1>4, EndsEffect, Stopped
  <2>2. \A q \in Releasers : Owed(v) /\ pc'[q] \in Busy => job'[q].version # v
    BY <1>b, <1>i, <2>1
  <2>3. CASE WriteManifest(r) \/ AbandonBuild(r) \/ ReportSigned(r) \/ Refuse(r) \/ Fail(r)
    BY <1>0, <2>2, <2>3 DEF WriteManifest, AbandonBuild, ReportSigned, Refuse, Fail
  <2>4. CASE Kill(r)
    <3>1. /\ UNCHANGED <<archive, shelf, reports>>
          /\ \/ checksum' = checksum
             \/ /\ pc[r] = "checksum"
                /\ \E left \in {Torn, job[r].files} :
                     checksum' = [checksum EXCEPT ![job[r].version] = left]
      BY <2>4 DEF Kill
    <3>2. Owed(v) => checksum'[v] = checksum[v]
      BY <1>t, <1>b, <3>1 DEF TablesInv, IsFunction
    <3>3. QED
      BY <1>t, <1>a, <2>2, <3>1, <3>2, StaysOn DEF shelf, reports
  <2>5. CASE AbandonChecksum(r)
    <3>1. /\ pc[r] = "checksum" /\ UNCHANGED <<shelf, reports>>
          /\ archive' = [archive EXCEPT ![job[r].version] = None]
          /\ \/ checksum' = checksum
             \/ \E left \in {checksum[job[r].version], Torn} :
                  checksum' = [checksum EXCEPT ![job[r].version] = left]
      BY <2>5 DEF AbandonChecksum
    <3>2. Owed(v) => archive'[v] = archive[v] /\ checksum'[v] = checksum[v]
      BY <1>t, <1>b, <3>1 DEF TablesInv, IsFunction
    <3>3. QED
      BY <1>t, <1>a, <2>2, <3>1, <3>2, StaysOn DEF shelf, reports
  <2>6. CASE ReportArchive(r) \/ WriteChecksum(r)
    <3> DEFINE w == job[r].version
    <3>1. /\ pc[r] = "checksum" /\ archive' = archive /\ unsynced' = unsynced
          /\ \/ checksum' = checksum /\ Reports(r, {})
             \/ checksum' = [checksum EXCEPT ![w] = job[r].files] /\ Reports(r, {w})
      BY <2>6 DEF ReportArchive, WriteChecksum, shelf
    <3>2. w \in Versions
      BY <1>t, <3>1 DEF ProcInv, Phase
    <3>3. CASE ~alone[r]
      <4>1. UNCHANGED reports
        BY <3>1, <3>3 DEF Reports
      <4>2. Owed(v) => checksum'[v] = checksum[v]
        BY <1>t, <1>b, <3>1 DEF TablesInv, IsFunction
      <4>3. QED
        BY <1>t, <1>a, <2>2, <3>1, <4>1, <4>2, StaysOn DEF reports
    <3>4. CASE alone[r] /\ w # v
      <4>1. /\ reported'[v] = reported[v] /\ checksum'[v] = checksum[v]
            /\ v \in summed' <=> v \in summed
            /\ v \in taken' <=> v \in taken
        BY <1>t, <3>1, <3>4 DEF Reports, TablesInv, IsFunction
      <4>2. QED
        BY <1>t, <1>a, <2>2, <3>1, <4>1, StaysOn
    <3>5. CASE alone[r] /\ w = v
      <4>1. /\ reported'[v] = job[r].files
            /\ v \in summed' => checksum'[v] = job[r].files
        BY <1>t, <3>1, <3>5 DEF Reports, TablesInv, IsFunction
      <4>2. /\ Good(v, archive[v]) /\ archive[v] = job[r].files /\ v \notin unsynced
            /\ \A q \in Releasers \ {r} : pc[q] = "idle"
        BY <1>t, <3>1, <3>5 DEF AloneInv, PacksAlone
      <4>3. \A q \in Releasers : pc'[q] \notin Busy
        BY <1>i, <2>1, <4>2
      <4>4. QED
        BY <3>1, <4>1, <4>2, <4>3 DEF Stays
    <3>6. QED
      BY <3>3, <3>4, <3>5
  <2>7. QED
    BY <1>4, <2>3, <2>4, <2>5, <2>6 DEF Ends
<1>5. CASE RemoveBundle
  BY <1>0, <1>b, <1>5 DEF RemoveBundle
<1>6. ASSUME NEW w \in Versions, RemoveArchive(w) PROVE Stays(v)'
  <2>1. /\ archive' = [archive EXCEPT ![w] = None] /\ checksum' = [checksum EXCEPT ![w] = None]
        /\ reported' = [reported EXCEPT ![w] = None] /\ UNCHANGED <<pc, job, unsynced>>
        /\ summed' = summed \ {w} /\ taken' = taken \ {w}
    BY <1>6 DEF RemoveArchive, shelf
  <2>2. CASE w = v
    BY <1>t, <2>1, <2>2 DEF TablesInv, IsFunction, Stays, Owed
  <2>3. CASE w # v
    <3>1. reported'[v] = reported[v] /\ archive'[v] = archive[v] /\ checksum'[v] = checksum[v]
      BY <1>t, <2>1, <2>3 DEF TablesInv, IsFunction
    <3>2. QED
      BY <1>t, <1>a, <1>b, <2>1, <2>3, <3>1, StaysOn
  <2>4. QED
    BY <2>2, <2>3
<1>7. CASE PowerLoss
  <2>1. \A r \in Releasers : pc'[r] = "idle"
    BY <1>t, <1>7, Stopped DEF PowerLoss
  <2>2. CASE ShelfVanishes
    BY <2>2 DEF ShelfVanishes, Stays, Owed
  <2>3. CASE ShelfSurvives
    <3>1. PICK undone \in SUBSET unsynced :
            archive' = [x \in Versions |-> IF x \in undone THEN None ELSE archive[x]]
      BY <2>3 DEF ShelfSurvives
    <3>2. PICK gone, torn \in SUBSET {x \in Versions : checksum[x] # None} :
            /\ checksum' = [x \in Versions |-> IF x \in gone THEN None
                                              ELSE IF x \in torn THEN Torn ELSE checksum[x]]
            /\ summed' = summed \ (gone \cup torn)
      BY <2>3 DEF ShelfSurvives
    <3>3. UNCHANGED <<reported, taken>> /\ unsynced' = {}
      BY <2>3 DEF ShelfSurvives
    <3>4. Owed(v) => archive'[v] = archive[v]
      BY <1>a, <3>1
    <3>5. v \in summed' => v \in summed /\ checksum'[v] = checksum[v]
      BY <3>2
    <3>6. QED
      BY <1>t, <1>i, <2>1, <3>3, <3>4, <3>5, StaysOn
  <2>4. QED
    BY <1>7, <2>2, <2>3 DEF PowerLoss
<1>8. CASE Update \/ (\E p \in Payloads : Export(p)) \/ UNCHANGED vars
  <2>1. UNCHANGED <<procs, releases>>
    BY <1>t, <1>8, UpdateEffect DEF Export, vars
  <2>2. QED
    BY <1>0, <1>b, <2>1 DEF procs
<1>9. QED
  BY <1>1, <1>2, <1>3, <1>4, <1>5, <1>6, <1>7, <1>8, NextCases

-----------------------------------------------------------------------------
\* What is installed was signed.
LEMMA InstalledStep == IInv /\ [Next]_vars => InstalledWasSigned'
<1> SUFFICES ASSUME IInv, [Next]_vars PROVE InstalledWasSigned'
  OBVIOUS
<1>t. TablesInv /\ DownloadInv /\ InstalledWasSigned /\ signed \subseteq signed'
  BY SignedGrows DEF IInv, SoundInv
<1>0. ASSUME active' = active PROVE InstalledWasSigned'
  BY <1>t, <1>0 DEF InstalledWasSigned
<1>1. ASSUME NEW v \in Versions, Install(v) PROVE InstalledWasSigned'
  <2> DEFINE files == download[v]
             m == files["manifest.json"]
  <2>1. /\ Extracts(v, files) /\ Verifies(files, Trusted)
        /\ active' = [version |-> v, payloads |-> [p \in Payloads |-> files[p]]]
    BY <1>1 DEF Install
  <2>2. Sound(files, signed) /\ m \notin {None, Torn} /\ m.version = v
    BY <1>t, <2>1 DEF Extracts, Readable, Agrees, DownloadInv
  <2>3. m \in Manifests
    BY <2>2, Names DEF Sound, Dir, Fits
  <2>4. files["manifest.sig"] = Signature(m, Trusted)
    BY <2>1 DEF Verifies
  <2>5. Content(m) \in signed
    BY <2>2, <2>3, <2>4, SignatureFields, ValuesAssumption DEF Sound, Vouched
  <2>6. [p \in Payloads |-> files[p]] = m.sums
    <3>1. \A p \in Payloads : files[p] = m.sums[p]
      BY <2>1 DEF Verifies, PayloadMatches
    <3>2. m.sums = [p \in Payloads |-> m.sums[p]]
      BY <2>3, ManifestFields
    <3> HIDE DEF m, files
    <3>3. QED
      BY <3>1, <3>2
  <2>7. active' = Content(m)
    BY <2>1, <2>2, <2>6 DEF Content
  <2>8. QED
    BY <1>t, <2>5, <2>7 DEF InstalledWasSigned
<1>2. CASE Update
  BY <1>t, <1>0, <1>1, <1>2, UpdateEffect
<1>3. ASSUME NEW r \in Releasers, Begins(r) \/ Lays(r) \/ Fills(r) \/ Ends(r) PROVE active' = active
  BY <1>t, <1>3, BeginsEffect, LaysEffect, FillsEffect, EndsEffect DEF Opens, consumer
<1>4. CASE RemoveBundle \/ PowerLoss \/ \E v \in Versions : RemoveArchive(v)
  BY <1>t, <1>0, <1>4, HandEffect DEF consumer
<1>5. CASE (\E p \in Payloads : Export(p)) \/ UNCHANGED vars
  BY <1>0, <1>5 DEF Export, vars, consumer
<1>6. QED
  BY <1>0, <1>2, <1>3, <1>4, <1>5, NextCases

-----------------------------------------------------------------------------
(* The update check. Discovery is a loop over the answer: the function that    *)
(* TLC evaluates exists, and what it keeps is by induction over the releases   *)
(* looked at the newest usable one of them.                                    *)

LEMMA LeastElement ==
  ASSUME NEW T, T \subseteq Nat, T # {}
  PROVE  \E x \in T : \A y \in T : x <= y
<1> DEFINE Less == OpToRel(<, Nat)
<1>1. IsWellFoundedOn(Less, Nat)
  BY NatLessThanWellFounded
<1>2. \A x, y \in Nat : <<y, x>> \in Less <=> y < x
  BY DEF OpToRel
<1> HIDE DEF Less
<1>3. \E x \in T : \A y \in T : ~(<<y, x>> \in Less)
  BY <1>1, WFMin
<1>4. PICK x \in T : \A y \in T : ~(<<y, x>> \in Less)
  BY <1>3
<1>5. ASSUME NEW y \in T PROVE x <= y
  <2>1. x \in Nat /\ y \in Nat
    OBVIOUS
  <2>2. ~(y < x)
    BY <1>2, <1>4, <2>1
  <2>3. QED
    BY <2>1, <2>2
<1>6. QED
  BY <1>5

\* What the loop of the discovery keeps as the best after one more release.
Kept(best, rel, current) == IF Usable(rel, current) THEN Better(best, rel) ELSE best

\* The loop, as a function from the releases looked at to the best of them.
Loop(f, feed, current, m) ==
  f = [n \in 0..m |-> IF n = 0 THEN None ELSE Kept(f[n - 1], feed[n], current)]

LEMMA DiscoveryLoops ==
  ASSUME NEW feed, Len(feed) \in Nat, NEW current
  PROVE  \E f : /\ Loop(f, feed, current, Len(feed))
                /\ DiscoverDistributionRelease(feed, current) = f[Len(feed)]
<1> DEFINE N == Len(feed)
           Missing == {m \in 0..N : ~\E f : Loop(f, feed, current, m)}
<1>1. Missing = {}
  <2> SUFFICES ASSUME Missing # {} PROVE FALSE
    OBVIOUS
  <2> HIDE DEF Missing
  <2>1. PICK m \in Missing : \A k \in Missing : m <= k
    <3>1. Missing \subseteq Nat
      BY DEF Missing
    <3>2. QED
      BY <3>1, LeastElement
  <2>2. m \in 0..N /\ ~\E f : Loop(f, feed, current, m)
    BY DEF Missing
  <2>3. CASE m = 0
    <3>1. Loop([n \in 0..0 |-> None], feed, current, 0)
      BY DEF Loop
    <3>2. QED
      BY <2>2, <2>3, <3>1
  <2>4. CASE m # 0
    <3>1. m - 1 \in 0..N /\ ~(m <= m - 1) /\ m - 1 \in Nat /\ m \in Nat
      BY <2>2, <2>4
    <3>2. PICK f : Loop(f, feed, current, m - 1)
      BY <2>1, <3>1 DEF Missing
    <3> DEFINE g == [n \in 0..m |-> IF n = m THEN Kept(f[m - 1], feed[m], current) ELSE f[n]]
    <3>3. \A n \in 0..(m - 1) : f[n] = IF n = 0 THEN None ELSE Kept(f[n - 1], feed[n], current)
      BY <3>2 DEF Loop
    <3>4. g = [n \in 0..m |-> g[n]]
      OBVIOUS
    <3>5. \A n \in 0..(m - 1) : g[n] = f[n]
      BY <3>1
    <3>6. g[m] = Kept(f[m - 1], feed[m], current)
      BY <3>1
    <3> HIDE DEF g
    <3>7. ASSUME NEW n \in 0..m
          PROVE  g[n] = IF n = 0 THEN None ELSE Kept(g[n - 1], feed[n], current)
      <4>1. CASE n = m
        <5>1. g[n - 1] = f[m - 1]
          BY <3>1, <3>5, <4>1
        <5>2. QED
          BY <2>4, <3>6, <4>1, <5>1
      <4>2. CASE n # m
        <5>1. n \in 0..(m - 1) /\ (n # 0 => n - 1 \in 0..(m - 1))
          BY <3>1, <4>2
        <5>2. QED
          BY <3>3, <3>5, <5>1
      <4>3. QED
        BY <4>1, <4>2
    <3>8. Loop(g, feed, current, m)
      BY <3>4, <3>7 DEF Loop
    <3>9. QED
      BY <2>2, <3>8
  <2>5. QED
    BY <2>3, <2>4
<1>2. \E f : Loop(f, feed, current, N)
  BY <1>1
<1> DEFINE best == CHOOSE f : Loop(f, feed, current, N)
<1>3. Loop(best, feed, current, N)
  BY <1>2
<1>4. DiscoverDistributionRelease(feed, current) = best[N]
  BY DEF DiscoverDistributionRelease, Loop, Kept
<1>5. QED
  BY <1>3, <1>4

\* The best of the first n releases of an answer.
NewestOf(v, feed, n, current) ==
  /\ v \in Versions \cup {None}
  /\ v = None => \A i \in 1..n : ~Usable(feed[i], current)
  /\ v # None => /\ \E i \in 1..n : Usable(feed[i], current) /\ feed[i].version = v
                 /\ \A i \in 1..n : Usable(feed[i], current) => feed[i].version <= v

LEMMA KeptIsNewest ==
  ASSUME NEW feed, NEW n \in Nat, NEW v, NEW current, NewestOf(v, feed, n, current),
         \A i \in 1..(n + 1) : feed[i].version \in Versions \cup {None}
  PROVE  NewestOf(Kept(v, feed[n + 1], current), feed, n + 1, current)
<1> DEFINE rel == feed[n + 1]
           w == Kept(v, rel, current)
<1>1. \A i \in 1..(n + 1) : i \in 1..n \/ i = n + 1
  OBVIOUS
<1>2. n + 1 \in 1..(n + 1) /\ \A i \in 1..n : i \in 1..(n + 1)
  OBVIOUS
<1>3. Versions \subseteq Nat /\ None \notin Nat
  BY ValuesAssumption
<1>4. \A i \in 1..(n + 1) : Usable(feed[i], current) => feed[i].version \in Versions
  BY DEF Usable
<1>5. v \in Versions \cup {None}
  BY DEF NewestOf
<1> DEFINE U == {i \in 1..(n + 1) : Usable(feed[i], current)}
<1>6. \A i \in 1..(n + 1) : i \in U <=> Usable(feed[i], current)
  OBVIOUS
<1> HIDE DEF U
<1>7. /\ v = None => \A i \in 1..n : i \notin U
      /\ v # None => /\ \E i \in 1..n : i \in U /\ feed[i].version = v
                     /\ \A i \in 1..n : i \in U => feed[i].version <= v
  BY <1>2, <1>6 DEF NewestOf
<1>8. w = IF n + 1 \in U THEN IF v = None \/ rel.version > v THEN rel.version ELSE v ELSE v
  BY <1>2, <1>6 DEF Kept, Better
<1>9. \A i \in 1..(n + 1) : i \in U => feed[i].version \in Nat /\ feed[i].version # None
  BY <1>3, <1>4, <1>6
<1> HIDE DEF w
<1>10. /\ w \in Versions \cup {None}
       /\ w = None => \A i \in 1..(n + 1) : i \notin U
       /\ w # None => /\ \E i \in 1..(n + 1) : i \in U /\ feed[i].version = w
                      /\ \A i \in 1..(n + 1) : i \in U => feed[i].version <= w
  <2>1. CASE n + 1 \notin U
    BY <1>1, <1>2, <1>5, <1>7, <1>8, <2>1
  <2>2. CASE n + 1 \in U /\ v = None
    <3>1. w = rel.version /\ rel.version \in Versions /\ rel.version \in Nat /\ w # None
      BY <1>2, <1>4, <1>6, <1>8, <1>9, <2>2
    <3>2. \A i \in 1..(n + 1) : i \in U => i = n + 1
      BY <1>1, <1>7, <2>2
    <3>3. rel.version <= w
      BY <3>1
    <3>4. \E i \in 1..(n + 1) : i \in U /\ feed[i].version = w
      BY <1>2, <2>2, <3>1
    <3>5. \A i \in 1..(n + 1) : i \in U => feed[i].version <= w
      BY <3>2, <3>3
    <3>6. QED
      BY <3>1, <3>4, <3>5
  <2>3. CASE n + 1 \in U /\ v # None
    <3>1. /\ v \in Nat /\ v \in Versions /\ rel.version \in Nat /\ rel.version \in Versions
          /\ rel.version # None
      BY <1>2, <1>3, <1>4, <1>5, <1>6, <1>9, <2>3
    <3>2. w = IF rel.version > v THEN rel.version ELSE v
      BY <1>8, <2>3
    <3>3. w \in Nat /\ w \in Versions /\ w # None /\ v <= w /\ rel.version <= w
      BY <2>3, <3>1, <3>2
    <3>4. \A i \in 1..n : i \in U => feed[i].version <= v /\ feed[i].version \in Nat
      BY <1>2, <1>7, <1>9, <2>3
    <3>5. \A i \in 1..n : i \in U => feed[i].version <= w
      BY <3>1, <3>3, <3>4
    <3>6. \A i \in 1..(n + 1) : i \in U => feed[i].version <= w
      BY <1>1, <3>3, <3>5
    <3>7. \E i \in 1..(n + 1) : i \in U /\ feed[i].version = w
      <4>1. CASE w = rel.version
        BY <1>2, <2>3, <4>1
      <4>2. CASE w = v
        BY <1>2, <1>7, <2>3, <4>2
      <4>3. QED
        BY <3>2, <4>1, <4>2
    <3>8. QED
      BY <3>3, <3>6, <3>7
  <2>4. QED
    BY <2>1, <2>2, <2>3
<1>11. NewestOf(w, feed, n + 1, current)
  BY <1>6, <1>10 DEF NewestOf
<1>12. QED
  BY <1>11 DEF w

LEMMA DiscoveryIsNewest ==
  ASSUME NEW feed \in Feeds, NEW current
  PROVE  /\ DOMAIN feed = 1..Len(feed)
         /\ NewestOf(DiscoverDistributionRelease(feed, current), feed, Len(feed), current)
<1>1. Len(feed) \in Nat /\ DOMAIN feed = 1..Len(feed)
  BY FeedsAssumption, LenProperties
<1>2. \A i \in 1..Len(feed) : feed[i].version \in Versions \cup {None}
  BY <1>1, FeedsAssumption
<1> DEFINE N == Len(feed)
<1>3. PICK f : Loop(f, feed, current, N) /\ DiscoverDistributionRelease(feed, current) = f[N]
  BY <1>1, DiscoveryLoops
<1>4. N \in Nat /\ \A i \in 1..N : feed[i].version \in Versions \cup {None}
  BY <1>1, <1>2
<1> HIDE DEF N
<1>5. \A n \in 0..N : f[n] = IF n = 0 THEN None ELSE Kept(f[n - 1], feed[n], current)
  BY <1>3 DEF Loop
<1> DEFINE Wrong == {n \in 0..N : ~NewestOf(f[n], feed, n, current)}
<1>6. Wrong = {}
  <2> SUFFICES ASSUME Wrong # {} PROVE FALSE
    OBVIOUS
  <2> HIDE DEF Wrong
  <2>1. PICK n \in Wrong : \A k \in Wrong : n <= k
    <3>1. Wrong \subseteq Nat
      BY DEF Wrong
    <3>2. QED
      BY <3>1, LeastElement
  <2>2. n \in 0..N /\ ~NewestOf(f[n], feed, n, current)
    BY DEF Wrong
  <2>3. CASE n = 0
    <3>1. f[0] = None
      BY <1>5, <2>2, <2>3
    <3>2. 1..0 = {}
      OBVIOUS
    <3>3. NewestOf(None, feed, 0, current)
      BY <3>2 DEF NewestOf
    <3>4. QED
      BY <2>2, <2>3, <3>1, <3>3
  <2>4. CASE n # 0
    <3> DEFINE m == n - 1
    <3>1. m \in Nat /\ m \in 0..N /\ m + 1 = n /\ ~(n <= m)
      BY <1>4, <2>2, <2>4
    <3>2. NewestOf(f[m], feed, m, current)
      BY <2>1, <3>1 DEF Wrong
    <3>3. \A i \in 1..(m + 1) : feed[i].version \in Versions \cup {None}
      BY <1>4, <2>2, <3>1
    <3>4. f[n] = Kept(f[m], feed[n], current)
      BY <1>5, <2>2, <2>4
    <3> HIDE DEF m
    <3>5. NewestOf(Kept(f[m], feed[m + 1], current), feed, m + 1, current)
      BY <3>1, <3>2, <3>3, KeptIsNewest
    <3>6. QED
      BY <2>2, <3>1, <3>4, <3>5
  <2>5. QED
    BY <2>3, <2>4
<1>7. NewestOf(f[N], feed, N, current)
  BY <1>4, <1>6
<1>8. QED
  BY <1>1, <1>3, <1>7 DEF N

\* An offer was made from an answer and from what is still the active release.
OfferInv ==
  client.pc = "offered" =>
    /\ client.feed \in Feeds
    /\ client.version = DiscoverDistributionRelease(client.feed, active)

LEMMA OfferInit == Init => OfferInv
BY DEF Init, OfferInv, Idle

LEMMA OfferStep == TablesInv /\ OfferInv /\ [Next]_vars => OfferInv'
<1> SUFFICES ASSUME TablesInv, OfferInv, [Next]_vars PROVE OfferInv'
  OBVIOUS
<1>1. ASSUME UNCHANGED <<client, active>> PROVE OfferInv'
  BY <1>1 DEF OfferInv
<1>2. CASE Update
  <2>1. ASSUME NEW feed \in Feeds, Check(feed) PROVE OfferInv'
    <3>1. /\ client'.feed = feed /\ active' = active
          /\ client'.version = DiscoverDistributionRelease(feed, active)
      BY <2>1 DEF Check, Idle
    <3>2. QED
      BY <3>1 DEF OfferInv
  <2>2. ASSUME NEW v \in Versions, NEW e, Download(v, e) PROVE OfferInv'
    BY <2>2 DEF Download, Idle, OfferInv
  <2>3. ASSUME NEW v \in Versions, Install(v) PROVE OfferInv'
    BY <2>3 DEF Install, OfferInv
  <2>4. ASSUME NEW v \in Versions, Discard(v) PROVE OfferInv'
    BY <1>1, <2>4 DEF Discard
  <2>5. CASE Fetch
    BY <2>5 DEF Fetch, Idle, OfferInv
  <2>6. QED
    BY <1>2, <2>1, <2>2, <2>3, <2>4, <2>5 DEF Update
<1>3. ASSUME NEW r \in Releasers, Begins(r) \/ Lays(r) \/ Fills(r) \/ Ends(r)
      PROVE  UNCHANGED consumer
  BY <1>3, BeginsEffect, LaysEffect, FillsEffect, EndsEffect DEF Opens
<1>4. CASE RemoveBundle \/ PowerLoss \/ \E v \in Versions : RemoveArchive(v)
  BY <1>1, <1>4, HandEffect DEF consumer
<1>5. CASE (\E p \in Payloads : Export(p)) \/ UNCHANGED vars
  BY <1>1, <1>5 DEF Export, vars, consumer
<1>6. QED
  BY <1>1, <1>2, <1>3, <1>4, <1>5, NextCases DEF consumer

LEMMA OfferedIsNewest == OfferInv => OfferIsNewest
<1> SUFFICES ASSUME OfferInv, client.pc = "offered"
             PROVE  OfferIsNewest
  BY DEF OfferIsNewest
<1> DEFINE feed == client.feed
           usable == {feed[i].version : i \in {n \in DOMAIN feed : Usable(feed[n], active)}}
<1>1. /\ DOMAIN feed = 1..Len(feed)
      /\ NewestOf(client.version, feed, Len(feed), active)
  BY DiscoveryIsNewest DEF OfferInv
<1>2. CASE client.version = None
  <2>1. usable = {}
    BY <1>1, <1>2 DEF NewestOf
  <2>2. QED
    BY <1>2, <2>1 DEF OfferIsNewest
<1>3. CASE client.version # None
  <2>1. client.version \in usable /\ \A w \in usable : w <= client.version
    BY <1>1, <1>3 DEF NewestOf
  <2>2. QED
    BY <1>3, <2>1 DEF OfferIsNewest
<1>4. QED
  BY <1>2, <1>3

-----------------------------------------------------------------------------
\* What TypeOK says besides: of checksum files, the keys and versions commands were
\* given, the client, and the releases that were signed.
Named(c) == c \in {None, Torn} \/ Dir(c)
ChecksumTyped == \A v \in Versions : Named(checksum[v])
JobTyped == \A r \in Releasers : /\ job[r].version \in Versions \cup {None}
                                 /\ job[r].key \in Keys \cup {None}
ClientTyped == /\ client.pc \in {"idle", "offered", "fetch"}
               /\ client.version \in Versions \cup {None} /\ client.feed \in Feeds \cup {<<>>}
SignedTyped == /\ signed \subseteq [version : Versions, payloads : [Payloads -> Nat]]
               /\ fresh \in Keys \cup {None}
CountsTyped == starts \in 0..MaxStarts /\ mishaps \in 0..MaxMishaps
ShelfTyped == /\ anchored \in BOOLEAN /\ unsynced \subseteq Versions
              /\ summed \subseteq Versions /\ taken \subseteq Versions
              /\ \A v \in Versions : reported[v] # None => Dir(reported[v])
RestTyped == ShelfTyped /\ ChecksumTyped /\ JobTyped /\ ClientTyped /\ SignedTyped /\ CountsTyped

LEMMA InitTyped == Init => RestTyped
<1> SUFFICES ASSUME Init PROVE RestTyped
  OBVIOUS
<1>1. ShelfTyped /\ ChecksumTyped
  BY DEF Init, ShelfTyped, ChecksumTyped, Named
<1>2. JobTyped /\ ClientTyped /\ SignedTyped /\ CountsTyped
  BY BoundsAssumption DEF Init, JobTyped, ClientTyped, SignedTyped, CountsTyped, NoJob, Idle
<1>3. QED
  BY <1>1, <1>2 DEF RestTyped

LEMMA ChecksumTypedStep == SoundInv /\ ChecksumTyped /\ [Next]_vars => ChecksumTyped'
<1> SUFFICES ASSUME SoundInv, ChecksumTyped, [Next]_vars PROVE ChecksumTyped'
  OBVIOUS
<1>t. TablesInv /\ \A r \in Releasers : Dir(job[r].files)
  BY DEF SoundInv, ProcInv, Holds, Sound
<1>0. ASSUME \A v \in Versions : checksum'[v] \in {checksum[v], None, Torn} PROVE ChecksumTyped'
  BY <1>0 DEF ChecksumTyped, Named
<1>1. ASSUME NEW r \in Releasers, WriteChecksum(r) \/ Kill(r) PROVE ChecksumTyped'
  <2>1. \A v \in Versions : checksum'[v] \in {checksum[v], Torn, job[r].files}
    BY <1>t, <1>1 DEF WriteChecksum, Kill, TablesInv, IsFunction
  <2>2. QED
    BY <1>t, <2>1 DEF ChecksumTyped, Named
<1>2. ASSUME NEW r \in Releasers, Begins(r) \/ Lays(r) \/ Fills(r) PROVE ChecksumTyped'
  BY <1>t, <1>0, <1>2, BeginsEffect, LaysEffect, FillsEffect DEF Opens, releases
<1>3. ASSUME NEW r \in Releasers, Ends(r), ~WriteChecksum(r), ~Kill(r) PROVE ChecksumTyped'
  <2>1. \A v \in Versions : checksum'[v] \in {checksum[v], None, Torn}
    BY <1>t, <1>3 DEF Ends, WriteManifest, AbandonBuild, ReportSigned, ReportArchive, AbandonChecksum,
                Refuse, Fail, TablesInv, IsFunction, releases
  <2>2. QED
    BY <1>0, <2>1
<1>4. CASE RemoveBundle \/ PowerLoss \/ (\E v \in Versions : RemoveArchive(v)) \/ (\E p \in Payloads : Export(p))
  <2>1. \A v \in Versions : checksum'[v] \in {checksum[v], None, Torn}
    BY <1>t, <1>4 DEF RemoveBundle, PowerLoss, ShelfVanishes, ShelfSurvives, RemoveArchive, Export, TablesInv, IsFunction, releases
  <2>2. QED
    BY <1>0, <2>1
<1>5. CASE Update \/ UNCHANGED vars
  BY <1>0, <1>t, <1>5, UpdateEffect DEF vars, releases
<1>6. QED
  BY <1>1, <1>2, <1>3, <1>4, <1>5, NextCases

\* The archives' directory, and what was reported of it.
LEMMA ShelfTypedStep == SoundInv /\ ShelfTyped /\ [Next]_vars => ShelfTyped'
<1> SUFFICES ASSUME SoundInv, ShelfTyped, [Next]_vars PROVE ShelfTyped'
  OBVIOUS
<1>t. TablesInv /\ \A r \in Releasers : Phase(r) /\ Dir(job[r].files)
  BY DEF SoundInv, ProcInv, Holds, Sound
<1>0. ASSUME anchored' \in BOOLEAN, unsynced' \subseteq Versions, UNCHANGED reports PROVE ShelfTyped'
  BY <1>0 DEF ShelfTyped, reports
<1>1. ASSUME NEW r \in Releasers, ReportArchive(r) \/ WriteChecksum(r) PROVE ShelfTyped'
  <2>1. UNCHANGED shelf /\ \E sums \in {{}, {job[r].version}} : Reports(r, sums)
    BY <1>1 DEF ReportArchive, WriteChecksum
  <2>2. job[r].version \in Versions
    BY <1>t, <1>1 DEF Phase, ReportArchive, WriteChecksum
  <2>3. PICK sums \in {{}, {job[r].version}} : Reports(r, sums)
    BY <2>1
  <2>4. \/ UNCHANGED reports
        \/ /\ \A v \in Versions : reported'[v] \in {reported[v], job[r].files}
           /\ summed' = (summed \ {job[r].version}) \cup sums /\ taken' = taken \ {job[r].version}
    BY <1>t, <2>3 DEF Reports, TablesInv, IsFunction
  <2>5. QED
    BY <1>t, <2>1, <2>2, <2>3, <2>4 DEF ShelfTyped, shelf, reports
<1>2. ASSUME NEW r \in Releasers, Publish(r) PROVE ShelfTyped'
  <2>1. job[r].version \in Versions /\ unsynced' = unsynced \cup {job[r].version}
        /\ UNCHANGED <<anchored, reports>>
    BY <1>t, <1>2 DEF Phase, Publish, Go
  <2>2. QED
    BY <1>0, <2>1 DEF ShelfTyped
<1>3. ASSUME NEW r \in Releasers, Begins(r) \/ Lays(r) \/ Fills(r) \/ Ends(r),
             ~Publish(r), ~ReportArchive(r), ~WriteChecksum(r)
      PROVE  ShelfTyped'
  <2>1. CASE Begins(r) \/ Fills(r)
    BY <1>0, <1>t, <2>1, BeginsEffect, FillsEffect DEF Opens, releases, shelf, ShelfTyped
  <2>2. CASE Lays(r)
    BY <1>0, <1>3, <2>2 DEF Lays, Copies, CopyPayload, PutManifest, PutSignature, Look, releases, shelf,
                            ShelfTyped
  <2>3. CASE Ends(r)
    BY <1>0, <1>3, <2>3 DEF Ends, WriteManifest, AbandonBuild, ReportSigned, AbandonChecksum, Refuse,
                            Fail, Kill, releases, shelf, ShelfTyped
  <2>4. QED
    BY <1>3, <2>1, <2>2, <2>3
<1>4. CASE PowerLoss
  <2>1. CASE ShelfVanishes
    BY <2>1 DEF ShelfVanishes, ShelfTyped
  <2>2. CASE ShelfSurvives
    BY <2>2 DEF ShelfSurvives, ShelfTyped
  <2>3. QED
    BY <1>4, <2>1, <2>2 DEF PowerLoss
<1>5. ASSUME NEW v \in Versions, RemoveArchive(v) PROVE ShelfTyped'
  BY <1>t, <1>5 DEF RemoveArchive, ShelfTyped, shelf, TablesInv, IsFunction
<1>6. CASE RemoveBundle \/ (\E p \in Payloads : Export(p)) \/ Update \/ UNCHANGED vars
  BY <1>0, <1>t, <1>6, UpdateEffect DEF RemoveBundle, Export, vars, releases, shelf, ShelfTyped
<1>7. QED
  BY <1>1, <1>2, <1>3, <1>4, <1>5, <1>6, NextCases

\* A command keeps the version and the key it was started with.
LEMMA JobTypedStep == SoundInv /\ JobTyped /\ [Next]_vars => JobTyped'
<1> SUFFICES ASSUME SoundInv, JobTyped, [Next]_vars PROVE JobTyped'
  OBVIOUS
<1>t. TablesInv /\ ProcInv
  BY DEF SoundInv
<1>0. ASSUME \A r \in Releasers : \/ job'[r] = NoJob
                                  \/ /\ job'[r].version = job[r].version
                                     /\ job'[r].key = job[r].key
      PROVE  JobTyped'
  BY <1>0 DEF JobTyped, NoJob
<1>1. ASSUME NEW r \in Releasers, Begins(r) PROVE JobTyped'
  <2>1. /\ \A q \in Releasers \ {r} : job'[q] = job[q]
        /\ job'[r].version \in Versions \cup {None} /\ job'[r].key \in Keys \cup {None}
    <3>1. ASSUME NEW first \in PCs, NEW v \in Versions \cup {None}, NEW k \in Keys \cup {None},
                 Start(r, first, v, k)
          PROVE  job'[r].version \in Versions \cup {None} /\ job'[r].key \in Keys \cup {None}
      BY <1>t, <3>1, BeginsFrame
    <3>2. \E first \in PCs : \E v \in Versions \cup {None} : \E k \in Keys \cup {None} :
            Start(r, first, v, k)
      BY <1>1 DEF Begins, Build, Archive, Sign, PCs
    <3>3. QED
      BY <1>t, <1>1, <3>1, <3>2, BeginsEffect DEF Opens
  <2>2. QED
    BY <2>1 DEF JobTyped
<1>2. ASSUME NEW r \in Releasers, Lays(r) PROVE JobTyped'
  BY <1>0, <1>2, LaysEffect
<1>3. ASSUME NEW r \in Releasers, Fills(r) PROVE JobTyped'
  <2>1. Holds(r)
    BY <1>t DEF ProcInv
  <2>2. \A d : Rereads(r, d) =>
          /\ \A q \in Releasers \ {r} : job'[q] = job[q]
          /\ job'[r].version = job[r].version /\ job'[r].key = job[r].key
    BY <1>t, <2>1, JobFill
  <2>3. \E d : Rereads(r, d)
    BY <1>t, <1>3, <2>1 DEF Fills, Hashes, Identify, ReadManifest, CheckPayloads, PackEntry, Digest, Rereads, TablesInv
  <2>4. QED
    BY <1>0, <2>2, <2>3
<1>4. ASSUME NEW r \in Releasers, Ends(r) PROVE JobTyped'
  BY <1>0, <1>t, <1>4, EndsEffect, Stopped
<1>5. CASE RemoveBundle \/ PowerLoss \/ \E v \in Versions : RemoveArchive(v)
  BY <1>0, <1>t, <1>5, HandEffect
<1>6. CASE Update \/ (\E p \in Payloads : Export(p)) \/ UNCHANGED vars
  BY <1>0, <1>t, <1>6, UpdateEffect DEF Export, vars, procs
<1>7. QED
  BY <1>1, <1>2, <1>3, <1>4, <1>5, <1>6, NextCases

\* What the check offers is a version of the answer; otherwise the client was told one.
LEMMA ClientTypedStep == TablesInv /\ ClientTyped /\ [Next]_vars => ClientTyped'
<1> SUFFICES ASSUME TablesInv, ClientTyped, [Next]_vars PROVE ClientTyped'
  OBVIOUS
<1>1. ASSUME client' = client PROVE ClientTyped'
  BY <1>1 DEF ClientTyped
<1>2. CASE Update
  <2>1. ASSUME NEW feed \in Feeds, Check(feed) PROVE ClientTyped'
    <3>1. DiscoverDistributionRelease(feed, active) \in Versions \cup {None}
      BY DiscoveryIsNewest DEF NewestOf
    <3>2. /\ client'.feed = feed /\ client'.pc = "offered"
          /\ client'.version = DiscoverDistributionRelease(feed, active)
      BY <2>1 DEF Check, Idle
    <3>3. QED
      BY <3>1, <3>2 DEF ClientTyped
  <2>2. ASSUME NEW v \in Versions, NEW e, Download(v, e) PROVE ClientTyped'
    BY <2>2 DEF Download, Idle, ClientTyped
  <2>3. ASSUME NEW v \in Versions, Install(v) \/ Discard(v) PROVE ClientTyped'
    BY <1>1, <2>3 DEF Install, Discard
  <2>4. CASE Fetch
    BY <2>4 DEF Fetch, Idle, ClientTyped
  <2>5. QED
    BY <1>2, <2>1, <2>2, <2>3, <2>4 DEF Update
<1>3. ASSUME NEW r \in Releasers, Begins(r) \/ Lays(r) \/ Fills(r) \/ Ends(r)
      PROVE  UNCHANGED consumer
  BY <1>3, BeginsEffect, LaysEffect, FillsEffect, EndsEffect DEF Opens
<1>4. CASE RemoveBundle \/ PowerLoss \/ \E v \in Versions : RemoveArchive(v)
  BY <1>1, <1>4, HandEffect DEF consumer
<1>5. CASE (\E p \in Payloads : Export(p)) \/ UNCHANGED vars
  BY <1>1, <1>5 DEF Export, vars, consumer
<1>6. QED
  BY <1>1, <1>2, <1>3, <1>4, <1>5, NextCases DEF consumer

\* What is signed is a release: the manifest that a signer read.
LEMMA SignedTypedStep == SoundInv /\ SignedTyped /\ [Next]_vars => SignedTyped'
<1> SUFFICES ASSUME SoundInv, SignedTyped, [Next]_vars PROVE SignedTyped'
  OBVIOUS
<1>t. TablesInv /\ ProcInv
  BY DEF SoundInv
<1>0. ASSUME signed' = signed, fresh' \in {fresh, None} PROVE SignedTyped'
  BY <1>0 DEF SignedTyped
<1>1. ASSUME NEW r \in Releasers, PutSignature(r) PROVE SignedTyped'
  <2> DEFINE m == job[r].files["manifest.json"]
  <2>1. m \in Manifests
    BY <1>t, <1>1 DEF ProcInv, Phase, PutSignature, Go
  <2>2. [version |-> m.version, payloads |-> m.sums] \in [version : Versions, payloads : [Payloads -> Nat]]
    BY <2>1 DEF Manifests
  <2>3. fresh' = fresh /\ \A s \in signed' : \/ s \in signed
                                             \/ s = [version |-> m.version, payloads |-> m.sums]
    BY <1>1 DEF PutSignature
  <2>4. QED
    BY <2>2, <2>3 DEF SignedTyped
<1>2. ASSUME NEW r \in Releasers, ReportSigned(r) PROVE SignedTyped'
  <2>1. job[r].key \in Keys
    BY <1>t, <1>2 DEF ProcInv, Phase, ReportSigned
  <2>2. QED
    BY <1>2, <2>1 DEF ReportSigned, SignedTyped
<1>3. ASSUME NEW r \in Releasers, Begins(r) \/ Fills(r) PROVE SignedTyped'
  BY <1>t, <1>0, <1>3, BeginsEffect, FillsEffect DEF Opens
<1>4. ASSUME NEW r \in Releasers, Lays(r), ~PutSignature(r) PROVE SignedTyped'
  BY <1>0, <1>4 DEF Lays, Copies, CopyPayload, PutManifest, Look, Publish
<1>5. ASSUME NEW r \in Releasers, Ends(r), ~ReportSigned(r) PROVE SignedTyped'
  BY <1>0, <1>5 DEF Ends, WriteManifest, AbandonBuild, ReportArchive, WriteChecksum, AbandonChecksum, Refuse, Fail, Kill
<1>6. CASE RemoveBundle \/ PowerLoss \/ \E v \in Versions : RemoveArchive(v)
  BY <1>t, <1>0, <1>6, HandEffect
<1>7. CASE Update \/ (\E p \in Payloads : Export(p)) \/ UNCHANGED vars
  BY <1>t, <1>0, <1>7, UpdateEffect DEF Export, vars
<1>8. QED
  BY <1>1, <1>2, <1>3, <1>4, <1>5, <1>6, <1>7, NextCases

LEMMA CountsTypedStep == CountsTyped /\ [Next]_vars => CountsTyped'
<1> SUFFICES ASSUME CountsTyped, [Next]_vars PROVE CountsTyped'
  OBVIOUS
<1>0. ASSUME starts' = starts \/ (starts < MaxStarts /\ starts' = starts + 1),
             mishaps' = mishaps \/ Mishap
      PROVE  CountsTyped'
  BY <1>0, BoundsAssumption DEF CountsTyped, Mishap
<1>1. ASSUME NEW r \in Releasers, Begins(r) PROVE CountsTyped'
  BY <1>0, <1>1 DEF Begins, Build, Archive, Sign, Start
<1>2. ASSUME NEW r \in Releasers, Lays(r) \/ Fills(r) PROVE CountsTyped'
  BY <1>0, <1>2 DEF Lays, Copies, CopyPayload, PutManifest, PutSignature, Look, Publish, Fills, Hashes,
                    Identify, ReadManifest, CheckPayloads, PackEntry, Digest, bounds
<1>3. ASSUME NEW r \in Releasers, Ends(r) PROVE CountsTyped'
  BY <1>0, <1>3 DEF Ends, WriteManifest, AbandonBuild, ReportSigned, ReportArchive, WriteChecksum, AbandonChecksum,
                    Refuse, Fail, Kill, bounds
<1>4. CASE RemoveBundle \/ PowerLoss \/ (\E v \in Versions : RemoveArchive(v)) \/ (\E p \in Payloads : Export(p))
  BY <1>0, <1>4 DEF RemoveBundle, PowerLoss, RemoveArchive, Export, bounds
<1>5. CASE Update \/ UNCHANGED vars
  BY <1>0, <1>5 DEF Update, Check, Download, Install, Discard, Fetch, vars, bounds
<1>6. QED
  BY <1>1, <1>2, <1>3, <1>4, <1>5, NextCases

-----------------------------------------------------------------------------
LEMMA InitIInv == Init => IInv
<1> SUFFICES ASSUME Init PROVE IInv
  OBVIOUS
<1>1. TablesInv
  BY DEF Init, TablesInv, IsFunction, PCs
<1>2. BundleInv /\ ArchiveInv /\ DownloadInv
  BY DEF Init, BundleInv, ArchiveInv, DownloadInv
<1>3. ProcInv
  BY IdleHolds DEF Init, ProcInv
<1>4. AloneInv /\ FreshInv
  BY DEF Init, AloneInv, FreshInv
<1>5. ReportInv
  BY DEF Init, ReportInv, Stays, Owed
<1>6. InstalledWasSigned
  BY DEF Init, InstalledWasSigned
<1>7. QED
  BY <1>1, <1>2, <1>3, <1>4, <1>5, <1>6 DEF IInv, SoundInv

LEMMA StepIInv == IInv /\ [Next]_vars => IInv'
<1>1. IInv => SoundInv
  BY DEF IInv
<1>2. QED
  BY <1>1, SoundStep, AloneStep, FreshStep, ReportStep, InstalledStep DEF IInv

LEMMA Invariance == Spec => []IInv
BY InitIInv, StepIInv, PTL DEF Spec

\* Every variable keeps its type, however many commands, mishaps and answers there are.
THEOREM TypeCorrect == Spec => []TypeOK
<1>1. IInv /\ RestTyped /\ [Next]_vars => RestTyped'
  <2>1. IInv => SoundInv /\ TablesInv
    BY DEF IInv, SoundInv
  <2>2. QED
    BY <2>1, ShelfTypedStep, ChecksumTypedStep, JobTypedStep, ClientTypedStep, SignedTypedStep, CountsTypedStep
       DEF RestTyped
<1>2. IInv /\ RestTyped => TypeOK
  <2> SUFFICES ASSUME IInv, RestTyped PROVE TypeOK
    OBVIOUS
  <2>1. \A d : Dir(d) => Directory(d)
    BY Names DEF Dir, Fits, IsFunction, Directory
  <2>2. bundle # None => Directory(bundle)
    BY <2>1 DEF IInv, SoundInv, BundleInv, Sound
  <2>3. ASSUME NEW v \in Versions
        PROVE  /\ archive[v] # None => Directory(archive[v])
               /\ checksum[v] \notin {None, Torn} => Directory(checksum[v])
               /\ reported[v] # None => Directory(reported[v])
               /\ download[v] \notin {None, Torn} => Directory(download[v])
    BY <2>1 DEF IInv, SoundInv, ArchiveInv, DownloadInv, Sound,
                RestTyped, ShelfTyped, ChecksumTyped, Named
  <2>4. \A r \in Releasers : /\ Directory(job[r].files)
                             /\ job[r].version \in Versions \cup {None}
                             /\ job[r].key \in Keys \cup {None}
    BY <2>1 DEF IInv, SoundInv, ProcInv, Holds, Sound, RestTyped, JobTyped
  <2>5. active # None => active \in [version : Versions, payloads : [Payloads -> Nat]]
    BY DEF IInv, InstalledWasSigned, RestTyped, SignedTyped
  <2>6. QED
    BY <2>2, <2>3, <2>4, <2>5 DEF TypeOK, IInv, SoundInv, TablesInv, RestTyped, ShelfTyped,
                                  ClientTyped, SignedTyped, CountsTyped
<1>3. QED
  BY InitTyped, Invariance, <1>1, <1>2, PTL DEF Spec

\* Wherever the archive has been, what a client installs is one release the
\* trusted key has signed, under its version and with its payloads.
THEOREM OnlySignedIsInstalled == Spec => []InstalledWasSigned
<1>1. IInv => InstalledWasSigned
  BY DEF IInv
<1>2. QED
  BY Invariance, <1>1, PTL

\* A sign command nobody disturbed leaves a bundle that verifies with its key.
THEOREM ReportedSignatureVerifies == Spec => []SignedVerifies
<1>1. IInv => SignedVerifies
  BY DEF IInv, FreshInv, SignedVerifies
<1>2. QED
  BY Invariance, <1>1, PTL

\* An archive reported by a command nobody disturbed stays as it was reported until
\* somebody removes it or a power loss takes the directory made for it.
THEOREM ArchiveStays == Spec => []ReportedArchiveStays
<1>1. IInv => ReportedArchiveStays
  BY DEF IInv, ReportInv, Stays, Owed, Good, ReportedArchiveStays
<1>2. QED
  BY Invariance, <1>1, PTL

\* The update check offers the newest release of any answer that the client can
\* use, and nothing only when there is none.
THEOREM NewestIsOffered == Spec => []OfferIsNewest
<1>1. Spec => []OfferInv
  <2>1. IInv => TablesInv
    BY DEF IInv, SoundInv
  <2>2. QED
    BY OfferInit, OfferStep, Invariance, <2>1, PTL DEF Spec
<1>2. QED
  BY <1>1, OfferedIsNewest, PTL
=============================================================================
