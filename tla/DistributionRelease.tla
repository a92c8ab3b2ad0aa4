------------------------ MODULE DistributionRelease ------------------------
(* Releasing a signature distribution and taking it over:                      *)
(* internal/signaturefactory/distribution_release.go, distribution_archive.go, *)
(* distribution_update.go, with the manifest and its verification, and the     *)
(* commands of cmd/aaa/signatures_bundle*.go and signatures_update.go.         *)
(*                                                                             *)
(* Releasers build a bundle from the generated databases, sign it and pack it, *)
(* each in a command of its own that takes no lock and meets the others in one *)
(* bundle directory and under one archive name per version. A client looks for *)
(* a release, downloads its archive and installs it, one command after another.*)
(*                                                                             *)
(* A content stands for its digest, and an archive for its four files: packing *)
(* is deterministic. The payloads lie in directories that are never fsynced,   *)
(* and a manifest is only fsynced when it is signed. A manifest is written in  *)
(* one step: a reader that meets half of it refuses, as it does without one.   *)
EXTENDS Naturals, FiniteSets, Sequences, SequencesExt

CONSTANTS
  Releasers,    \* build, sign and archive commands that may be under way
  Keys,         \* signing keys
  Trusted,      \* the key archive, verify and install commands are given
  Versions,     \* release versions
  Feeds,        \* answers of the releases API
  Torn,         \* a file cut short
  None,         \* no file, no directory, no value
  MaxStarts,    \* bound on releaser commands
  MaxExports,   \* bound on changes of a generated database
  MaxMishaps    \* bound on removals of the bundle or an archive, power losses,
                \* killed commands and failing calls, taken together

Payloads == {"aaa/bootblocks.json", "clamav/aaa.hsb"}
Files == Payloads \cup {"manifest.json", "manifest.sig"}
ArchivePaths == <<"aaa/bootblocks.json", "clamav/aaa.hsb", "manifest.json", "manifest.sig">>

Manifests == [version : Versions, signer : Keys \cup {None}, sums : [Payloads -> Nat]]
Signatures == [key : Keys, of : Manifests]
Contents == Nat \cup Manifests \cup Signatures \cup {None, Torn}

ASSUME ValuesAssumption == /\ Versions \subseteq Nat /\ Trusted \in Keys
                           /\ None # Torn /\ {None, Torn} \cap (Keys \cup Nat) = {}
ASSUME MarksAssumption == /\ {None, Torn} \cap Manifests = {}
                          /\ None \notin Signatures /\ None \notin [Files -> Contents]
ASSUME FeedsAssumption ==
  \A feed \in Feeds : /\ feed \in Seq(Range(feed))
                      /\ \A i \in DOMAIN feed : feed[i].version \in Versions \cup {None}
ASSUME BoundsAssumption == {MaxStarts, MaxExports, MaxMishaps} \subseteq Nat

VARIABLES
  generated,   \* the databases the store exports, [Payloads -> Nat]
  bundle,      \* the bundle directory, [Files -> content or None], or None
  archive,     \* per version: the archive under its name, or None
  checksum,    \* per version: the content its checksum file names, None or Torn
  pc, job,     \* per releaser: its next step and what it holds
  alone,       \* per releaser: nobody else has touched the bundle or the archives
  client,      \* the client's next step and what it holds
  download,    \* per version: the client's archive file, None or Torn
  active,      \* the installed release, [version, payloads], or None
  signed,      \* releases the trusted key has signed
  fresh,       \* the key of a signature that must verify now, or None
  anchored,    \* the archives' directory outlives any power loss
  unsynced,    \* versions whose archive was renamed in and not fsynced there
  reported,    \* per version: the archive a command reported, or None
  summed,      \* versions whose checksum file was reported with the archive and
               \* has not been hit by a power loss since
  taken,       \* versions whose archive a power loss took with the directory
  starts, mishaps

shelf == <<anchored, unsynced>>
reports == <<reported, summed, taken>>
releases == <<archive, checksum, shelf, reports>>
procs == <<pc, job, alone>>
consumer == <<client, download, active>>
bounds == <<starts, mishaps>>
vars == <<generated, bundle, releases, procs, consumer, signed, fresh, bounds>>

NoFiles == [f \in Files |-> None]
NoJob == [version |-> None, key |-> None, files |-> NoFiles]
Idle == [pc |-> "idle", version |-> None, feed |-> <<>>, expected |-> None]

Init == /\ generated = [p \in Payloads |-> 0]
        /\ bundle = None
        /\ archive = [v \in Versions |-> None]
        /\ checksum = [v \in Versions |-> None]
        /\ anchored = FALSE /\ unsynced = {}
        /\ reported = [v \in Versions |-> None] /\ summed = {} /\ taken = {}
        /\ pc = [r \in Releasers |-> "idle"]
        /\ job = [r \in Releasers |-> NoJob]
        /\ alone = [r \in Releasers |-> FALSE]
        /\ client = Idle /\ download = [v \in Versions |-> None] /\ active = None
        /\ signed = {} /\ fresh = None
        /\ starts = 0 /\ mishaps = 0

-----------------------------------------------------------------------------
\* Plausible bugs.
PayloadExists(files, p) == files[p] # None     \* a payload is not hashed
StampUnsigned(m, k) == IF m.signer = None THEN [m EXCEPT !.signer = k] ELSE m
Overwrites(v) == TRUE                          \* an existing archive is replaced
FirstUsable(best, rel) == IF best = None THEN rel.version ELSE best
-----------------------------------------------------------------------------
\* A manifest names a version, its signer and the digest of each payload.
Manifest(version, signer, files) ==
  [version |-> version, signer |-> signer, sums |-> [p \in Payloads |-> files[p]]]
Has(f) == bundle # None /\ bundle[f] # None
Readable(files) == files # None /\ files["manifest.json"] \notin {None, Torn}

\* verifyDistributionPayload
PayloadMatches(files, p) == files[p] = files["manifest.json"].sums[p]

\* VerifyDistributionManifestSignature and VerifyDistributionBundle.
Signature(m, k) == [key |-> k, of |-> m]
Verifies(files, k) ==
  /\ Readable(files)
  /\ files["manifest.json"].signer = k
  /\ files["manifest.sig"] = Signature(files["manifest.json"], k)
  /\ \A p \in Payloads : PayloadMatches(files, p)

\* SignDistributionBundle: the manifest is signed with the key's own identity.
Stamp(m, k) == [m EXCEPT !.signer = k]

\* ValidateDistributionReleaseVersionAgreement
Agrees(v, files) == files["manifest.json"].version = v

\* The name an archive or a download is about to take must be free.
NameIsFree(v) == archive[v] = None

\* One release of the API's answer: a tag that is no version shows as None, an
\* asset with a missing name or an unsafe URL as "none" or "unsafe".
Usable(rel, current) ==
  /\ ~rel.draft /\ rel.version # None
  /\ current # None => rel.version > current.version
  /\ rel.archive = "url" /\ rel.checksum # "unsafe"
Better(best, rel) == IF best = None \/ rel.version > best THEN rel.version ELSE best
DiscoverDistributionRelease(feed, current) ==
  LET best[n \in 0..Len(feed)] ==  \* of the first n releases of the answer
        IF n = 0 THEN None
        ELSE IF Usable(feed[n], current) THEN Better(best[n - 1], feed[n]) ELSE best[n - 1]
  IN best[Len(feed)]

-----------------------------------------------------------------------------
Mishap == mishaps < MaxMishaps /\ mishaps' = mishaps + 1
Go(r, from, to) == pc[r] = from /\ pc' = [pc EXCEPT ![r] = to]
Stop(R) == /\ pc' = [r \in Releasers |-> IF r \in R THEN "idle" ELSE pc[r]]
           /\ job' = [r \in Releasers |-> IF r \in R THEN NoJob ELSE job[r]]
           /\ alone' = [r \in Releasers |-> r \notin R /\ alone[r]]

\* A command starts: it and the ones under way are no longer alone.
Start(r, first, version, key) ==
  /\ starts < MaxStarts /\ starts' = starts + 1
  /\ Go(r, "idle", first)
  /\ job' = [job EXCEPT ![r] = [NoJob EXCEPT !.version = version, !.key = key]]
  /\ alone' = [q \in Releasers |-> q = r /\ \A s \in Releasers : pc[s] = "idle"]
  /\ UNCHANGED <<generated, releases, consumer, signed, mishaps>>

-----------------------------------------------------------------------------
(* BuildDistributionBundle: a new directory, the payloads copied and hashed    *)
(* one after the other, then the manifest. A failure removes the directory,    *)
(* whoever filled it meanwhile.                                                *)
Build(r, v) == /\ bundle = None /\ bundle' = NoFiles
               /\ Start(r, "copy boot", v, None)
               /\ UNCHANGED fresh

\* copyDistributionFile creates the directories it needs, never a file that exists.
CopyPayload(r, p, from, to) ==
  /\ Go(r, from, to)
  /\ ~Has(p)
  /\ bundle' = [IF bundle = None THEN NoFiles ELSE bundle EXCEPT ![p] = generated[p]]
  /\ UNCHANGED <<generated, releases, job, alone, consumer, signed, fresh, bounds>>

\* distributionFileIdentity hashes what lies there now.
Identify(r, p, from, to) ==
  /\ Go(r, from, to)
  /\ Has(p)
  /\ job' = [job EXCEPT ![r].files[p] = bundle[p]]
  /\ UNCHANGED <<generated, bundle, releases, alone, consumer, signed, fresh, bounds>>

WriteManifest(r) ==
  /\ pc[r] = "manifest" /\ bundle # None
  /\ bundle' = [bundle EXCEPT !["manifest.json"] = Manifest(job[r].version, None, job[r].files)]
  /\ Stop({r})
  /\ UNCHANGED <<generated, releases, consumer, signed, fresh, bounds>>

Blocked(r) == \/ pc[r] = "copy boot" /\ Has("aaa/bootblocks.json")
              \/ pc[r] = "copy hsb" /\ Has("clamav/aaa.hsb")
              \/ pc[r] = "hash boot" /\ ~Has("aaa/bootblocks.json")
              \/ pc[r] = "hash hsb" /\ ~Has("clamav/aaa.hsb")
              \/ pc[r] = "manifest" /\ bundle = None
Building(r) == pc[r] \in {"copy boot", "hash boot", "copy hsb", "hash hsb", "manifest"}
AbandonBuild(r) ==
  /\ Building(r)
  /\ \/ Blocked(r) /\ UNCHANGED mishaps
     \/ Mishap
  /\ bundle' = None /\ fresh' = None
  /\ Stop({r})
  /\ UNCHANGED <<generated, releases, consumer, signed, starts>>

-----------------------------------------------------------------------------
(* SignDistributionBundle: whatever manifest and payloads lie there and agree  *)
(* are signed; two files are replaced, one after the other.                    *)
Sign(r, k) == /\ bundle # None /\ UNCHANGED bundle
              /\ fresh' = None
              /\ Start(r, "read", None, k)

ReadManifest(r) ==
  /\ Go(r, "read", "check")
  /\ Readable(bundle)
  /\ job' = [job EXCEPT ![r].files["manifest.json"] = bundle["manifest.json"]]
  /\ UNCHANGED <<generated, bundle, releases, alone, consumer, signed, fresh, bounds>>

\* The payloads are compared with the manifest that was read.
Matches(r) == /\ bundle # None
              /\ LET files == [bundle EXCEPT !["manifest.json"] = job[r].files["manifest.json"]]
                 IN \A p \in Payloads : PayloadMatches(files, p)
CheckPayloads(r) ==
  /\ Go(r, "check", "stamp")
  /\ Matches(r)
  /\ job' = [job EXCEPT ![r].files["manifest.json"] = Stamp(@, job[r].key)]
  /\ UNCHANGED <<generated, bundle, releases, alone, consumer, signed, fresh, bounds>>

\* writeDistributionFileAtomic, for the manifest and then for the signature.
PutManifest(r) ==
  /\ Go(r, "stamp", "sign") /\ bundle # None
  /\ bundle' = [bundle EXCEPT !["manifest.json"] = job[r].files["manifest.json"]]
  /\ UNCHANGED <<generated, releases, job, alone, consumer, signed, fresh, bounds>>

PutSignature(r) ==
  /\ Go(r, "sign", "signed") /\ bundle # None
  /\ LET m == job[r].files["manifest.json"] IN
       /\ bundle' = [bundle EXCEPT !["manifest.sig"] = Signature(m, job[r].key)]
       /\ signed' = IF job[r].key = Trusted
                    THEN signed \cup {[version |-> m.version, payloads |-> m.sums]}
                    ELSE signed
  /\ UNCHANGED <<generated, releases, job, alone, consumer, fresh, bounds>>

ReportSigned(r) ==
  /\ pc[r] = "signed"
  /\ fresh' = IF alone[r] THEN job[r].key ELSE fresh
  /\ Stop({r})
  /\ UNCHANGED <<generated, bundle, releases, consumer, signed, bounds>>

-----------------------------------------------------------------------------
(* BuildDistributionReleaseArchive verifies the bundle first and reads it      *)
(* again, file by file, when it packs it. Verification reads several files as  *)
(* well; it is one step here because nothing later relies on what it read.     *)
Archive(r, v) ==
  /\ Verifies(bundle, Trusted) /\ Agrees(v, bundle)
  /\ Start(r, "look", v, None)
  /\ UNCHANGED <<bundle, fresh>>

Look(r) == /\ Go(r, "look", Head(ArchivePaths)) /\ NameIsFree(job[r].version)
           /\ UNCHANGED <<generated, bundle, releases, job, alone, consumer, signed, fresh, bounds>>

AfterEntry(f) == LET i == CHOOSE n \in DOMAIN ArchivePaths : ArchivePaths[n] = f
                 IN IF i = Len(ArchivePaths) THEN "publish" ELSE ArchivePaths[i + 1]

PackEntry(r) ==
  /\ pc[r] \in Files
  /\ Has(pc[r])
  /\ Go(r, pc[r], AfterEntry(pc[r]))
  /\ job' = [job EXCEPT ![r].files[pc[r]] = bundle[pc[r]]]
  /\ UNCHANGED <<generated, bundle, releases, alone, consumer, signed, fresh, bounds>>

\* The rename replaces whatever took the name since it was looked at. A power loss
\* may undo it until the directory is fsynced.
Publish(r) ==
  /\ Go(r, "publish", "digest")
  /\ archive' = [archive EXCEPT ![job[r].version] = job[r].files]
  /\ unsynced' = unsynced \cup {job[r].version}
  /\ UNCHANGED <<generated, bundle, checksum, anchored, reports, job, alone, consumer, signed, fresh, bounds>>

\* The directory is fsynced. The digest to report is that of the file now under
\* the name.
Digest(r) ==
  /\ Go(r, "digest", "checksum")
  /\ archive[job[r].version] # None
  /\ job' = [job EXCEPT ![r].files = archive[job[r].version]]
  /\ unsynced' = {}
  /\ UNCHANGED <<generated, bundle, archive, checksum, anchored, reports, alone, consumer, signed, fresh, bounds>>

\* signatureBundleArchiveCommand reports the archive, with its checksum or without.
Reports(r, sums) ==
  LET v == job[r].version IN
    IF alone[r] THEN /\ reported' = [reported EXCEPT ![v] = job[r].files]
                     /\ summed' = (summed \ {v}) \cup sums
                     /\ taken' = taken \ {v}
                ELSE UNCHANGED reports

ReportArchive(r) ==  \* no --checksum
  /\ pc[r] = "checksum"
  /\ Reports(r, {})
  /\ Stop({r})
  /\ UNCHANGED <<generated, bundle, archive, checksum, shelf, consumer, signed, fresh, bounds>>

\* The file is hashed again for its checksum.
WriteChecksum(r) ==
  /\ pc[r] = "checksum"
  /\ LET v == job[r].version IN
       /\ archive[v] = job[r].files
       /\ checksum' = [checksum EXCEPT ![v] = job[r].files]
       /\ Reports(r, {v})
  /\ Stop({r})
  /\ UNCHANGED <<generated, bundle, archive, shelf, consumer, signed, fresh, bounds>>

\* Without its checksum file the archive is removed, whoever published it.
AbandonChecksum(r) ==
  /\ pc[r] = "checksum"
  /\ LET v == job[r].version IN
       /\ \/ archive[v] # job[r].files /\ UNCHANGED <<checksum, mishaps>>
          \/ /\ Mishap
             /\ \E left \in {checksum[v], Torn} : checksum' = [checksum EXCEPT ![v] = left]
       /\ archive' = [archive EXCEPT ![v] = None]
  /\ Stop({r})
  /\ UNCHANGED <<generated, bundle, shelf, reports, consumer, signed, fresh, starts>>

-----------------------------------------------------------------------------
\* A sign or archive command finds something amiss and ends with an error.
Amiss(r) ==
  \/ pc[r] = "read" /\ ~Readable(bundle)
  \/ pc[r] = "check" /\ ~Matches(r)
  \/ pc[r] \in {"stamp", "sign"} /\ bundle = None
  \/ pc[r] = "look" /\ ~NameIsFree(job[r].version)
  \/ pc[r] \in Files /\ ~Has(pc[r])
  \/ pc[r] = "digest" /\ archive[job[r].version] = None
Refuse(r) == /\ Amiss(r) /\ Stop({r})
             /\ UNCHANGED <<generated, bundle, releases, consumer, signed, fresh, bounds>>

\* A call of a sign or archive command fails, at the latest when it syncs.
Fail(r) == /\ pc[r] # "idle" /\ ~Building(r) /\ pc[r] # "checksum"
           /\ Mishap
           /\ Stop({r})
           /\ UNCHANGED <<generated, bundle, releases, consumer, signed, fresh, starts>>

\* A killed command leaves what it has written: of a manifest that is not yet
\* signed, or of a checksum file, perhaps a part.
Kill(r) == /\ pc[r] # "idle"
           /\ Mishap
           /\ \/ UNCHANGED <<bundle, checksum>>
              \/ /\ pc[r] = "manifest" /\ bundle # None /\ UNCHANGED checksum
                 /\ bundle' = [bundle EXCEPT !["manifest.json"] = Torn]
              \/ /\ pc[r] = "checksum" /\ UNCHANGED bundle
                 /\ \E left \in {Torn, job[r].files} :
                      checksum' = [checksum EXCEPT ![job[r].version] = left]
           /\ Stop({r})
           /\ UNCHANGED <<generated, archive, shelf, reports, consumer, signed, fresh, starts>>

-----------------------------------------------------------------------------
\* The exports of the store and its operator's hand.
Export(p) == /\ generated[p] < MaxExports
             /\ generated' = [generated EXCEPT ![p] = @ + 1]
             /\ UNCHANGED <<bundle, releases, procs, consumer, signed, fresh, bounds>>

Disturbed == alone' = [r \in Releasers |-> FALSE]
RemoveBundle == /\ bundle # None /\ bundle' = None
                /\ Mishap
                /\ fresh' = None /\ Disturbed
                /\ UNCHANGED <<generated, releases, pc, job, consumer, signed, starts>>
RemoveArchive(v) == /\ archive[v] # None /\ archive' = [archive EXCEPT ![v] = None]
                    /\ checksum' = [checksum EXCEPT ![v] = None]
                    /\ reported' = [reported EXCEPT ![v] = None]
                    /\ summed' = summed \ {v} /\ taken' = taken \ {v}
                    /\ Mishap
                    /\ Disturbed
                    /\ UNCHANGED <<generated, bundle, shelf, pc, job, consumer, signed, fresh, starts>>

\* BuildDistributionReleaseArchive makes the archives' directory and never fsyncs
\* the one above: a power loss takes it with all that is in it, or it is there to
\* stay. A checksum file is never fsynced.
ShelfVanishes ==
  /\ ~anchored /\ anchored' = FALSE /\ unsynced' = {}
  /\ archive' = [v \in Versions |-> None] /\ checksum' = [v \in Versions |-> None]
  /\ taken' = Versions
  /\ UNCHANGED <<reported, summed>>
ShelfSurvives ==
  /\ anchored' = TRUE /\ unsynced' = {}
  /\ \E undone \in SUBSET unsynced :
       archive' = [v \in Versions |-> IF v \in undone THEN None ELSE archive[v]]
  /\ \E gone, torn \in SUBSET {v \in Versions : checksum[v] # None} :
       /\ checksum' = [v \in Versions |-> IF v \in gone THEN None
                                         ELSE IF v \in torn THEN Torn ELSE checksum[v]]
       /\ summed' = summed \ (gone \cup torn)
  /\ UNCHANGED <<reported, taken>>

\* The payloads lose their names and an unsigned manifest its bytes, as they may.
PowerLoss ==
  /\ Mishap
  /\ \/ bundle' = None
     \/ /\ bundle # None
        /\ \E gone \in SUBSET Payloads, m \in {bundle["manifest.json"], None, Torn} :
             /\ m # bundle["manifest.json"] =>
                  Readable(bundle) /\ bundle["manifest.json"].signer = None
             /\ bundle' = [f \in Files |-> IF f \in gone THEN None
                                           ELSE IF f = "manifest.json" THEN m ELSE bundle[f]]
  /\ ShelfVanishes \/ ShelfSurvives
  /\ fresh' = None
  /\ Stop(Releasers)
  /\ UNCHANGED <<generated, consumer, signed, starts>>

-----------------------------------------------------------------------------
\* signatures update check: one answer of the API, read with the active state.
Check(feed) ==
  /\ client.pc = "idle"
  /\ client' = [Idle EXCEPT !.pc = "offered", !.feed = feed,
                            !.version = DiscoverDistributionRelease(feed, active)]
  /\ UNCHANGED <<generated, bundle, releases, procs, download, active, signed, fresh, bounds>>

\* signatures update download, of the offered or any other version, with or
\* without the digest of the checksum file. A link to nothing changes nothing.
Download(v, expected) ==
  /\ client.pc \in {"idle", "offered"}
  /\ download[v] = None /\ archive[v] # None
  /\ expected \in {None, checksum[v]} /\ expected # Torn
  /\ client' = [Idle EXCEPT !.pc = "fetch", !.version = v, !.expected = expected]
  /\ UNCHANGED <<generated, bundle, releases, procs, download, active, signed, fresh, bounds>>

\* The server answers with any archive it has, whole or cut short, or not at all.
Bodies == {archive[v] : v \in {w \in Versions : archive[w] # None}} \cup {Torn}
Fetch ==
  /\ client.pc = "fetch" /\ client' = Idle
  /\ \/ UNCHANGED download
     \/ \E body \in Bodies : /\ client.expected \in {None, body}
                             /\ download' = [download EXCEPT ![client.version] = body]
  /\ UNCHANGED <<generated, bundle, releases, procs, active, signed, fresh, bounds>>

\* ExtractDistributionReleaseArchive: a whole archive of exactly the four files,
\* under the name of the version its manifest has.
Extracts(v, files) == files \notin {None, Torn} /\ Readable(files) /\ Agrees(v, files)

(* signatures update install: the archive is extracted into a directory of its *)
(* own, where the bundle is verified; nothing else writes there.               *)
Install(v) ==
  /\ client.pc = "idle"
  /\ LET files == download[v] IN
       /\ Extracts(v, files) /\ Verifies(files, Trusted)
       /\ active # None => v > active.version
       /\ active' = [version |-> v, payloads |-> [p \in Payloads |-> files[p]]]
  /\ UNCHANGED <<generated, bundle, releases, procs, client, download, signed, fresh, bounds>>

Discard(v) == /\ client.pc = "idle" /\ download[v] # None
              /\ download' = [download EXCEPT ![v] = None]
              /\ UNCHANGED <<generated, bundle, releases, procs, client, active, signed, fresh, bounds>>

Step(r) ==
  \/ CopyPayload(r, "aaa/bootblocks.json", "copy boot", "hash boot")
  \/ Identify(r, "aaa/bootblocks.json", "hash boot", "copy hsb")
  \/ CopyPayload(r, "clamav/aaa.hsb", "copy hsb", "hash hsb")
  \/ Identify(r, "clamav/aaa.hsb", "hash hsb", "manifest")
  \/ WriteManifest(r) \/ AbandonBuild(r)
  \/ ReadManifest(r) \/ CheckPayloads(r) \/ PutManifest(r) \/ PutSignature(r) \/ ReportSigned(r)
  \/ Look(r) \/ PackEntry(r) \/ Publish(r) \/ Digest(r)
  \/ ReportArchive(r) \/ WriteChecksum(r) \/ AbandonChecksum(r)
  \/ Refuse(r) \/ Fail(r) \/ Kill(r)

Update ==
  \/ \E feed \in Feeds : Check(feed)
  \/ \E v \in Versions : (\E e \in {None, checksum[v]} : Download(v, e)) \/ Install(v) \/ Discard(v)
  \/ Fetch

Next ==
  \/ \E r \in Releasers : \/ \E v \in Versions : Build(r, v) \/ Archive(r, v)
                          \/ \E k \in Keys : Sign(r, k)
                          \/ Step(r)
  \/ \E p \in Payloads : Export(p)
  \/ RemoveBundle \/ \E v \in Versions : RemoveArchive(v)
  \/ PowerLoss
  \/ Update

Spec == Init /\ [][Next]_vars

-----------------------------------------------------------------------------
PCs == {"idle", "copy boot", "hash boot", "copy hsb", "hash hsb", "manifest", "read",
        "check", "stamp", "sign", "signed", "look", "publish", "digest", "checksum"} \cup Files
Directory(d) ==
  /\ DOMAIN d = Files
  /\ \A p \in Payloads : d[p] \in Nat \cup {None}
  /\ d["manifest.json"] \in Manifests \cup {None, Torn}
  /\ d["manifest.sig"] \in Signatures \cup {None}

\* Every variable has its type.
TypeOK ==
  /\ generated \in [Payloads -> Nat]
  /\ bundle # None => Directory(bundle)
  /\ \A v \in Versions : /\ archive[v] # None => Directory(archive[v])
                         /\ checksum[v] \notin {None, Torn} => Directory(checksum[v])
                         /\ reported[v] # None => Directory(reported[v])
                         /\ download[v] \notin {None, Torn} => Directory(download[v])
  /\ pc \in [Releasers -> PCs] /\ alone \in [Releasers -> BOOLEAN]
  /\ \A r \in Releasers : /\ Directory(job[r].files)
                          /\ job[r].version \in Versions \cup {None}
                          /\ job[r].key \in Keys \cup {None}
  /\ client.pc \in {"idle", "offered", "fetch"}
  /\ client.version \in Versions \cup {None} /\ client.feed \in Feeds \cup {<<>>}
  /\ anchored \in BOOLEAN
  /\ unsynced \subseteq Versions /\ summed \subseteq Versions /\ taken \subseteq Versions
  /\ signed \subseteq [version : Versions, payloads : [Payloads -> Nat]]
  /\ active # None => active \in [version : Versions, payloads : [Payloads -> Nat]]
  /\ fresh \in Keys \cup {None}
  /\ starts \in 0..MaxStarts /\ mishaps \in 0..MaxMishaps

(* The archive's location on the way to a client, the server, the client's own *)
(* disk and the bundle directory it was packed from, are all out of the        *)
(* trusted key's hands. What a client installs is nevertheless one release the *)
(* key has signed, under its own version and with both payloads as signed      *)
(* (distribution_archive.go, distribution_bundle.go:21, signatures_update.go). *)
InstalledWasSigned == active # None => active \in signed

(* A sign command that reports success while no other command touched the      *)
(* bundle leaves one that verifies with its key, whatever a killed, failed or  *)
(* competing command left there before; it does so until the bundle is signed, *)
(* removed or hit by a power loss (distribution_release.go:95).                *)
SignedVerifies == fresh # None => Verifies(bundle, fresh)

(* An archive reported by a command that was alone stays under its name and is *)
(* a signed release of that version until somebody removes it: later commands, *)
(* killed and failing ones among them, refuse or fail without harming it, and  *)
(* a power loss spares it, except one that takes the directory made for it,    *)
(* whose own entry the command never fsyncs. A checksum file reported with it  *)
(* names it until a power loss hits that file, which is never fsynced          *)
(* (distribution_archive.go:46, signatures_bundle_archive.go:36).              *)
ReportedArchiveStays ==
  \A v \in Versions : reported[v] # None /\ v \notin taken =>
    /\ archive[v] = reported[v]
    /\ v \in summed => checksum[v] = reported[v]
    /\ Verifies(archive[v], Trusted) /\ Agrees(v, archive[v])

(* The update check offers the newest release a client can use, and only one   *)
(* newer than the active one; it offers nothing only when there is none        *)
(* (distribution_update.go:85).                                                *)
OfferIsNewest ==
  client.pc = "offered" =>
    LET usable == {client.feed[i].version : i \in
                     {n \in DOMAIN client.feed : Usable(client.feed[n], active)}}
    IN IF client.version = None THEN usable = {}
       ELSE client.version \in usable /\ \A w \in usable : w <= client.version
=============================================================================
