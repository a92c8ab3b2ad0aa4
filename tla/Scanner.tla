------------------------------ MODULE Scanner ------------------------------
(* Scanning one file: internal/scanner/scanner.go, with the unpackers of       *)
(* internal/archive and the disks of internal/adf (module DiskWalk).           *)
(*                                                                             *)
(* A file is a content; an archive's members, a packed disk's image and a      *)
(* preservation image's sectors are contents again. Nothing makes this a tree: *)
(* archives that hold themselves exist. scanMemberPayload's recursion is here  *)
(* a stack of the archives under way. Formats are what DetectFormat says of a  *)
(* content; a content's size and an archive's expanded size are in the unit    *)
(* the limits are in. The file does not change while it is scanned: the daemon *)
(* scans private copies.                                                       *)
EXTENDS DiskWalk, FiniteSetsExt, SequencesExt

CONSTANTS
  Contents,         \* names of contents
  Submitted,        \* the content of the file to scan
  Cases,            \* files to scan: [content : [Contents -> content], disk : image]
  MaxArchiveDepth,  \* how deep archives are unpacked
  MaxExpandedSize,  \* the bytes one scan may unpack
  MaxMembers        \* the entries one scan may unpack

Archives == {"zip", "lha", "lzx"}
Packed == {"adz", "dms"}
Preserved == {"ipf", "fdi"}
Tools == {"lzx", "dms"}   \* unpacked by external programs, which may fail

ASSUME SubmittedAssumption == Submitted \in Contents
\* Contents and disks are lists and numbers; an ADZ is one compressed image.
ASSUME CasesAssumption ==
  \A c \in Cases :
    /\ \A x \in Contents : /\ c.content[x].members \in Seq(Contents)
                           /\ {c.content[x].size, c.content[x].directories} \subseteq Nat
                           /\ c.content[x].format = "adz" => c.content[x].members # <<>>
    /\ \A b \in Blocks : c.disk.block[b].slots \in Seq(Nat) /\ c.disk.block[b].next \in Nat
ASSUME LimitsAssumption == {MaxArchiveDepth, MaxExpandedSize, MaxMembers} \subseteq Nat \ {0}

VARIABLES
  content,   \* what each content is
  pc,        \* the next step
  at,        \* what is being scanned, [path, content]: the path holds the number
             \* of a member in each archive around it
  stack,     \* the archives under way, [path, content, next], innermost first
  results,   \* the results so far, by path
  decoded,   \* what a decoder has just returned, [expanded, entries]
  budget     \* archiveBudget: what the scan has unpacked

scan == <<pc, at, stack, results, decoded, budget>>
scanVars == <<content, disk, walk, scan>>

Nothing == [expanded |-> 0, entries |-> 0]
PCs == {"open", "payload", "reserve", "disk", "walk", "next", "done", "failed"}

ScanInit == /\ \E c \in Cases : content = c.content /\ disk = c.disk
            /\ WalkInit
            /\ pc = "open" /\ at = [path |-> <<>>, content |-> Submitted]
            /\ stack = <<>> /\ results = <<>>
            /\ decoded = Nothing /\ budget = Nothing

-----------------------------------------------------------------------------
\* Plausible bugs.
WholeBudget == [expanded |-> MaxExpandedSize, entries |-> MaxMembers]  \* limits anew per archive
FirstInfected(p) == Append(p, 1) \in DOMAIN results /\ results[Append(p, 1)].verdict = "infected"
-----------------------------------------------------------------------------
Format(c) == content[c].format
Members(c) == content[c].members
Entries(c) == IF Format(c) \in Packed THEN 1 ELSE Len(Members(c))
Expanded(c) == MapThenSumSet(LAMBDA i : content[Members(c)[i]].size, DOMAIN Members(c))

\* remainingArchiveBudget; a scan without a rest of either kind unpacks nothing.
Remaining == [expanded |-> MaxExpandedSize - budget.expanded,
              entries |-> MaxMembers - budget.entries]
Left == Remaining.expanded > 0 /\ Remaining.entries > 0

(* What the decoders accept within a limit. An archive's directories count     *)
(* against the entry limit, though not against the budget; only a ZIP may hold *)
(* no files at all, and a packed disk is one entry whatever the limit.         *)
Within(c, limit) == /\ Entries(c) + content[c].directories <= limit.entries
                    /\ Expanded(c) <= limit.expanded
DecodeZIP(c, limit) == Within(c, limit)
DecodeLHA(c, limit) == Within(c, limit) /\ Members(c) # <<>>
DecodeLZX(c, limit) == Within(c, limit) /\ Members(c) # <<>>
DecodeADZ(c, limit) == Expanded(c) <= limit.expanded
DecodeDMS(c, limit) == Expanded(c) <= limit.expanded /\ Members(c) # <<>>
Decodes(c, limit) ==
  /\ ~content[c].broken
  /\ CASE Format(c) = "zip" -> DecodeZIP(c, limit)
       [] Format(c) = "lha" -> DecodeLHA(c, limit)
       [] Format(c) = "lzx" -> DecodeLZX(c, limit)
       [] Format(c) = "adz" -> DecodeADZ(c, limit)
       [] Format(c) = "dms" -> DecodeDMS(c, limit)

\* reserveArchiveBudget
Fits == /\ decoded.expanded <= MaxExpandedSize - budget.expanded
        /\ decoded.entries <= MaxMembers - budget.entries

\* propagateChildVerdict and propagateMemberVerdict: is any child infected?
AnyInfected(p) == \E i \in 1..Len(Members(results[p].content)) :
                    results[Append(p, i)].verdict = "infected"

TooNested(path) == Len(path) >= MaxArchiveDepth

NewResult(c) == [content |-> c, verdict |-> "unknown", unpacked |-> FALSE, failed |-> FALSE]
SetResult(path, r) == results' = [p \in DOMAIN results \cup {path} |->
                                    IF p = path THEN r ELSE results[p]]
Go(from, to) == pc = from /\ pc' = to

\* An error ends the scan of the submitted file, or is noted at a member.
Fail == IF at.path = <<>> THEN pc' = "failed" /\ UNCHANGED results
        ELSE pc' = "next" /\ SetResult(at.path, [results[at.path] EXCEPT !.failed = TRUE])

-----------------------------------------------------------------------------
\* ScanFile: the file is hashed and its format detected.
OpenFile == /\ Go("open", "payload")
            /\ SetResult(<<>>, NewResult(Submitted))
            /\ UNCHANGED <<content, disk, walk, at, stack, decoded, budget>>

\* Preservation images are only looked into when they are submitted themselves.
Opaque == \/ Format(at.content) \notin Archives \cup Packed \cup Preserved \cup {"adf"}
          \/ Format(at.content) \in Preserved /\ at.path # <<>>
ScanOpaque == /\ Go("payload", "next") /\ Opaque
              /\ UNCHANGED <<content, disk, walk, at, stack, results, decoded, budget>>

ScanDisk == /\ Go("payload", "disk") /\ Format(at.content) = "adf"
            /\ UNCHANGED <<content, disk, walk, at, stack, results, decoded, budget>>

(* The answer of an external program, which may also be missing or fail: the   *)
(* sectors of a disk, declared lossless, or none.                              *)
DecodeIPF(c) == ~content[c].broken
DecodeFDI(c) == ~content[c].broken
Derives(c) == \/ Format(c) = "ipf" /\ DecodeIPF(c)
              \/ Format(c) = "fdi" /\ DecodeFDI(c)
ScanPreserved ==
  /\ pc = "payload" /\ Format(at.content) \in Preserved /\ at.path = <<>>
  /\ \/ Fail /\ UNCHANGED at
     \/ /\ Derives(at.content) /\ UNCHANGED results
        /\ IF Members(at.content) = <<>> THEN pc' = "next" /\ UNCHANGED at
           ELSE pc' = "disk" /\ at' = [at EXCEPT !.content = Head(Members(@))]
  /\ UNCHANGED <<content, disk, walk, stack, decoded, budget>>

\* A decoder is given what is left of the budget as its limit.
Unpackable == /\ Format(at.content) \in Archives => ~TooNested(at.path)
              /\ Left /\ Decodes(at.content, Remaining)
Unpack == /\ Go("payload", "reserve")
          /\ Format(at.content) \in Archives \cup Packed /\ Unpackable
          /\ decoded' = [expanded |-> Expanded(at.content), entries |-> Entries(at.content)]
          /\ UNCHANGED <<content, disk, walk, at, stack, results, budget>>

FailToUnpack == /\ pc = "payload" /\ Format(at.content) \in Archives \cup Packed
                /\ ~Unpackable \/ Format(at.content) \in Tools
                /\ Fail
                /\ UNCHANGED <<content, disk, walk, at, stack, decoded, budget>>

\* The budget starts with what the submitted file holds; a packed disk that is
\* submitted is unpacked like any other, but nothing is unpacked after it.
Reserve ==
  /\ pc = "reserve" /\ decoded' = Nothing
  /\ \/ ~Fits /\ Fail /\ UNCHANGED <<at, stack, budget>>
     \/ /\ Fits
        /\ budget' = [expanded |-> budget.expanded + decoded.expanded,
                      entries |-> budget.entries + decoded.entries]
        /\ SetResult(at.path, [results[at.path] EXCEPT !.unpacked = TRUE])
        /\ IF Format(at.content) \in Packed
           THEN pc' = "disk" /\ at' = [at EXCEPT !.content = Head(Members(@))] /\ UNCHANGED stack
           ELSE /\ pc' = "next" /\ UNCHANGED at
                /\ stack' = <<[path |-> at.path, content |-> at.content, next |-> 1]>> \o stack
  /\ UNCHANGED <<content, disk, walk>>

\* adf.Analyze: an image must have the size of a disk.
IsDisk(c) == Format(c) = "adf"
\* applyBootblockDatabase: its boot block is looked up in the bundled database.
Matched(r, c) == [r EXCEPT !.verdict = IF content[c].malicious THEN "infected" ELSE @]

\* analyzeADFBytes: a DOS disk is walked, too.
AnalyzeDisk ==
  /\ pc = "disk"
  /\ IF ~IsDisk(at.content) THEN Fail /\ UNCHANGED <<disk, walk>>
     ELSE /\ SetResult(at.path, Matched(results[at.path], at.content))
          /\ IF content[at.content].dos THEN pc' = "walk" /\ AnalyzeFilesystem
             ELSE pc' = "next" /\ UNCHANGED <<disk, walk>>
  /\ UNCHANGED <<content, at, stack, decoded, budget>>

WalkDisk == /\ pc = "walk" /\ WalkStep /\ UNCHANGED <<content, scan>>

WalkEnds == /\ Go("walk", "next") /\ ~Walking
            /\ frames' = <<>> /\ file' = <<>> /\ visited' = {} /\ entries' = <<>> /\ warned' = FALSE
            /\ UNCHANGED <<content, disk, at, stack, results, decoded, budget>>

\* scanArchiveMembersDepth: one result per member, whatever became of the others.
Around == Head(stack)
NextMember ==
  /\ Go("next", "payload") /\ stack # <<>>
  /\ Around.next <= Len(Members(Around.content))
  /\ LET path == Append(Around.path, Around.next)
         c == Members(Around.content)[Around.next]
     IN /\ at' = [path |-> path, content |-> c]
        /\ SetResult(path, NewResult(c))
  /\ stack' = [stack EXCEPT ![1].next = @ + 1]
  /\ UNCHANGED <<content, disk, walk, decoded, budget>>

EndArchive ==
  /\ Go("next", "next") /\ stack # <<>>
  /\ Around.next > Len(Members(Around.content))
  /\ SetResult(Around.path, [results[Around.path] EXCEPT
       !.verdict = IF AnyInfected(Around.path) THEN "infected" ELSE @])
  /\ stack' = Tail(stack)
  /\ UNCHANGED <<content, disk, walk, at, decoded, budget>>

Finish == /\ Go("next", "done") /\ stack = <<>>
          /\ UNCHANGED <<content, disk, walk, at, stack, results, decoded, budget>>

ScanNext == \/ OpenFile \/ ScanOpaque \/ ScanDisk \/ ScanPreserved
            \/ Unpack \/ FailToUnpack \/ Reserve \/ AnalyzeDisk \/ WalkDisk \/ WalkEnds
            \/ NextMember \/ EndArchive \/ Finish

\* The scan is one sequential call; its external programs run under a timeout.
ScanSpec == ScanInit /\ [][ScanNext]_scanVars /\ WF_scanVars(ScanNext)

-----------------------------------------------------------------------------
(* Everything the result shows unpacked, and what a decoder holds besides, is  *)
(* within the limits of one scan, however archives nest, repeat or hold        *)
(* themselves; the budget charges each archive of the result once and nothing  *)
(* that failed (scanner.go:330, :342, :271).                                   *)
Unpacked == {p \in DOMAIN results : results[p].unpacked}
BudgetHolds ==
  /\ budget.expanded = MapThenSumSet(LAMBDA p : Expanded(results[p].content), Unpacked)
  /\ budget.entries = MapThenSumSet(LAMBDA p : Entries(results[p].content), Unpacked)
  /\ budget.expanded + decoded.expanded <= MaxExpandedSize
  /\ budget.entries + decoded.entries <= MaxMembers

(* The verdict of a finished scan, at every level, is "infected" exactly if a  *)
(* disk analysed below it has a malicious boot block; every member of every    *)
(* unpacked archive has its result; and an archive or packed disk that was not *)
(* scanned is marked, for one of the reasons the code has (scanner.go:222).    *)
DiskAt(p) == LET c == results[p].content IN
             IF Format(c) = "adf" THEN <<c>>
             ELSE IF results[p].unpacked /\ Format(c) \in Packed THEN Members(c)
             ELSE IF Format(c) \in Preserved /\ p = <<>> THEN Members(c) ELSE <<>>
Malicious(p) == DiskAt(p) # <<>> /\ Format(Head(DiskAt(p))) = "adf" /\ content[Head(DiskAt(p))].malicious
HasReason(p) ==
  LET c == results[p].content IN
  \/ TooNested(p) \/ content[c].broken \/ Format(c) \in Tools
  \/ Members(c) = <<>>
  \/ results[p].unpacked /\ Format(Head(DiskAt(p))) # "adf"
  \/ budget.expanded >= MaxExpandedSize \/ budget.entries >= MaxMembers
  \/ budget.expanded + Expanded(c) > MaxExpandedSize
  \/ budget.entries + Entries(c) + content[c].directories > MaxMembers
VerdictsAgree ==
  pc = "done" => \A p \in DOMAIN results :
    /\ results[p].verdict = "infected"
         <=> \E q \in DOMAIN results : IsPrefix(p, q) /\ Malicious(q)
    /\ results[p].unpacked /\ Format(results[p].content) \in Archives =>
         \A i \in 1..Len(Members(results[p].content)) : Append(p, i) \in DOMAIN results
    /\ Format(results[p].content) \in Archives \cup Packed => results[p].unpacked \/ results[p].failed
    /\ results[p].failed => HasReason(p)

(* A scan ends, with a result or an error, even of archives that hold          *)
(* themselves and of disks whose pointers run in circles.                      *)
ScanEnds == <>(pc \in {"done", "failed"})
=============================================================================
