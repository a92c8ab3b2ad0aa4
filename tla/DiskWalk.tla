----------------------------- MODULE DiskWalk -----------------------------
(* Listing the files of an Amiga disk image: internal/adf/filesystem.go and    *)
(* payload.go.                                                                 *)
(*                                                                             *)
(* Blocks point at each other as the image says: a directory has hash slots,   *)
(* each the head of a chain of entries, and a file has a chain of extension    *)
(* blocks. Nothing makes these pointers a tree. The walk is the recursion of   *)
(* walkDirectory with its stack made a variable, one step per block it looks   *)
(* at. What only words a result, such as names and the kinds of warnings, is   *)
(* left out; a block number 0 ends a chain, as in the format.                  *)
EXTENDS Integers, Sequences, FiniteSets

CONSTANTS
  Blocks,             \* the blocks of an image
  maxTraversalDepth   \* how deep directories are walked

ASSUME BlocksAssumption == Blocks \subseteq Nat \ {0}
ASSUME DepthAssumption == maxTraversalDepth \in Nat

VARIABLES
  disk,      \* the image, [root, block]
  frames,    \* the directories under way, innermost first
  file,      \* the file under way, [header, current, seen, got], or <<>>
  visited,   \* the directories found so far
  entries,   \* what has been listed, [block, type, complete] each
  warned     \* the listing carries a warning

walk == <<frames, file, visited, entries, warned>>

WalkInit == frames = <<>> /\ file = <<>> /\ visited = {} /\ entries = <<>> /\ warned = FALSE

-----------------------------------------------------------------------------
\* Plausible bugs.
NeverSeen == FALSE                           \* extensions are followed wherever they lead
SilentlyDeep(depth) == depth > maxTraversalDepth /\ UNCHANGED warned
-----------------------------------------------------------------------------
(* A block. "header" stands for a header block with a readable name, "list"    *)
(* for a file extension, anything else for what the code skips with a warning. *)
(* A hash table of an invalid size has no slots. Of a file's data, "got" bytes *)
(* can be read through the block and then a pointer or block is bad, or not.   *)
Block(b) == disk.block[b]
IsHeader(b) == Block(b).type = "header" /\ Block(b).secondary \in {"file", "directory"}

\* The call of walkDirectory on a directory, above what is already under way. It
\* returns at once for one that is too deep or has no valid hash table.
TooDeep(depth) == depth > maxTraversalDepth /\ warned' = TRUE
Enter(b, depth, below) ==
  \/ TooDeep(depth) /\ frames' = below
  \/ /\ depth <= maxTraversalDepth /\ Block(b).slots = <<>>
     /\ warned' = TRUE /\ frames' = below
  \/ /\ depth <= maxTraversalDepth /\ Block(b).slots # <<>>
     /\ frames' = <<[depth |-> depth, slots |-> Block(b).slots, current |-> 0, chain |-> {}]>> \o below
     /\ UNCHANGED warned

\* AnalyzeFilesystemBytes, of an image with a DOS header: the boot block names
\* the root or leaves the usual one.
AnalyzeFilesystem ==
  IF disk.root \in Blocks /\ Block(disk.root).type = "header" /\ Block(disk.root).secondary = "root"
  THEN visited' = {disk.root} /\ Enter(disk.root, 0, <<>>) /\ UNCHANGED <<disk, file, entries>>
  ELSE warned' = TRUE /\ UNCHANGED <<disk, frames, file, visited, entries>>

-----------------------------------------------------------------------------
Walking == frames # <<>> \/ file # <<>>
Top == Head(frames)
Frames(top) == <<top>> \o Tail(frames)
\* The loop over a chain goes on with a block, or ends with 0.
After(b) == [Top EXCEPT !.current = b, !.chain = @ \cup {Top.current}]
Entry(b, type, complete) == [block |-> b, type |-> type, complete |-> complete]

NextSlot == /\ file = <<>> /\ frames # <<>> /\ Top.current = 0
            /\ frames' = IF Top.slots = <<>> THEN Tail(frames)
                         ELSE Frames([Top EXCEPT !.current = Head(Top.slots),
                                                 !.slots = Tail(Top.slots), !.chain = {}])
            /\ UNCHANGED <<disk, file, visited, entries, warned>>

Visiting == file = <<>> /\ frames # <<>> /\ Top.current # 0
Breaks(b) == b \in Top.chain \/ b \notin Blocks

\* A loop of the chain, or a block outside the image, ends the chain.
BreakChain == /\ Visiting /\ Breaks(Top.current)
              /\ frames' = Frames(After(0)) /\ warned' = TRUE
              /\ UNCHANGED <<disk, file, visited, entries>>

SkipBlock == /\ Visiting /\ ~Breaks(Top.current) /\ ~IsHeader(Top.current)
             /\ frames' = Frames(After(Block(Top.current).next)) /\ warned' = TRUE
             /\ UNCHANGED <<disk, file, visited, entries>>

\* A directory found again is listed again, but not walked again.
VisitDirectory ==
  /\ Visiting /\ ~Breaks(Top.current)
  /\ IsHeader(Top.current) /\ Block(Top.current).secondary = "directory"
  /\ LET b == Top.current
         rest == Frames(After(Block(b).next))
     IN /\ entries' = Append(entries, Entry(b, "directory", TRUE))
        /\ visited' = visited \cup {b}
        /\ \/ b \in visited /\ frames' = rest /\ warned' = TRUE
           \/ b \notin visited /\ Enter(b, Top.depth + 1, rest)
  /\ UNCHANGED <<disk, file>>

VisitFile ==
  /\ Visiting /\ ~Breaks(Top.current)
  /\ IsHeader(Top.current) /\ Block(Top.current).secondary = "file"
  /\ frames' = Frames(After(Block(Top.current).next))
  /\ file' = [header |-> Top.current, current |-> Top.current, seen |-> {}, got |-> 0]
  /\ UNCHANGED <<disk, visited, entries, warned>>

\* analyzeFilePayload: the loop over a file's header and its extensions.
Size == Block(file.header).size
Seen == file.current \in file.seen
Metadata(b) == /\ b \in Blocks
               /\ b # file.header => Block(b).type = "list" /\ Block(b).secondary = "file"
ListFile(complete) ==
  /\ entries' = Append(entries, Entry(file.header, "file", complete))
  /\ warned' = (warned \/ ~complete \/ Block(file.header).unsound)
  /\ file' = <<>>

CompleteFile ==
  /\ file # <<>>
  /\ \/ Size = 0
     \/ /\ ~Seen /\ Metadata(file.current)
        /\ file.got + Block(file.current).got >= Size
  /\ ListFile(TRUE)
  /\ UNCHANGED <<disk, frames, visited>>

NextExtension ==
  /\ file # <<>> /\ Size > 0
  /\ ~Seen /\ Metadata(file.current)
  /\ LET b == Block(file.current) IN
       /\ file.got + b.got < Size /\ ~b.bad /\ b.extension # 0
       /\ file' = [file EXCEPT !.current = b.extension, !.got = @ + b.got,
                               !.seen = @ \cup {file.current}]
  /\ UNCHANGED <<disk, frames, visited, entries, warned>>

GoesOn(b) == file.got + b.got >= Size \/ (~b.bad /\ b.extension # 0)
BreakFile ==
  /\ file # <<>> /\ Size > 0
  /\ ~(/\ ~Seen /\ Metadata(file.current)
       /\ GoesOn(Block(file.current)))
  /\ ListFile(FALSE)
  /\ UNCHANGED <<disk, frames, visited>>

WalkStep == \/ NextSlot \/ BreakChain \/ SkipBlock \/ VisitDirectory \/ VisitFile
            \/ CompleteFile \/ NextExtension \/ BreakFile

-----------------------------------------------------------------------------
\* The headers the image's pointers lead to from the root, as a smallest set.
Chained(b) == {c \in Blocks : c = Block(b).next}
Listed(b) == {c \in Blocks : \E i \in DOMAIN Block(b).slots : Block(b).slots[i] = c}
Leads(b) == Chained(b) \cup (IF Block(b).secondary = "directory" THEN Listed(b) ELSE {})
ClosedUnder(S) == \A b \in S : Leads(b) \subseteq S
Reachable == {b \in Blocks : \A S \in SUBSET Blocks : Listed(disk.root) \subseteq S /\ ClosedUnder(S) => b \in S}

(* A listing without a warning is the whole disk: every header the pointers    *)
(* lead to is in it, every directory was walked, and every file is there with  *)
(* as many bytes as it says (filesystem.go:89, payload.go:27). A listing with  *)
(* warnings still shows nothing the pointers do not lead to.                   *)
ListingIsHonest ==
  LET shown == {entries[i].block : i \in DOMAIN entries} IN
  frames = <<>> /\ file = <<>> /\ visited # {} =>
    /\ shown \subseteq Reachable
    /\ ~warned => /\ shown = Reachable
                  /\ \A i \in DOMAIN entries : entries[i].complete
=============================================================================
