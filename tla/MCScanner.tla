----------------------------- MODULE MCScanner -----------------------------
EXTENDS Scanner

Content(format, size, members) ==
  [format |-> format, size |-> size, members |-> members, directories |-> 0,
   broken |-> FALSE, malicious |-> FALSE, dos |-> FALSE]
Lists(n) == UNION {[1..k -> 1..3] : k \in 0..n}

\* Content 1 is submitted; 2 may be an archive too, and either may hold any of
\* the three, itself included.
Submissions == {Content("zip", 1, m) : m \in Lists(2) \cup {<<2, 2, 2>>, <<2, 3, 1>>, <<1, 2, 3>>, <<3, 2, 3>>}} \cup {Content("lzx", 1, m) : m \in Lists(1)}
               \cup {[Content(f, 1, m) EXCEPT !.broken = b] :
                       f \in {"dms", "ipf", "fdi"}, m \in {<<>>, <<2>>}, b \in BOOLEAN}
Middles == {[Content("zip", 2, m) EXCEPT !.directories = d] : m \in Lists(2), d \in {0, 1}}
           \cup {Content("lha", 2, m) : m \in Lists(1)}
           \cup {Content("adz", 2, <<3>>), Content("dms", 1, <<3>>), Content("ipf", 1, <<3>>),
                 [Content("adf", 1, <<>>) EXCEPT !.malicious = TRUE]}
Leaves == {Content("adf", 1, <<>>), [Content("adf", 1, <<>>) EXCEPT !.malicious = TRUE],
           Content("unknown", 2, <<>>), [Content("zip", 1, <<2>>) EXCEPT !.broken = TRUE]}

B(type, secondary, next, slots, got, extension) ==
  [type |-> type, secondary |-> secondary, next |-> next, slots |-> slots,
   size |-> 2, got |-> got, bad |-> FALSE, extension |-> extension, unsound |-> FALSE]
NoDisk == [root |-> 9, block |-> [b \in Blocks |-> B("data", "none", 0, <<>>, 0, 0)]]

\* Disks: the root has two hash slots and any other directory one. Blocks 2 and 3
\* are anything, 4 is a file, and pointers lead anywhere, 9 being outside the image.
Others == {B("header", "directory", n, <<h>>, 2, 0) : n \in {0, 2, 3}, h \in {2, 3, 4}}
          \cup {B("header", "directory", 9, <<9>>, 2, 0), B("header", "directory", 3, <<>>, 2, 0)}
          \cup {B("header", "file", n, <<>>, 2, 0) : n \in {0, 2, 3}}
          \cup {B("header", "file", 0, <<>>, 1, 0)}
          \cup {B("data", "none", n, <<>>, 2, 0) : n \in {0, 3}}
Root(slots) == B("header", "root", 0, slots, 2, 0)
Leaf == B("header", "file", 0, <<>>, 2, 0)
Trees == {[root |-> 1, block |-> <<Root(<<g, h>>), b, c, Leaf>>] :
            g \in {1, 2, 9}, h \in {0, 2, 3}, b, c \in Others}
\* Files with extensions.
Extended == {[root |-> 1, block |-> <<Root(<<2>>),
                                      [B("header", "file", 0, <<>>, g, e) EXCEPT !.size = z, !.unsound = u],
                                      [B(t, "file", 0, <<>>, l, x) EXCEPT !.bad = bad], Leaf>>] :
              g, l \in {0, 1}, z \in {0, 2, 3}, e, x \in {0, 3, 9}, t \in {"list", "header"},
              bad, u \in BOOLEAN}
Disks == Trees \cup Extended
         \cup {[NoDisk EXCEPT !.root = 1, !.block[1] = Root(<<>>)]}

Case(a, b, c, d) == [content |-> <<a, b, c>>, disk |-> d]
Dos(c) == [c EXCEPT !.dos = TRUE]
CasesMC == {Case(a, b, c, NoDisk) : a \in Submissions, b \in Middles, c \in Leaves}
           \cup {Case(Dos(Content("adf", 1, <<>>)), Content("adf", 1, <<>>), Content("adf", 1, <<>>), d) :
                   d \in Disks \cup {NoDisk}}
=============================================================================
