---- MODULE MCGraphStore ----
(* Two files that define, call and import the same three names, among them files
   that cannot be read and a name of a module that is also a function's; links to
   them, listed before or after the file they lead to or without it, and one out of
   the root; and one file whose calls form a ring, where a node is met on ways of
   different length. *)
EXTENDS GraphStore

MCName == 1..7

MCFile == {10, 11, 12, 13, 14}

LinkTo1 == 10
File1 == 11
File2 == 12
LinkTo2 == 13
LinkOut == 14

MCTarget ==
    [f \in MCFile |-> CASE f = LinkTo1 -> File1
                        [] f = LinkTo2 -> File2
                        [] f = LinkOut -> NoFile
                        [] OTHER -> f]

Of(functions, calls, imports) ==
    [readable |-> TRUE, functions |-> functions, calls |-> calls, imports |-> imports]

Unreadable == [Of({1}, {}, {}) EXCEPT !.readable = FALSE]

Contents ==
    {Unreadable, Of({}, {}, {}), Of({1}, {}, {}), Of({1, 2}, {<<1, 2>>}, {}),
     Of({2}, {<<2, 1>>, <<3, 1>>}, {1}), Of({1, 3}, {<<1, 1>>, <<3, 2>>}, {1, 3}),
     Of({3}, {<<3, 4>>}, {2, 4}), Of({1, 2, 3, 4}, {<<1, 4>>, <<4, 1>>}, {5})}

\* 1 -> 4, 5; 2 -> 5, 6; 3 -> 4, 6, 7
Ring == Of({1, 2, 3}, {<<1, 4>>, <<1, 5>>, <<2, 5>>, <<2, 6>>, <<3, 4>>, <<3, 6>>, <<3, 7>>}, {})

\* A link and its file, where both are listed, are read as the same.
MCRepos ==
    {[f \in {File1} |-> Ring]}
    \union {[f \in {File1} |-> c] : c \in Contents}
    \union {[f \in {File1, File2} |-> IF f = File1 THEN c ELSE d] : c, d \in Contents}
    \union {[f \in {LinkTo1} |-> c] : c \in Contents}
    \union {[f \in {LinkTo1, File1} |-> c] : c \in Contents}
    \union {[f \in {File2, LinkTo2} |-> c] : c \in Contents}
    \union {[f \in {LinkTo1, File2, LinkTo2} |-> IF f = LinkTo1 THEN c ELSE d] :
                c, d \in Contents}
    \union {[f \in {File1, LinkOut} |-> IF f = File1 THEN c ELSE d] : c, d \in Contents}

\* 20 is similar to 1 and 2 alike, 21 to 3 alone, 22 to nothing and is in both paths.
MCQuery == {0, 1, 2, 11, 20, 21, 22}

MCScore ==
    [p \in MCQuery \X (MCName \union MCFile) |->
        CASE p[1] = p[2] -> 100
          [] p = <<1, 2>> -> 97
          [] p \in {<<2, 1>>, <<2, 3>>} -> 60
          [] p \in {<<20, 1>>, <<20, 2>>} -> 80
          [] p = <<21, 3>> -> 75
          [] p = <<21, 1>> -> 70
          [] p[2] \in MCFile -> 30
          [] OTHER -> 10]

MCRadii == {-1, 0, 1, 2, 4}

MCInPath ==
    ({0} \X MCFile)
    \union {<<11, File1>>, <<20, LinkTo1>>, <<20, File2>>}
    \union {<<22, f>> : f \in {File1, File2, LinkTo2}}
====
