---- MODULE MCToolRuntime ----
(* Two nodes, of which one is only in the second of two versions of the
   repository, so that expanding it raises until the files change.         *)
EXTENDS ToolRuntime

CONSTANTS a, b

MCNode == {a, b}

MCNodes == <<{a}, {a, b}>>
====
