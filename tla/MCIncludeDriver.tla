--------------------------- MODULE MCIncludeDriver ---------------------------
(***************************************************************************)
(* Model-checking instance of IncludeDriver.  Two files: the top-level     *)
(* file fm, named by pm, and f1, named by two different paths p1 and q1    *)
(* (as a file and a symlink to it, or a relative and an absolute name are  *)
(* two abspaths).  p3 names no file.                                       *)
(***************************************************************************)
EXTENDS IncludeDriver, TLC

CONSTANTS fm, f1, pm, p1, q1, p3, input, none

MCFiles == {fm, f1}
MCPaths == {pm, p1, q1, p3}
MCResolve == (pm :> fm) @@ (p1 :> f1) @@ (q1 :> f1) @@ (p3 :> none)
MCKinds == {Plain, Raise, BadInclude} \cup {Include(p) : p \in MCPaths}
====
