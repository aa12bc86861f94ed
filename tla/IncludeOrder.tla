---------------------------- MODULE IncludeOrder ----------------------------
(***************************************************************************)
(* What the include driver promises, in the terms of spec.md section 4.6:  *)
(* the events of an assembly (a line processed, a diagnostic reported)     *)
(* come out one at a time, in the order of the expansion `target` of the   *)
(* top-level file, and all of them eventually come out.  Nothing else is  *)
(* said about how the driver walks the files.                              *)
(***************************************************************************)
EXTENDS Naturals, Sequences

VARIABLES
  out,     \* the events produced so far
  target   \* the expansion: every event, in order; fixed for a run

vars == <<out, target>>

Init == out = <<>>

\* The next event of the expansion is produced.
Emit ==
  /\ Len(out) < Len(target)
  /\ out' = Append(out, target[Len(out) + 1])
  /\ UNCHANGED target

Spec == Init /\ [][Emit]_vars /\ WF_vars(Emit)

=============================================================================
