----------------------------- MODULE MCCLI -----------------------------
(***************************************************************************)
(* Model-checking instance of CLI: two distinct non-empty images, so that  *)
(* an image from this run and one an earlier run left behind differ.       *)
(***************************************************************************)
EXTENDS CLI

CONSTANTS img, old
====
