---------------------------- MODULE MCEnrolment -----------------------------
(***************************************************************************)
(* Small instances of Enrolment for TLC.                                   *)
(***************************************************************************)
EXTENDS Enrolment

CONSTANTS a1, a2, n1, n2

\* Two machines, each with its own name.
OwnNames == [a \in Agents |-> IF a = a1 THEN n1 ELSE n2]
=============================================================================
