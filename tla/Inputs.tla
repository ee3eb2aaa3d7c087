------------------------------- MODULE Inputs -------------------------------
(***************************************************************************)
(* The algorithms of ig that keep no state are checked on growing inputs:  *)
(* a behaviour chooses one of them and feeds it bit by bit.                *)
(***************************************************************************)
EXTENDS Optional

CONSTANT Parts     \* the algorithms to feed

VARIABLES
    part,          \* the one that is fed
    input

vars == <<part, input>>
=============================================================================
