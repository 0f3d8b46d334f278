------------------------------ MODULE MCWsGame ------------------------------
(***************************************************************************)
(* Values for model checking WsGame: two connections to one session.       *)
(***************************************************************************)
EXTENDS WsGame

CONSTANTS c1, c2, s1

OneRoom == [c \in {c1, c2} |-> s1]
=============================================================================
