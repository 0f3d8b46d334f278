---------------------------- MODULE MCBattleLobby ----------------------------
(***************************************************************************)
(* Values for model checking BattleLobby: one page for each user.          *)
(***************************************************************************)
EXTENDS BattleLobby

CONSTANTS ann, bob

OnePage == [p \in {ann, bob} |-> p]
Overlap == [p \in {ann, bob} |-> IF p = ann THEN 2 ELSE 1]
=============================================================================
