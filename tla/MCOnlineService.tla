-------------------------- MODULE MCOnlineService --------------------------
(***************************************************************************)
(* Values for model checking OnlineService: one user on all pages.         *)
(***************************************************************************)
EXTENDS OnlineService, TLC, FiniteSets

OneOwner == [p \in Page |-> CHOOSE u \in User : TRUE]
Symmetry == Permutations(Page) \cup Permutations(Slot)
=============================================================================
