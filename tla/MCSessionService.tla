-------------------------- MODULE MCSessionService --------------------------
(***************************************************************************)
(* Values for model checking SessionService: users, threads and game types *)
(* are model values given in the .cfg files.                               *)
(***************************************************************************)
EXTENDS SessionService, TLC

CONSTANTS ann, bob, annabel, anon

\* Names unrelated to each other; "ann" inside "annabel".
NoSubNames  == {}
AnnSubNames == {<<ann, annabel>>}

Symmetry == Permutations(Worker) \cup Permutations(User)
=============================================================================
