--------------------------- MODULE MCUserService ---------------------------
(***************************************************************************)
(* Values for model checking UserService: one account typed in two ways  *)
(* and a name that is refused.                                             *)
(***************************************************************************)
EXTENDS UserService, TLC

Small     == [u \in {"Ann", "ann", "no"} |-> IF u = "Ann" THEN "ann" ELSE u]
Strengths == [p \in {"good", "best", "brief", "plain"} |->
                CASE p = "brief" -> "TooShort"
                  [] p = "plain" -> "MissingDigit"
                  [] OTHER -> "Valid"]
Symmetry  == Permutations(Worker)
=============================================================================
