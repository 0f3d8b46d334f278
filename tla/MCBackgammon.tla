---------------------------- MODULE MCBackgammon ----------------------------
(***************************************************************************)
(* Boards for model checking Backgammon, and the board of the code.        *)
(***************************************************************************)
EXTENDS Backgammon, FiniteSetsExt

Layout(points, black, white) ==
  [i \in 0 .. points - 1 |->
     CASE i \in DOMAIN black -> [color |-> "black", count |-> black[i]]
       [] i \in DOMAIN white -> [color |-> "white", count |-> white[i]]
       [] OTHER -> [color |-> "", count |-> 0]]

\* initBoard.
InitBoard ==
  Layout(24, [i \in {0, 11, 16, 18} |-> CASE i = 0 -> 2 [] i = 16 -> 3 [] OTHER -> 5],
             [i \in {23, 12, 7, 5} |-> CASE i = 23 -> 2 [] i = 7 -> 3 [] OTHER -> 5])

\* The real board meets the assumptions on Start and has 15 checkers a side.
ASSUME InitBoardAssumption ==
  /\ \A i \in 0 .. 23 : InitBoard[i] \in [color : {"black", "white", ""}, count : 0 .. 15]
  /\ \A i \in 0 .. 23 : WellFormed(InitBoard[i])
  /\ \A c \in Color :
       MapThenSumSet(LAMBDA i : IF InitBoard[i].color = c THEN InitBoard[i].count ELSE 0,
                     0 .. 23) = 15

\* Two checkers each, single ones that can be hit and a pair that blocks.
ShortBoard == Layout(5, [i \in {0} |-> 2], [i \in {3, 4} |-> 1])
=============================================================================
