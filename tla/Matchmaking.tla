---------------------------- MODULE Matchmaking ----------------------------
(***************************************************************************)
(* What start_or_join promises its callers, without tables, locks or       *)
(* requests: users are paired two by two, per game type, and nobody opens  *)
(* a second party while another user waits in one.                         *)
(***************************************************************************)
EXTENDS Naturals, Sequences

CONSTANTS Id, User, GameType,
          Asker,      \* who asks on behalf of a user
          Nothing     \* no promise

VARIABLES
  parties,   \* the parties that exist: identifier -> game type and members
  told       \* asker -> the last promise: who is where, with an opponent?

vars == <<parties, told>>

Member(u, id) == \E i \in DOMAIN parties[id].players :
                   parties[id].players[i] = u

Without(u, g) == \A id \in DOMAIN parties :
                   parties[id].game = g => ~Member(u, id)

IsOpen(id, g) == /\ id \in DOMAIN parties
                 /\ parties[id].game = g
                 /\ Len(parties[id].players) = 1

Init == parties = <<>> /\ told = [a \in Asker |-> Nothing]

\* A user without a party of this game type opens one, if none is open.
Open(u, g) ==
  /\ Without(u, g)
  /\ ~ \E id \in Id : IsOpen(id, g)
  /\ \E new \in Id \ DOMAIN parties :
       parties' = [id \in DOMAIN parties \cup {new} |->
                     IF id = new THEN [game |-> g, players |-> <<u>>]
                                 ELSE parties[id]]
  /\ UNCHANGED told

\* A user without a party of this game type joins the open one.
Join(u, g) ==
  /\ Without(u, g)
  /\ \E id \in Id :
       /\ IsOpen(id, g)
       /\ parties' = [parties EXCEPT ![id].players = Append(@, u)]
  /\ UNCHANGED told

\* An asker starts over, or is told where the user is.
Ask(a) ==
  /\ told' = [told EXCEPT ![a] = Nothing]
  /\ UNCHANGED parties

Tell(a, u, id) ==
  /\ told[a] = Nothing
  /\ id \in DOMAIN parties
  /\ Member(u, id)
  /\ told' = [told EXCEPT ![a] =
                [user |-> u, party |-> id,
                 complete |-> Len(parties[id].players) = 2]]
  /\ UNCHANGED parties

Next ==
  \/ \E u \in User, g \in GameType : Open(u, g) \/ Join(u, g)
  \/ \E a \in Asker : Ask(a) \/ (\E u \in User, id \in Id : Tell(a, u, id))

Spec == Init /\ [][Next]_vars
=============================================================================
