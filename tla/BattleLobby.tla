----------------------------- MODULE BattleLobby -----------------------------
(***************************************************************************)
(* The page on which users wait for an opponent                            *)
(* (fronted/src/compoments/BattleLobby.jsx), composed with what the        *)
(* matchmaking promises (Matchmaking, which SessionService implements when *)
(* its tables work).                                                       *)
(*                                                                         *)
(* A timer starts a poll every two seconds, awaited or not, so polls of    *)
(* one page overlap and are answered in any order.  A match makes the page *)
(* go to the game half a second later.  Neither the polls under way nor    *)
(* the pending navigations are cancelled when the page is left.            *)
(***************************************************************************)
EXTENDS Naturals, Sequences

CONSTANTS
  Page, User,
  Owner,     \* page -> the user who is signed in on it
  GameType,
  Playable,  \* the game types that have a page
  Id,        \* session identifiers
  MaxPolls,  \* bound: polls of each page that are under way at a time
  MaxFaults, \* bound: polls that fail
  Nothing,
  Failure    \* a poll that failed

Asker == UNION {{p} \X (1 .. MaxPolls[p]) : p \in Page}
Goal  == [game : GameType, session : Id]

ASSUME OwnerAssumption == Owner \in [Page -> User]
ASSUME PlayableAssumption == Playable \subseteq GameType
ASSUME BoundAssumption == MaxPolls \in [Page -> Nat \ {0}] /\ MaxFaults \in Nat

VARIABLES
  parties,  \* the sessions (of Matchmaking)
  at,       \* what each page shows
  game,     \* its gameType
  shown,    \* the game page that it shows
  poll,     \* the polls under way
  jumps,    \* navigations that wait for their 500 ms
  faults    \* how many polls have failed (bound only)

page == <<at, game, shown>>
vars == <<parties, at, game, shown, poll, jumps, faults>>

\* Promises are kept in poll; the tables are those of Matchmaking.
Pairing == INSTANCE Matchmaking WITH told <- [a \in Asker |-> Nothing]

\* isActive: the mount that sent the poll is still there.  The answer is a
\* session, a failure, or not there yet.
Answers == [session : Id, complete : BOOLEAN]
Polls   == [isActive : BOOLEAN, game : GameType, answer : Answers \cup {Nothing, Failure}]

ASSUME NothingAssumption == Nothing \notin Goal \cup Answers /\ Failure \notin Answers \cup {Nothing}

Init ==
  /\ Pairing!Init
  /\ at = [p \in Page |-> "away"]
  /\ game = [p \in Page |-> Nothing]
  /\ shown = [p \in Page |-> Nothing]
  /\ poll = [a \in Asker |-> Nothing]
  /\ jumps = [p \in Page |-> <<>>]
  /\ faults = 0

Mounted(p) == at[p] \in {"polling", "matched", "failed"}

-----------------------------------------------------------------------------
(* The page.                                                               *)

\* The user starts a game in the lobby, or presses Play Again.
Mount(p, g) ==
  /\ ~Mounted(p)
  /\ at' = [at EXCEPT ![p] = "polling"]
  /\ game' = [game EXCEPT ![p] = g]
  /\ shown' = [shown EXCEPT ![p] = Nothing]
  /\ UNCHANGED <<parties, poll, jumps, faults>>

\* setInterval, on the first free lane.  Navigations of an earlier mount are
\* over by now: they take half a second, the first poll two.
Poll(p) ==
  /\ at[p] = "polling" /\ jumps[p] = <<>>
  /\ \E l \in 1 .. MaxPolls[p] :
       /\ poll[<<p, l>>] = Nothing /\ \A k \in 1 .. l - 1 : poll[<<p, k>>] # Nothing
       /\ poll' = [poll EXCEPT ![<<p, l>>] =
                     [isActive |-> TRUE, game |-> game[p], answer |-> Nothing]]
  /\ UNCHANGED <<parties, page, jumps, faults>>

\* Mutant: isActive is not looked at.
IgnoreNot(r) == r

\* The page shows something else.  The cleanup of the effect clears isActive,
\* and so the answers to polls of this mount will be ignored: a poll is kept
\* only as long as the server may still see it.
Ignore(r) == IF r # Nothing /\ r.answer = Nothing THEN [r EXCEPT !.isActive = FALSE]
             ELSE Nothing
Unmount(p, where, what) ==
  /\ at' = [at EXCEPT ![p] = where]
  /\ game' = [game EXCEPT ![p] = Nothing]
  /\ shown' = [shown EXCEPT ![p] = what]
  /\ poll' = [a \in Asker |-> IF a[1] = p THEN Ignore(poll[a]) ELSE poll[a]]

\* The user goes elsewhere.
Leave(p) ==
  /\ at[p] # "away"
  /\ Unmount(p, "away", Nothing)
  /\ UNCHANGED <<parties, jumps, faults>>

\* The page has the answer to a poll.
Heard(a)   == poll[a] # Nothing /\ poll[a].answer \in Answers
Consume(a) == poll' = [poll EXCEPT ![a] = Nothing]
Match(a)   == [game |-> poll[a].game, session |-> poll[a].answer.session]

\* Mutant: isMatched is not looked at.
HearAny(a) ==
  /\ Heard(a)
  /\ at' = [at EXCEPT ![a[1]] = "matched"]
  /\ jumps' = [jumps EXCEPT ![a[1]] = Append(@, Match(a))]
  /\ Consume(a)
  /\ UNCHANGED <<parties, game, shown, faults>>

\* Mutant: a match does not schedule the navigation.
HearIdle(a) ==
  /\ Heard(a)
  /\ at' = IF poll[a].answer.complete THEN [at EXCEPT ![a[1]] = "matched"] ELSE at
  /\ Consume(a)
  /\ UNCHANGED <<parties, game, shown, jumps, faults>>

\* Mutant: the page reads isMatched where the server writes another key.
HearDeaf(a) ==
  /\ Heard(a)
  /\ Consume(a)
  /\ UNCHANGED <<parties, page, jumps, faults>>

\* A match stops the interval and sets the timeout, every time.  An error
\* that is shown stays.
Hear(a) ==
  /\ Heard(a)
  /\ IF poll[a].answer.complete
     THEN /\ at' = [at EXCEPT ![a[1]] = IF @ = "failed" THEN @ ELSE "matched"]
          /\ jumps' = [jumps EXCEPT ![a[1]] = Append(@, Match(a))]
     ELSE UNCHANGED <<at, jumps>>
  /\ Consume(a)
  /\ UNCHANGED <<parties, game, shown, faults>>

\* A poll fails: the interval is stopped for good, and the error shown.
HearFailure(a) ==
  /\ poll[a] # Nothing /\ poll[a].answer = Failure
  /\ at' = [at EXCEPT ![a[1]] = "failed"]
  /\ Consume(a)
  /\ UNCHANGED <<parties, game, shown, jumps, faults>>

\* The timeout: navigate, from wherever the page is by then.
Jump(p) ==
  /\ jumps[p] # <<>>
  /\ jumps' = [jumps EXCEPT ![p] = Tail(@)]
  /\ \/ /\ Head(jumps[p]).game \in Playable
        /\ Unmount(p, "game", Head(jumps[p]))
     \/ /\ Head(jumps[p]).game \notin Playable
        /\ UNCHANGED <<page, poll>>
  /\ UNCHANGED <<parties, faults>>

-----------------------------------------------------------------------------
(* start_or_join, and the network.                                         *)

Member(u, g, id) == parties'[id].game = g /\ \E i \in DOMAIN parties'[id].players :
                                               parties'[id].players[i] = u

Reply(a, answer) ==
  poll' = [poll EXCEPT ![a] = IF @.isActive THEN [@ EXCEPT !.answer = answer] ELSE Nothing]

Tell(a, id) == Reply(a, [session |-> id, complete |-> Len(parties'[id].players) = 2])

\* The call, which no other call interleaves: the user gets his session, or
\* has it, and is told.
Serve(a) ==
  /\ poll[a] # Nothing /\ poll[a].answer = Nothing
  /\ LET u == Owner[a[1]]
         g == poll[a].game
     IN /\ \/ Pairing!Open(u, g) \/ Pairing!Join(u, g)
           \/ ~Pairing!Without(u, g) /\ UNCHANGED parties
        /\ \E id \in DOMAIN parties' : Member(u, g, id) /\ Tell(a, id)
  /\ UNCHANGED <<page, jumps, faults>>

\* The request or its answer is lost, or the server refuses.
Fail(a) ==
  /\ poll[a] # Nothing /\ poll[a].answer # Failure
  /\ faults < MaxFaults /\ faults' = faults + 1
  /\ Reply(a, Failure)
  /\ UNCHANGED <<parties, page, jumps>>

-----------------------------------------------------------------------------
\* A page's timers; what becomes of a poll.
Timer(p) == Poll(p) \/ Jump(p)
Dealt(a) == Serve(a) \/ Hear(a) \/ HearFailure(a)

Next ==
  \/ \E p \in Page, g \in GameType : Mount(p, g)
  \/ \E p \in Page : Timer(p) \/ Leave(p)
  \/ \E a \in Asker : Dealt(a) \/ Fail(a)

Spec == Init /\ [][Next]_vars

\* Timers fire, requests are dealt with, and answers handled.
FairSpec == /\ Spec
            /\ \A p \in Page : WF_vars(Timer(p))
            /\ \A a \in Asker : WF_vars(Dealt(a))

-----------------------------------------------------------------------------
(* Properties.                                                             *)

Players(id) == parties[id].players

\* Types; at most one navigation for each poll is pending.
TypeOK ==
  /\ DOMAIN parties \subseteq Id
  /\ \A id \in DOMAIN parties :
       parties[id].game \in GameType /\ Players(id) \in Seq(User) /\ Len(Players(id)) <= 2
  /\ at \in [Page -> {"away", "polling", "matched", "failed", "game"}]
  /\ game \in [Page -> GameType \cup {Nothing}]
  /\ shown \in [Page -> Goal \cup {Nothing}]
  /\ \A p \in Page : at[p] = "game" <=> shown[p] # Nothing
  /\ poll \in [Asker -> Polls \cup {Nothing}]
  /\ \A p \in Page : jumps[p] \in Seq(Goal) /\ Len(jumps[p]) <= MaxPolls[p]
  /\ faults \in 0 .. MaxFaults

\* The games that a page shows or is about to show.
Going(p) == {jumps[p][i] : i \in DOMAIN jumps[p]} \cup ({shown[p]} \ {Nothing})

\* Nobody goes to a game without an opponent, or to another's game.
OpponentThere ==
  \A p \in Page : \A x \in Going(p) :
    /\ x.session \in DOMAIN parties /\ parties[x.session].game = x.game
    /\ \E i, j \in DOMAIN Players(x.session) :
         Players(x.session)[i] = Owner[p] /\ Players(x.session)[j] # Owner[p]

\* Two users who wait for one game do not wait on: one of them gets to a
\* game, or sees an error, or leaves.
Waits(p, g)  == at[p] = "polling" /\ game[p] = g
WaitIsOver ==
  \A p, q \in Page, g \in Playable :
    Owner[p] # Owner[q] => (Waits(p, g) /\ Waits(q, g)) ~> ~(Waits(p, g) /\ Waits(q, g))

\* A match is followed by the game, unless the user leaves.
MatchIsPlayed ==
  \A p \in Page : at[p] = "matched" /\ game[p] \in Playable ~> at[p] \in {"game", "away"}
=============================================================================
