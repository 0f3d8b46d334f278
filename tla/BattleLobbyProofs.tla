-------------------------- MODULE BattleLobbyProofs --------------------------
(***************************************************************************)
(* Theorems about BattleLobby, for any pages, users, game types, numbers   *)
(* of overlapping polls and failures.                                      *)
(*                                                                         *)
(* A page only goes where an answer sent it, and an answer only says       *)
(* "matched" of a full session that has the asker in it (Told).  Full      *)
(* sessions stay as they are and a user is in one session of a game type   *)
(* (PartyInv), so that answers stay true however long they are under way,  *)
(* and any two of them agree.                                              *)
(***************************************************************************)
EXTENDS BattleLobby, FiniteSetTheorems, SequenceTheorems, TLAPS

\* What the members hold.
Types ==
  /\ DOMAIN parties \subseteq Id
  /\ at \in [Page -> {"away", "polling", "matched", "failed", "game"}]
  /\ game \in [Page -> GameType \cup {Nothing}]
  /\ shown \in [Page -> Goal \cup {Nothing}]
  /\ poll \in [Asker -> Polls \cup {Nothing}]
  /\ jumps \in [Page -> Seq(Goal)]
  /\ faults \in 0 .. MaxFaults

\* A mounted lobby page has a game type, and only the game page a game.
Focus ==
  \A p \in Page : /\ at[p] = "game" <=> shown[p] # Nothing
                  /\ Mounted(p) => game[p] \in GameType

\* Answers are only kept for the mount that asked, as long as it is there.
Live ==
  \A a \in Asker : poll[a] # Nothing =>
    /\ poll[a].answer # Nothing => poll[a].isActive
    /\ poll[a].isActive => Mounted(a[1])

PageInv == Types /\ Focus /\ Live

\* A page never has more navigations and polls under way than it has lanes:
\* the next poll waits for the navigations.
Active(a) == poll[a] # Nothing /\ poll[a].isActive
Busy(p) == {l \in 1 .. MaxPolls[p] : Active(<<p, l>>)}
RoomInv == \A p \in Page : Cardinality(Busy(p)) + Len(jumps[p]) <= MaxPolls[p]

Seats   == {<<u>> : u \in User} \cup {r \in User \X User : r[1] # r[2]}
Sessions == [game : GameType, players : Seats]

In(u, id) == \E i \in DOMAIN Players(id) : Players(id)[i] = u
Once ==
  \A id, jd \in DOMAIN parties, u \in User :
    In(u, id) /\ In(u, jd) /\ parties[id].game = parties[jd].game => id = jd
PartyInv == parties \in [DOMAIN parties -> Sessions] /\ Once

\* u is in the session id of the game type g, and not alone.
Full(u, g, id) ==
  /\ id \in DOMAIN parties /\ parties[id].game = g
  /\ In(u, id) /\ Len(Players(id)) = 2

TrueAnswer(a) ==
  Heard(a) /\ poll[a].answer.complete =>
    Full(Owner[a[1]], poll[a].game, poll[a].answer.session)
Told ==
  /\ \A a \in Asker : TrueAnswer(a)
  /\ \A p \in Page : \A x \in Going(p) : Full(Owner[p], x.game, x.session)

-----------------------------------------------------------------------------
(* The page.                                                               *)

\* A poll is a lane of a page.
LEMMA Lanes ==
  /\ \A a \in Asker : a[1] \in Page /\ a[2] \in 1 .. MaxPolls[a[1]] /\ a = <<a[1], a[2]>>
  /\ \A p \in Page : \A l \in 1 .. MaxPolls[p] : <<p, l>> \in Asker
BY DEF Asker

\* An answer reaches the poll if its mount is still there, and ends it else.
LEMMA ReplyTyped ==
  ASSUME PageInv, NEW a \in Asker, poll[a] # Nothing,
         NEW x \in Answers \cup {Nothing, Failure}, Reply(a, x)
  PROVE  /\ poll' \in [Asker -> Polls \cup {Nothing}]
         /\ poll'[a] = IF poll[a].isActive THEN [poll[a] EXCEPT !.answer = x] ELSE Nothing
         /\ \A b \in Asker : b # a => poll'[b] = poll[b]
<1>1. poll \in [Asker -> Polls \cup {Nothing}] /\ poll[a] \in Polls
  BY DEF PageInv, Types
<1> DEFINE new == IF poll[a].isActive THEN [poll[a] EXCEPT !.answer = x] ELSE Nothing
<1>2. [poll[a] EXCEPT !.answer = x] \in Polls
  BY <1>1 DEF Polls
<1>3. new \in Polls \cup {Nothing}
  BY <1>2
<1>4. poll' = [poll EXCEPT ![a] = new]
  BY DEF Reply
<1>5. QED
  BY <1>1, <1>3, <1>4

LEMMA ReplyLive ==
  ASSUME PageInv, NEW a \in Asker, poll[a] # Nothing,
         NEW x \in Answers \cup {Nothing, Failure}, Reply(a, x), UNCHANGED at
  PROVE  Live'
<1> SUFFICES ASSUME NEW b \in Asker, poll'[b] # Nothing
             PROVE  /\ poll'[b].answer # Nothing => poll'[b].isActive
                    /\ poll'[b].isActive => Mounted(b[1])'
  BY DEF Live
<1>1. Mounted(b[1])' = Mounted(b[1])
  BY DEF Mounted
<1>2. CASE b # a
  BY <1>1, <1>2, ReplyTyped DEF PageInv, Live
<1>3. CASE b = a
  <2>1. poll[a] \in Polls
    BY DEF PageInv, Types
  <2>2. poll[a].isActive /\ poll'[a] = [poll[a] EXCEPT !.answer = x]
    BY <1>3, ReplyTyped
  <2>3. poll'[a].isActive = poll[a].isActive
    BY <2>1, <2>2 DEF Polls
  <2>4. Mounted(a[1])
    BY <2>2 DEF PageInv, Live
  <2>5. QED
    BY <1>1, <1>3, <2>2, <2>3, <2>4
<1>4. QED
  BY <1>2, <1>3

\* What becomes of the polls of a page that is left.
LEMMA Ignored ==
  ASSUME NEW r \in Polls \cup {Nothing}
  PROVE  /\ Ignore(r) \in Polls \cup {Nothing}
         /\ Ignore(r) # Nothing => /\ ~Ignore(r).isActive
                                   /\ Ignore(r).answer = Nothing
<1>1. CASE r # Nothing /\ r.answer = Nothing
  <2>1. Ignore(r) = [r EXCEPT !.isActive = FALSE] /\ r \in Polls
    BY <1>1 DEF Ignore
  <2>2. QED
    BY <1>1, <2>1 DEF Polls
<1>2. CASE ~(r # Nothing /\ r.answer = Nothing)
  BY <1>2 DEF Ignore
<1>3. QED
  BY <1>1, <1>2

LEMMA UnmountPage ==
  ASSUME PageInv, NEW p \in Page, NEW where \in {"away", "game"}, NEW what \in Goal \cup {Nothing},
         where = "game" <=> what # Nothing, Unmount(p, where, what),
         UNCHANGED <<parties, faults>>, jumps' \in [Page -> Seq(Goal)]
  PROVE  /\ PageInv'
         /\ \A a \in Asker : poll'[a] = IF a[1] = p THEN Ignore(poll[a]) ELSE poll[a]
<1>1. \A a \in Asker : poll[a] \in Polls \cup {Nothing}
  BY DEF PageInv, Types
<1>2. /\ poll' = [a \in Asker |-> IF a[1] = p THEN Ignore(poll[a]) ELSE poll[a]]
      /\ at' = [at EXCEPT ![p] = where]
      /\ game' = [game EXCEPT ![p] = Nothing]
      /\ shown' = [shown EXCEPT ![p] = what]
  BY DEF Unmount
<1>3. poll' \in [Asker -> Polls \cup {Nothing}]
  BY <1>1, <1>2, Ignored
<1>4. Types'
  BY <1>2, <1>3 DEF PageInv, Types
<1>5. Focus'
  BY <1>2 DEF PageInv, Types, Focus, Mounted
<1>6. Live'
  <2> SUFFICES ASSUME NEW a \in Asker, poll'[a] # Nothing
               PROVE  /\ poll'[a].answer # Nothing => poll'[a].isActive
                      /\ poll'[a].isActive => Mounted(a[1])'
    BY DEF Live
  <2>1. CASE a[1] = p
    BY <1>1, <1>2, <2>1, Ignored
  <2>2. CASE a[1] # p
    <3>1. Mounted(a[1])' = Mounted(a[1])
      BY <1>2, <2>2, Lanes DEF Mounted, PageInv, Types
    <3>2. poll'[a] = poll[a]
      BY <1>2, <2>2
    <3>3. QED
      BY <3>1, <3>2 DEF PageInv, Live
  <2>3. QED
    BY <2>1, <2>2
<1>7. QED
  BY <1>2, <1>4, <1>5, <1>6 DEF PageInv

LEMMA MountPage ==
  ASSUME PageInv, NEW p \in Page, NEW g \in GameType, Mount(p, g)
  PROVE  PageInv'
<1>1. Types'
  BY DEF Mount, PageInv, Types
<1>2. Focus'
  BY DEF Mount, PageInv, Types, Focus, Mounted
<1>3. \A q \in Page : Mounted(q) => Mounted(q)'
  BY DEF Mount, PageInv, Types, Mounted
<1>4. Live'
  BY <1>3, Lanes DEF Mount, PageInv, Live
<1>5. QED
  BY <1>1, <1>2, <1>4 DEF PageInv

\* The first free lane.
LEMMA PollPage ==
  ASSUME PageInv, NEW p \in Page, Poll(p)
  PROVE  /\ PageInv'
         /\ \E l \in 1 .. MaxPolls[p] :
              /\ poll'[<<p, l>>] = [isActive |-> TRUE, game |-> game[p], answer |-> Nothing]
              /\ \A a \in Asker : a # <<p, l>> => poll'[a] = poll[a]
<1> DEFINE new == [isActive |-> TRUE, game |-> game[p], answer |-> Nothing]
<1>1. PICK l \in 1 .. MaxPolls[p] : poll' = [poll EXCEPT ![<<p, l>>] = new]
  BY DEF Poll
<1>2. Mounted(p) /\ game[p] \in GameType
  BY DEF Poll, Mounted, PageInv, Focus
<1>3. new \in Polls
  BY <1>2 DEF Polls
<1>4. <<p, l>> \in Asker
  BY Lanes
<1>5. /\ poll' \in [Asker -> Polls \cup {Nothing}]
      /\ poll'[<<p, l>>] = new
      /\ \A a \in Asker : a # <<p, l>> => poll'[a] = poll[a]
  BY <1>1, <1>3, <1>4 DEF PageInv, Types
<1>6. UNCHANGED <<parties, at, game, shown, jumps, faults>>
  BY DEF Poll, page
<1>7. Types' /\ Focus'
  BY <1>5, <1>6 DEF PageInv, Types, Focus, Mounted
<1>8. Live'
  <2> SUFFICES ASSUME NEW a \in Asker, poll'[a] # Nothing
               PROVE  /\ poll'[a].answer # Nothing => poll'[a].isActive
                      /\ poll'[a].isActive => Mounted(a[1])'
    BY DEF Live
  <2>1. Mounted(a[1])' = Mounted(a[1])
    BY <1>6 DEF Mounted
  <2>2. CASE a = <<p, l>>
    BY <1>2, <1>5, <2>1, <2>2
  <2>3. CASE a # <<p, l>>
    BY <1>5, <2>1, <2>3 DEF PageInv, Live
  <2>4. QED
    BY <2>2, <2>3
<1>9. QED
  BY <1>5, <1>7, <1>8 DEF PageInv

\* A poll that is consumed, on a page that stays mounted.
LEMMA ConsumePage ==
  ASSUME PageInv, NEW a \in Asker, Consume(a),
         NEW where \in {"matched", "failed"},
         at' = at \/ at' = [at EXCEPT ![a[1]] = where], Mounted(a[1]),
         jumps' \in [Page -> Seq(Goal)], UNCHANGED <<parties, game, shown, faults>>
  PROVE  /\ PageInv' /\ poll'[a] = Nothing
         /\ \A b \in Asker : b # a => poll'[b] = poll[b]
<1>1. poll' \in [Asker -> Polls \cup {Nothing}] /\ poll'[a] = Nothing
  BY DEF Consume, PageInv, Types
<1>2. \A b \in Asker : b # a => poll'[b] = poll[b]
  BY DEF Consume, PageInv, Types
<1>3. Types'
  BY <1>1, Lanes DEF PageInv, Types
<1>4. /\ \A p \in Page : Mounted(p)' = Mounted(p)
      /\ \A p \in Page : at'[p] = "game" <=> at[p] = "game"
  BY Lanes DEF Mounted, PageInv, Types
<1>5. Focus'
  BY <1>4 DEF PageInv, Focus
<1>6. Live'
  BY <1>1, <1>2, <1>4, Lanes DEF PageInv, Live
<1>7. QED
  BY <1>1, <1>2, <1>3, <1>5, <1>6 DEF PageInv

\* A match was found in an answer to a poll of the mount that is shown.
LEMMA HearPage ==
  ASSUME PageInv, NEW a \in Asker, Hear(a)
  PROVE  /\ PageInv' /\ poll'[a] = Nothing
         /\ \A b \in Asker : b # a => poll'[b] = poll[b]
         /\ poll[a] \in Polls /\ poll[a].isActive /\ Match(a) \in Goal
<1>1. poll[a] \in Polls /\ poll[a].answer \in Answers
  BY DEF Hear, Heard, PageInv, Types
<1>2. poll[a].isActive /\ Mounted(a[1])
  BY <1>1, NothingAssumption DEF Hear, Heard, PageInv, Live
<1>3. Match(a) \in Goal
  BY <1>1 DEF Match, Goal, Polls, Answers
<1>4. jumps \in [Page -> Seq(Goal)] /\ a[1] \in Page
  BY Lanes DEF PageInv, Types
<1>5. jumps' \in [Page -> Seq(Goal)]
  <2>1. CASE poll[a].answer.complete
    <3>1. jumps' = [jumps EXCEPT ![a[1]] = Append(jumps[a[1]], Match(a))]
      BY <2>1 DEF Hear
    <3>2. Append(jumps[a[1]], Match(a)) \in Seq(Goal)
      BY <1>3, <1>4
    <3>3. QED
      BY <1>4, <3>1, <3>2
  <2>2. CASE ~poll[a].answer.complete
    BY <1>4, <2>2 DEF Hear
  <2>3. QED
    BY <2>1, <2>2
<1>6. at' = at \/ at' = [at EXCEPT ![a[1]] = "matched"]
  BY DEF Hear, PageInv, Types
<1>7. QED
  BY <1>1, <1>2, <1>3, <1>5, <1>6, ConsumePage DEF Hear

LEMMA HearFailurePage ==
  ASSUME PageInv, NEW a \in Asker, HearFailure(a)
  PROVE  /\ PageInv' /\ poll'[a] = Nothing
         /\ \A b \in Asker : b # a => poll'[b] = poll[b]
<1>1. Mounted(a[1])
  BY NothingAssumption DEF HearFailure, PageInv, Live
<1>2. jumps' \in [Page -> Seq(Goal)]
  BY DEF HearFailure, PageInv, Types
<1>3. QED
  BY <1>1, <1>2, ConsumePage DEF HearFailure

\* The server's answer names the session of which it speaks.
LEMMA ServeTells ==
  ASSUME PageInv, NEW a \in Asker, Serve(a)
  PROVE  /\ poll[a] \in Polls /\ poll[a].answer = Nothing
         /\ DOMAIN parties' \subseteq Id
         /\ \E x \in Answers :
              /\ Reply(a, x) /\ x.session \in DOMAIN parties'
              /\ Member(Owner[a[1]], poll[a].game, x.session)
              /\ x.complete <=> Len(parties'[x.session].players) = 2
<1>1. poll[a] \in Polls /\ poll[a].answer = Nothing
  BY DEF Serve, PageInv, Types
<1> DEFINE u == Owner[a[1]]
           g == poll[a].game
<1>2. DOMAIN parties' \subseteq Id
  <2>1. \/ Pairing!Open(u, g) \/ Pairing!Join(u, g) \/ UNCHANGED parties
    BY DEF Serve
  <2>2. CASE Pairing!Open(u, g)
    BY <2>2 DEF Pairing!Open, PageInv, Types
  <2>3. CASE Pairing!Join(u, g)
    BY <2>3 DEF Pairing!Join, PageInv, Types
  <2>4. QED
    BY <2>1, <2>2, <2>3 DEF PageInv, Types
<1>3. PICK id \in DOMAIN parties' : Member(u, g, id) /\ Tell(a, id)
  BY DEF Serve
<1>4. PICK x : x = [session |-> id, complete |-> Len(parties'[id].players) = 2]
  OBVIOUS
<1>5. x \in Answers /\ x.session = id /\ (x.complete <=> Len(parties'[id].players) = 2)
  BY <1>2, <1>4 DEF Answers
<1>6. Reply(a, x)
  BY <1>3, <1>4, Zenon DEF Tell
<1>7. QED
  BY <1>1, <1>2, <1>3, <1>5, <1>6

LEMMA ServePage ==
  ASSUME PageInv, NEW a \in Asker, Serve(a)
  PROVE  PageInv'
<1>1. PICK x \in Answers : Reply(a, x)
  BY ServeTells
<1>2. poll[a] # Nothing /\ UNCHANGED <<at, game, shown, jumps, faults>>
  BY DEF Serve, page
<1>3. Types'
  BY <1>1, <1>2, ReplyTyped, ServeTells DEF PageInv, Types
<1>4. Focus'
  BY <1>2 DEF PageInv, Focus, Mounted
<1>5. Live'
  BY <1>1, <1>2, ReplyLive
<1>6. QED
  BY <1>3, <1>4, <1>5 DEF PageInv

LEMMA FailPage ==
  ASSUME PageInv, NEW a \in Asker, Fail(a)
  PROVE  PageInv'
<1>1. /\ poll[a] # Nothing /\ Reply(a, Failure) /\ faults' = faults + 1 /\ faults < MaxFaults
      /\ UNCHANGED <<parties, at, game, shown, jumps>>
  BY DEF Fail, page
<1>2. faults' \in 0 .. MaxFaults
  BY <1>1, BoundAssumption DEF PageInv, Types
<1>3. poll' \in [Asker -> Polls \cup {Nothing}]
  BY <1>1, ReplyTyped
<1>4. Types'
  BY <1>1, <1>2, <1>3 DEF PageInv, Types
<1>5. Focus'
  BY <1>1 DEF PageInv, Focus, Mounted
<1>6. Live'
  BY <1>1, ReplyLive
<1>7. QED
  BY <1>4, <1>5, <1>6 DEF PageInv

\* A navigation goes to the game that was found, and is over then.
LEMMA JumpPage ==
  ASSUME PageInv, NEW p \in Page, Jump(p)
  PROVE  /\ PageInv'
         /\ Head(jumps[p]) \in Goal /\ Tail(jumps[p]) \in Seq(Goal)
         /\ \A a \in Asker : poll'[a] \in {poll[a], Ignore(poll[a])}
<1>1. jumps \in [Page -> Seq(Goal)] /\ jumps[p] # <<>>
  BY DEF Jump, PageInv, Types
<1>2. Head(jumps[p]) \in Goal /\ Tail(jumps[p]) \in Seq(Goal)
  BY <1>1
<1>3. jumps' = [jumps EXCEPT ![p] = Tail(jumps[p])] /\ jumps' \in [Page -> Seq(Goal)]
  BY <1>1, <1>2 DEF Jump
<1>4. CASE Unmount(p, "game", Head(jumps[p]))
  BY <1>2, <1>3, <1>4, UnmountPage, NothingAssumption DEF Jump
<1>5. CASE UNCHANGED <<page, poll>>
  <2>1. UNCHANGED <<parties, at, game, shown, poll, faults>>
    BY <1>5 DEF Jump, page
  <2>2. Types' /\ Focus' /\ Live'
    BY <1>3, <2>1 DEF PageInv, Types, Focus, Live, Mounted
  <2>3. QED
    BY <1>2, <2>1, <2>2 DEF PageInv
<1>6. QED
  BY <1>4, <1>5 DEF Jump

LEMMA LeavePage ==
  ASSUME PageInv, NEW p \in Page, Leave(p)
  PROVE  /\ PageInv'
         /\ \A a \in Asker : poll'[a] \in {poll[a], Ignore(poll[a])}
<1>1. jumps' \in [Page -> Seq(Goal)]
  BY DEF Leave, PageInv, Types
<1>2. QED
  BY <1>1, UnmountPage DEF Leave

LEMMA PageAlways == Spec => []PageInv
<1>1. Init => PageInv
  <2>1. SUFFICES ASSUME Init PROVE PageInv
    OBVIOUS
  <2>2. DOMAIN parties = {}
    BY <2>1 DEF Init, Pairing!Init
  <2>3. faults \in 0 .. MaxFaults
    BY <2>1, BoundAssumption DEF Init
  <2>4. Types
    BY <2>1, <2>2, <2>3 DEF Init, Types
  <2>5. Focus /\ Live
    BY <2>1 DEF Init, Focus, Live, Mounted
  <2>6. QED
    BY <2>4, <2>5 DEF PageInv
<1>2. PageInv /\ [Next]_vars => PageInv'
  <2>1. SUFFICES ASSUME PageInv, [Next]_vars PROVE PageInv'
    OBVIOUS
  <2>2. CASE UNCHANGED vars
    BY <2>1, <2>2 DEF vars, PageInv, Types, Focus, Live, Mounted
  <2>3. ASSUME NEW p \in Page, NEW g \in GameType, Mount(p, g) PROVE PageInv'
    BY <2>1, <2>3, MountPage
  <2>4. ASSUME NEW p \in Page, Timer(p) \/ Leave(p) PROVE PageInv'
    BY <2>1, <2>4, PollPage, JumpPage, LeavePage DEF Timer
  <2>5. ASSUME NEW a \in Asker, Dealt(a) \/ Fail(a) PROVE PageInv'
    BY <2>1, <2>5, ServePage, HearPage, HearFailurePage, FailPage DEF Dealt
  <2>6. QED
    BY <2>1, <2>2, <2>3, <2>4, <2>5 DEF Next
<1>3. QED
  BY <1>1, <1>2, PTL DEF Spec

-----------------------------------------------------------------------------
(* The lanes.                                                              *)

LEMMA BusyFinite ==
  ASSUME NEW p \in Page
  PROVE  /\ MaxPolls[p] \in Nat
         /\ IsFiniteSet(Busy(p)) /\ Cardinality(Busy(p)) \in Nat
         /\ Cardinality(Busy(p)) <= MaxPolls[p]
<1>1. MaxPolls[p] \in Nat /\ MaxPolls[p] >= 1
  BY BoundAssumption
<1>2. IsFiniteSet(1 .. MaxPolls[p]) /\ Cardinality(1 .. MaxPolls[p]) = MaxPolls[p]
  BY <1>1, FS_Interval
<1>3. Busy(p) \subseteq 1 .. MaxPolls[p]
  BY DEF Busy
<1>4. IsFiniteSet(Busy(p)) /\ Cardinality(Busy(p)) <= Cardinality(1 .. MaxPolls[p])
  BY <1>2, <1>3, FS_Subset
<1>5. QED
  BY <1>1, <1>2, <1>4, FS_CardinalityType

\* Every step but a poll and an answer frees lanes only.
LEMMA LanesFreed ==
  ASSUME PageInv, RoomInv, PageInv',
         \A a \in Asker : Active(a)' => Active(a),
         \A p \in Page : Len(jumps'[p]) <= Len(jumps[p])
  PROVE  RoomInv'
<1> SUFFICES ASSUME NEW p \in Page
             PROVE  Cardinality(Busy(p)') + Len(jumps'[p]) <= MaxPolls[p]
  BY DEF RoomInv
<1>1. Busy(p)' \subseteq Busy(p)
  BY Lanes DEF Busy
<1>2. Cardinality(Busy(p)') <= Cardinality(Busy(p)) /\ Cardinality(Busy(p)') \in Nat
  BY <1>1, BusyFinite, FS_Subset, FS_CardinalityType
<1>3. Len(jumps[p]) \in Nat /\ Len(jumps'[p]) \in Nat
  BY DEF PageInv, Types
<1>4. Cardinality(Busy(p)) + Len(jumps[p]) <= MaxPolls[p]
  BY DEF RoomInv
<1>5. QED
  BY <1>2, <1>3, <1>4, BusyFinite

\* An answer becomes a navigation at most.
LEMMA LaneHeard ==
  ASSUME PageInv, RoomInv, NEW a \in Asker, Hear(a)
  PROVE  RoomInv'
<1> SUFFICES ASSUME NEW p \in Page
             PROVE  Cardinality(Busy(p)') + Len(jumps'[p]) <= MaxPolls[p]
  BY DEF RoomInv
<1>1. /\ poll'[a] = Nothing /\ \A b \in Asker : b # a => poll'[b] = poll[b]
      /\ poll[a] \in Polls /\ poll[a].isActive /\ Match(a) \in Goal
  BY HearPage
<1>2. /\ jumps \in [Page -> Seq(Goal)] /\ a[1] \in Page
      /\ a[2] \in 1 .. MaxPolls[a[1]] /\ a = <<a[1], a[2]>>
  BY Lanes DEF PageInv, Types
<1>3. Cardinality(Busy(p)) + Len(jumps[p]) <= MaxPolls[p] /\ Len(jumps[p]) \in Nat
  BY <1>2 DEF RoomInv
<1>4. CASE p # a[1]
  <2>1. Busy(p)' = Busy(p)
    BY <1>1, <1>4, Lanes DEF Busy, Active
  <2>2. jumps'[p] = jumps[p]
    BY <1>2, <1>4 DEF Hear
  <2>3. QED
    BY <1>3, <2>1, <2>2
<1>5. CASE p = a[1]
  <2>1. a[2] \in Busy(p) /\ Busy(p)' = Busy(p) \ {a[2]}
    <3>1. Active(a) /\ ~Active(a)'
      BY <1>1 DEF Active, Hear, Heard
    <3>2. \A l \in 1 .. MaxPolls[p] : l # a[2] => <<p, l>> \in Asker /\ <<p, l>> # a
      BY <1>2, <1>5, Lanes
    <3>3. \A l \in 1 .. MaxPolls[p] : l # a[2] => Active(<<p, l>>)' = Active(<<p, l>>)
      BY <1>1, <3>2 DEF Active
    <3>4. a[2] \in 1 .. MaxPolls[p] /\ a = <<p, a[2]>>
      BY <1>2, <1>5, Zenon
    <3>5. QED
      BY <3>1, <3>3, <3>4 DEF Busy
  <2>2. Cardinality(Busy(p)') = Cardinality(Busy(p)) - 1
    <3>1. IsFiniteSet(Busy(p))
      BY BusyFinite
    <3>2. Cardinality(Busy(p) \ {a[2]}) = Cardinality(Busy(p)) - 1
      BY <2>1, <3>1, FS_RemoveElement, Zenon
    <3>3. QED
      BY <2>1, <3>2
  <2>3. Len(jumps'[p]) \in Nat /\ Len(jumps'[p]) <= Len(jumps[p]) + 1
    <3>1. CASE poll[a].answer.complete
      <4>1. jumps' = [jumps EXCEPT ![p] = Append(jumps[p], Match(a))]
        BY <1>5, <3>1 DEF Hear
      <4>2. jumps'[p] = Append(jumps[p], Match(a))
        BY <1>2, <4>1
      <4>3. QED
        BY <1>1, <1>2, <4>2
    <3>2. CASE ~poll[a].answer.complete
      BY <1>3, <3>2 DEF Hear
    <3>3. QED
      BY <3>1, <3>2
  <2>4. QED
    BY <1>3, <2>2, <2>3, BusyFinite
<1>6. QED
  BY <1>4, <1>5

\* A poll waits for the navigations of its page.
LEMMA LanePolled ==
  ASSUME PageInv, RoomInv, NEW q \in Page, Poll(q)
  PROVE  RoomInv'
<1> SUFFICES ASSUME NEW p \in Page
             PROVE  Cardinality(Busy(p)') + Len(jumps'[p]) <= MaxPolls[p]
  BY DEF RoomInv
<1>1. UNCHANGED jumps /\ jumps[q] = <<>>
  BY DEF Poll
<1>2. CASE p = q
  <2>1. Cardinality(Busy(p)') \in Nat /\ Cardinality(Busy(p)') <= MaxPolls[p]
    <3>1. Busy(p)' \subseteq 1 .. MaxPolls[p]
      BY DEF Busy
    <3>2. IsFiniteSet(1 .. MaxPolls[p]) /\ Cardinality(1 .. MaxPolls[p]) = MaxPolls[p]
      BY BoundAssumption, FS_Interval
    <3>3. QED
      BY <3>1, <3>2, FS_Subset, FS_CardinalityType
  <2>2. Len(jumps'[p]) = 0
    BY <1>1, <1>2
  <2>3. QED
    BY <2>1, <2>2, BusyFinite
<1>3. CASE p # q
  <2>1. \A l \in 1 .. MaxPolls[p] : poll'[<<p, l>>] = poll[<<p, l>>]
    BY <1>3, PollPage, Lanes
  <2>2. Busy(p)' = Busy(p)
    BY <2>1 DEF Busy, Active
  <2>3. QED
    BY <1>1, <2>2 DEF RoomInv
<1>4. QED
  BY <1>2, <1>3

LEMMA RoomStep ==
  ASSUME PageInv, RoomInv, [Next]_vars, PageInv'
  PROVE  RoomInv'
<1>1. jumps \in [Page -> Seq(Goal)] /\ \A a \in Asker : poll[a] \in Polls \cup {Nothing}
  BY DEF PageInv, Types
<1>2. \A p \in Page : Len(jumps[p]) \in Nat
  BY <1>1
<1>3. CASE UNCHANGED vars
  BY <1>2, <1>3, LanesFreed DEF vars, Active
<1>4. ASSUME NEW p \in Page, NEW g \in GameType, Mount(p, g) PROVE RoomInv'
  BY <1>2, <1>4, LanesFreed DEF Mount, Active
<1>5. \A a \in Asker : poll'[a] \in {poll[a], Ignore(poll[a])} => (Active(a)' => Active(a))
  BY <1>1, Ignored DEF Active
<1>6. ASSUME NEW p \in Page, Leave(p) PROVE RoomInv'
  BY <1>2, <1>5, <1>6, LeavePage, LanesFreed DEF Leave
<1>7. ASSUME NEW p \in Page, Jump(p) PROVE RoomInv'
  <2>1. jumps[p] # <<>> /\ jumps' = [jumps EXCEPT ![p] = Tail(jumps[p])]
    BY <1>7 DEF Jump
  <2>2. Len(Tail(jumps[p])) <= Len(jumps[p])
    BY <1>1, <2>1
  <2>3. \A q \in Page : Len(jumps'[q]) <= Len(jumps[q])
    BY <1>1, <1>2, <2>1, <2>2
  <2>4. QED
    BY <1>5, <1>7, <2>3, JumpPage, LanesFreed
<1>8. ASSUME NEW a \in Asker, NEW x \in Answers \cup {Nothing, Failure},
             poll[a] # Nothing, Reply(a, x), UNCHANGED jumps
      PROVE  RoomInv'
  <2>1. Active(a)' => Active(a)
    BY <1>8, ReplyTyped DEF Active
  <2>2. \A b \in Asker : Active(b)' => Active(b)
    BY <1>8, <2>1, ReplyTyped DEF Active
  <2>3. QED
    BY <1>2, <1>8, <2>2, LanesFreed
<1>9. ASSUME NEW a \in Asker, Serve(a) PROVE RoomInv'
  BY <1>8, <1>9, ServeTells DEF Serve
<1>10. ASSUME NEW a \in Asker, Fail(a) PROVE RoomInv'
  BY <1>8, <1>10 DEF Fail
<1>11. ASSUME NEW a \in Asker, HearFailure(a) PROVE RoomInv'
  <2>1. \A b \in Asker : Active(b)' => Active(b)
    BY <1>11, HearFailurePage DEF Active
  <2>2. UNCHANGED jumps
    BY <1>11 DEF HearFailure
  <2>3. QED
    BY <1>2, <2>1, <2>2, LanesFreed
<1>12. QED
  BY <1>3, <1>4, <1>6, <1>7, <1>9, <1>10, <1>11, LaneHeard, LanePolled
     DEF Next, Timer, Dealt

LEMMA RoomAlways == Spec => []RoomInv
<1>1. Init => RoomInv
  <2>1. SUFFICES ASSUME Init, NEW p \in Page
                 PROVE  Cardinality(Busy(p)) + Len(jumps[p]) <= MaxPolls[p]
    BY DEF RoomInv
  <2>2. Busy(p) = {}
    BY <2>1, Lanes DEF Busy, Active, Init
  <2>3. Cardinality(Busy(p)) = 0 /\ Len(jumps[p]) = 0
    BY <2>1, <2>2, FS_EmptySet DEF Init
  <2>4. QED
    BY <2>3, BusyFinite
<1>2. PageInv /\ RoomInv /\ [Next]_vars /\ PageInv' => RoomInv'
  BY RoomStep
<1>3. QED
  BY <1>1, <1>2, PageAlways, PTL DEF Spec

-----------------------------------------------------------------------------
(* The sessions.                                                           *)

LEMMA SeatsAre ==
  ASSUME NEW s \in Seats
  PROVE  /\ s \in Seq(User) /\ Len(s) \in {1, 2} /\ DOMAIN s = 1 .. Len(s)
         /\ Len(s) = 1 => \E u \in User : s = <<u>>
         /\ Len(s) = 2 => \E u, v \in User : u # v /\ s = <<u, v>>
<1>1. CASE \E u \in User : s = <<u>>
  BY <1>1
<1>2. CASE s \in {r \in User \X User : r[1] # r[2]}
  <2>1. PICK u, v \in User : u # v /\ s = <<u, v>>
    BY <1>2
  <2>2. <<u, v>> \in Seq(User) /\ Len(<<u, v>>) = 2 /\ DOMAIN <<u, v>> = 1 .. 2
    OBVIOUS
  <2>3. s \in Seq(User) /\ Len(s) = 2 /\ DOMAIN s = 1 .. 2
    BY <2>1, <2>2, Zenon
  <2>4. QED
    BY <2>1, <2>3
<1>3. QED
  BY <1>1, <1>2 DEF Seats

\* One session gets one more player, who was in none of its game type.
LEMMA SessionGrows ==
  ASSUME PartyInv, NEW u \in User, NEW g \in GameType, Pairing!Without(u, g), NEW t,
         parties' \in [DOMAIN parties \cup {t} -> Sessions],
         \A id \in DOMAIN parties : id # t => parties'[id] = parties[id],
         parties'[t].game = g,
         t \in DOMAIN parties => parties[t].game = g /\ Len(Players(t)) = 1,
         \A v : In(v, t)' <=> v = u \/ (t \in DOMAIN parties /\ In(v, t))
  PROVE  /\ PartyInv'
         /\ \A v, h, id : Full(v, h, id) => Full(v, h, id)'
<1>1. DOMAIN parties' = DOMAIN parties \cup {t}
  OBVIOUS
<1>2. \A id \in DOMAIN parties : id # t => \A v : In(v, id)' <=> In(v, id)
  BY DEF In, Players
<1>3. \A id \in DOMAIN parties : parties[id].game = g => ~In(u, id)
  BY DEF Pairing!Without, Pairing!Member, In, Players
<1>4. \A id \in DOMAIN parties : parties'[id].game = parties[id].game
  OBVIOUS
<1>5. Once'
  <2> SUFFICES ASSUME NEW id \in DOMAIN parties', NEW jd \in DOMAIN parties', NEW v \in User,
                      In(v, id)', In(v, jd)', parties'[id].game = parties'[jd].game
               PROVE  id = jd
    BY DEF Once
  <2>1. ASSUME NEW kd \in DOMAIN parties, kd # t, In(v, kd)', In(v, t)',
               parties'[kd].game = parties'[t].game
        PROVE  FALSE
    <3>1. In(v, kd) /\ parties[kd].game = g
      BY <1>2, <1>4, <2>1
    <3>2. v # u
      BY <1>3, <3>1
    <3>3. t \in DOMAIN parties /\ In(v, t) /\ parties[t].game = g
      BY <2>1, <3>2
    <3>4. QED
      BY <2>1, <3>1, <3>3 DEF PartyInv, Once
  <2>2. CASE id # t /\ jd # t
    BY <1>1, <1>2, <1>4, <2>2 DEF PartyInv, Once
  <2>3. QED
    BY <1>1, <2>1, <2>2
<1>6. PartyInv'
  BY <1>1, <1>5 DEF PartyInv
<1>7. ASSUME NEW v, NEW h, NEW id, Full(v, h, id) PROVE Full(v, h, id)'
  <2>1. id \in DOMAIN parties /\ id # t
    BY <1>7 DEF Full
  <2>2. Players(id)' = Players(id)
    BY <2>1 DEF Players
  <2>3. QED
    BY <1>1, <1>2, <1>4, <1>7, <2>1, <2>2 DEF Full
<1>8. QED
  BY <1>6, <1>7

LEMMA Opened ==
  ASSUME PartyInv, NEW u \in User, NEW g \in GameType, Pairing!Open(u, g)
  PROVE  /\ PartyInv'
         /\ \A v, h, id : Full(v, h, id) => Full(v, h, id)'
<1>1. PICK t \in Id \ DOMAIN parties :
        parties' = [id \in DOMAIN parties \cup {t} |->
                      IF id = t THEN [game |-> g, players |-> <<u>>] ELSE parties[id]]
  BY DEF Pairing!Open
<1>2. <<u>> \in Seats
  BY DEF Seats
<1>3. [game |-> g, players |-> <<u>>] \in Sessions
  BY <1>2 DEF Sessions
<1>4. parties' \in [DOMAIN parties \cup {t} -> Sessions]
  BY <1>1, <1>3 DEF PartyInv
<1>5. \A id \in DOMAIN parties : id # t => parties'[id] = parties[id]
  BY <1>1
<1>6. parties'[t] = [game |-> g, players |-> <<u>>]
  BY <1>1
<1>7. \A v : In(v, t)' <=> v = u
  <2>1. Players(t)' = <<u>>
    BY <1>6 DEF Players
  <2>2. QED
    BY <2>1 DEF In
<1>8. Pairing!Without(u, g)
  BY DEF Pairing!Open
<1>9. QED
  BY <1>1, <1>4, <1>5, <1>6, <1>7, <1>8, SessionGrows

LEMMA Joined ==
  ASSUME PartyInv, NEW u \in User, NEW g \in GameType, Pairing!Join(u, g)
  PROVE  /\ PartyInv'
         /\ \A v, h, id : Full(v, h, id) => Full(v, h, id)'
<1>1. PICK t \in DOMAIN parties :
        /\ parties[t].game = g /\ Len(parties[t].players) = 1
        /\ parties' = [parties EXCEPT ![t].players = Append(parties[t].players, u)]
  BY DEF Pairing!Join, Pairing!IsOpen
<1>2. parties \in [DOMAIN parties -> Sessions] /\ parties[t] \in Sessions
  BY DEF PartyInv
<1>3. PICK w \in User : parties[t].players = <<w>>
  BY <1>1, <1>2, SeatsAre DEF Sessions
<1>4. w # u
  <2>1. ~Pairing!Member(u, t)
    BY <1>1 DEF Pairing!Join, Pairing!Without
  <2>2. 1 \in DOMAIN parties[t].players /\ parties[t].players[1] = w
    BY <1>3
  <2>3. QED
    BY <2>1, <2>2 DEF Pairing!Member
<1>5. <<w, u>> \in Seats
  BY <1>4 DEF Seats
<1>6. parties' = [parties EXCEPT ![t] = [parties[t] EXCEPT !.players = <<w, u>>]]
  <2>1. Append(<<w>>, u) = <<w, u>>
    <3> DEFINE q == Append(<<w>>, u)
    <3>1. <<w>> \in Seq(User) /\ Len(<<w>>) = 1 /\ <<w>>[1] = w
      OBVIOUS
    <3>2. q \in Seq(User) /\ Len(q) = 2 /\ q[1] = w /\ q[2] = u
      BY <3>1, AppendProperties
    <3>3. <<w, u>> \in Seq(User) /\ Len(<<w, u>>) = 2
      OBVIOUS
    <3>4. \A i \in 1 .. 2 : q[i] = <<w, u>>[i]
      BY <3>2
    <3> HIDE DEF q
    <3>5. q = <<w, u>>
      BY <3>2, <3>3, <3>4, SeqEqual
    <3>6. QED
      BY <3>5 DEF q
  <2>2. Append(parties[t].players, u) = <<w, u>>
    BY <1>3, <2>1
  <2>3. QED
    BY <1>1, <2>2
<1>7. /\ [parties[t] EXCEPT !.players = <<w, u>>] \in Sessions
      /\ [parties[t] EXCEPT !.players = <<w, u>>].game = g
      /\ [parties[t] EXCEPT !.players = <<w, u>>].players = <<w, u>>
  BY <1>1, <1>2, <1>5 DEF Sessions
<1>8. parties' \in [DOMAIN parties \cup {t} -> Sessions]
  BY <1>2, <1>6, <1>7
<1>9. \A id \in DOMAIN parties : id # t => parties'[id] = parties[id]
  BY <1>6
<1>10. parties'[t].game = g /\ parties'[t].players = <<w, u>>
  BY <1>6, <1>7
<1>11. \A v : In(v, t)' <=> v = u \/ (t \in DOMAIN parties /\ In(v, t))
  <2>1. Players(t) = <<w>> /\ Players(t)' = <<w, u>>
    BY <1>3, <1>10 DEF Players
  <2>2. \A v : In(v, t) <=> v = w
    BY <2>1 DEF In
  <2>3. \A v : In(v, t)' <=> v = w \/ v = u
    BY <2>1 DEF In
  <2>4. QED
    BY <2>2, <2>3
<1>12. Pairing!Without(u, g) /\ Len(Players(t)) = 1
  BY <1>1 DEF Pairing!Join, Players
<1>13. QED
  BY <1>1, <1>8, <1>9, <1>10, <1>11, <1>12, SessionGrows

\* Full sessions stay as they are.
FullStays == \A u, g, id : Full(u, g, id) => Full(u, g, id)'

LEMMA Untouched ==
  ASSUME PartyInv, UNCHANGED parties
  PROVE  PartyInv' /\ FullStays
BY DEF PartyInv, Once, FullStays, Full, In, Players

LEMMA PartyStep ==
  ASSUME PageInv, PartyInv, [Next]_vars
  PROVE  PartyInv' /\ FullStays
<1>1. ASSUME NEW a \in Asker, Serve(a) PROVE PartyInv' /\ FullStays
  <2>1. Owner[a[1]] \in User /\ poll[a].game \in GameType
    BY <1>1, Lanes, ServeTells, OwnerAssumption DEF Polls
  <2>2. CASE Pairing!Open(Owner[a[1]], poll[a].game)
    BY <2>1, <2>2, Opened DEF FullStays
  <2>3. CASE Pairing!Join(Owner[a[1]], poll[a].game)
    BY <2>1, <2>3, Joined DEF FullStays
  <2>4. CASE UNCHANGED parties
    BY <2>4, Untouched
  <2>5. QED
    BY <1>1, <2>2, <2>3, <2>4 DEF Serve
<1>2. UNCHANGED parties \/ \E a \in Asker : Serve(a)
  BY DEF Next, Timer, Dealt, Mount, Poll, Leave, Hear, HearFailure, Jump, Fail, vars
<1>3. QED
  BY <1>1, <1>2, Untouched

LEMMA PartyAlways == Spec => []PartyInv
<1>1. Init => PartyInv
  <2>1. SUFFICES ASSUME Init PROVE PartyInv
    OBVIOUS
  <2>2. parties = <<>>
    BY <2>1 DEF Init, Pairing!Init
  <2>3. DOMAIN parties = {} /\ parties \in [{} -> Sessions]
    BY <2>2
  <2>4. QED
    BY <2>3 DEF PartyInv, Once
<1>2. PageInv /\ PartyInv /\ [Next]_vars => PartyInv'
  BY PartyStep
<1>3. QED
  BY <1>1, <1>2, PageAlways, PTL DEF Spec

\* Every reachable state is well typed; a page shows a game exactly when it
\* is on the game page, and never has more navigations pending than lanes.
THEOREM TypeCorrect == Spec => []TypeOK
<1>1. PageInv /\ RoomInv /\ PartyInv => TypeOK
  <2>1. SUFFICES ASSUME PageInv, RoomInv, PartyInv PROVE TypeOK
    OBVIOUS
  <2>2. ASSUME NEW id \in DOMAIN parties
        PROVE  /\ parties[id].game \in GameType
               /\ Players(id) \in Seq(User) /\ Len(Players(id)) <= 2
    <3>1. parties[id].game \in GameType /\ Players(id) \in Seats
      BY <2>1 DEF PartyInv, Sessions, Players
    <3>2. PICK n \in {1, 2} : Players(id) \in Seq(User) /\ Len(Players(id)) = n
      BY <3>1, SeatsAre
    <3>3. QED
      BY <3>1, <3>2
  <2>3. ASSUME NEW p \in Page
        PROVE  jumps[p] \in Seq(Goal) /\ Len(jumps[p]) <= MaxPolls[p]
    <3>1. jumps[p] \in Seq(Goal) /\ Len(jumps[p]) \in Nat
      BY <2>1 DEF PageInv, Types
    <3>2. Cardinality(Busy(p)) + Len(jumps[p]) <= MaxPolls[p]
      BY <2>1 DEF RoomInv
    <3>3. QED
      BY <3>1, <3>2, BusyFinite
  <2>4. QED
    BY <2>1, <2>2, <2>3 DEF PageInv, Types, Focus, TypeOK
<1>2. QED
  BY <1>1, PageAlways, RoomAlways, PartyAlways, PTL

-----------------------------------------------------------------------------
(* What a page is told, and where it goes.                                 *)

\* An answer that stays, is consumed or ignored.
LEMMA OldAnswer ==
  ASSUME PageInv, Told, FullStays, NEW a \in Asker,
         poll'[a] \in {poll[a], Nothing, Ignore(poll[a])}
  PROVE  TrueAnswer(a)'
<1>1. CASE poll'[a] = poll[a]
  BY <1>1 DEF Told, TrueAnswer, Heard, FullStays
<1>2. CASE poll'[a] = Nothing
  BY <1>2 DEF TrueAnswer, Heard
<1>3. CASE poll'[a] = Ignore(poll[a])
  <2>1. poll'[a] = Nothing \/ poll'[a].answer = Nothing
    BY <1>3, Ignored DEF PageInv, Types
  <2>2. QED
    BY <2>1, NothingAssumption DEF TrueAnswer, Heard
<1>4. QED
  BY <1>1, <1>2, <1>3

LEMMA AnswersStay ==
  ASSUME PageInv, PartyInv, PartyInv', Told, FullStays, [Next]_vars, NEW b \in Asker
  PROVE  TrueAnswer(b)'
<1>1. CASE UNCHANGED vars
  BY <1>1, OldAnswer DEF vars
<1>2. ASSUME NEW p \in Page, NEW g \in GameType, Mount(p, g) PROVE TrueAnswer(b)'
  BY <1>2, OldAnswer DEF Mount
<1>3. ASSUME NEW p \in Page, Poll(p) PROVE TrueAnswer(b)'
  <2>1. PICK l \in 1 .. MaxPolls[p] :
          /\ poll'[<<p, l>>] = [isActive |-> TRUE, game |-> game[p], answer |-> Nothing]
          /\ \A a \in Asker : a # <<p, l>> => poll'[a] = poll[a]
    BY <1>3, PollPage
  <2>2. CASE b = <<p, l>>
    BY <2>1, <2>2, NothingAssumption DEF TrueAnswer, Heard
  <2>3. CASE b # <<p, l>>
    BY <2>1, <2>3, OldAnswer
  <2>4. QED
    BY <2>2, <2>3
<1>4. ASSUME NEW p \in Page, Leave(p) \/ Jump(p) PROVE TrueAnswer(b)'
  BY <1>4, LeavePage, JumpPage, OldAnswer
<1>5. ASSUME NEW a \in Asker, Hear(a) \/ HearFailure(a) PROVE TrueAnswer(b)'
  BY <1>5, HearPage, HearFailurePage, OldAnswer
<1>6. ASSUME NEW a \in Asker, NEW x \in Answers \cup {Nothing, Failure},
             poll[a] # Nothing, Reply(a, x), b # a \/ ~poll[a].isActive
      PROVE  TrueAnswer(b)'
  BY <1>6, ReplyTyped, OldAnswer
<1>7. ASSUME NEW a \in Asker, NEW x \in Answers \cup {Nothing, Failure},
             poll[a] # Nothing, Reply(a, x), b = a, poll[a].isActive
      PROVE  poll'[b].answer = x /\ poll'[b].game = poll[a].game
  <2>1. poll[a] \in Polls /\ poll'[b] = [poll[a] EXCEPT !.answer = x]
    BY <1>7, ReplyTyped DEF PageInv, Types
  <2>2. QED
    BY <2>1 DEF Polls
<1>8. ASSUME NEW a \in Asker, Serve(a) PROVE TrueAnswer(b)'
  <2>1. PICK x \in Answers :
          /\ Reply(a, x) /\ x.session \in DOMAIN parties'
          /\ Member(Owner[a[1]], poll[a].game, x.session)
          /\ x.complete <=> Len(parties'[x.session].players) = 2
    BY <1>8, ServeTells
  <2>2. poll[a] # Nothing
    BY <1>8 DEF Serve
  <2>3. CASE b # a \/ ~poll[a].isActive
    BY <1>6, <2>1, <2>2, <2>3
  <2>4. CASE b = a /\ poll[a].isActive
    <3>1. poll'[b].answer = x /\ poll'[b].game = poll[a].game
      BY <1>7, <2>1, <2>2, <2>4
    <3>2. PICK g : g = poll[a].game
      OBVIOUS
    <3>3. x.complete => Full(Owner[a[1]], g, x.session)'
      BY <2>1, <3>2 DEF Member, Full, In, Players
    <3>4. poll'[b].game = g
      BY <3>1, <3>2
    <3>5. QED
      BY <2>4, <3>1, <3>3, <3>4 DEF TrueAnswer
  <2>5. QED
    BY <2>3, <2>4
<1>9. ASSUME NEW a \in Asker, Fail(a) PROVE TrueAnswer(b)'
  <2>1. CASE b # a \/ ~poll[a].isActive
    BY <1>6, <1>9, <2>1 DEF Fail
  <2>2. CASE b = a /\ poll[a].isActive
    BY <1>7, <1>9, <2>2, NothingAssumption DEF Fail, TrueAnswer, Heard
  <2>3. QED
    BY <2>1, <2>2
<1>10. QED
  BY <1>1, <1>2, <1>3, <1>4, <1>5, <1>8, <1>9 DEF Next, Timer, Dealt

LEMMA GoalsStay ==
  ASSUME PageInv, Told, FullStays, [Next]_vars, NEW p \in Page, NEW x \in Going(p)'
  PROVE  Full(Owner[p], x.game, x.session)'
<1>1. jumps \in [Page -> Seq(Goal)] /\ shown \in [Page -> Goal \cup {Nothing}]
  BY DEF PageInv, Types
<1>2. CASE x \in Going(p)
  BY <1>2 DEF Told, FullStays
<1>3. ASSUME jumps'[p] = jumps[p], shown'[p] \in {shown[p], Nothing}
      PROVE  x \in Going(p)
  BY <1>3 DEF Going
<1>4. ASSUME NEW a \in Asker, Hear(a), x \notin Going(p) PROVE Full(Owner[p], x.game, x.session)'
  <2>1. Match(a) \in Goal /\ a[1] \in Page /\ UNCHANGED shown
    BY <1>4, HearPage, Lanes DEF Hear
  <2>2. poll[a].answer.complete /\ p = a[1]
    BY <1>1, <1>3, <1>4 DEF Hear
  <2>3. jumps'[p] = Append(jumps[p], Match(a))
    <3>1. jumps' = [jumps EXCEPT ![p] = Append(jumps[p], Match(a))]
      BY <1>4, <2>2 DEF Hear
    <3>2. QED
      BY <1>1, <3>1
  <2>4. x = Match(a)
    <3>1. \A i \in DOMAIN jumps'[p] : jumps'[p][i] = Match(a) \/ jumps'[p][i] \in Going(p)
      BY <1>1, <2>1, <2>3 DEF Going
    <3>2. QED
      BY <1>4, <2>1, <3>1 DEF Going
  <2>5. x.game = poll[a].game /\ x.session = poll[a].answer.session
    BY <2>4 DEF Match
  <2>6. Full(Owner[p], x.game, x.session)
    BY <1>4, <2>2, <2>5 DEF Told, TrueAnswer, Hear
  <2>7. QED
    BY <2>6 DEF FullStays
<1>5. ASSUME NEW q \in Page, Jump(q) PROVE x \in Going(p)
  <2>1. jumps[q] # <<>> /\ jumps' = [jumps EXCEPT ![q] = Tail(jumps[q])]
    BY <1>5 DEF Jump
  <2>2. CASE p # q
    <3>1. jumps'[p] = jumps[p]
      BY <1>1, <2>1, <2>2
    <3>2. shown'[p] = shown[p]
      BY <1>1, <1>5, <2>2 DEF Jump, Unmount, page
    <3>3. QED
      BY <1>3, <3>1, <3>2
  <2>3. CASE p = q
    <3>1. /\ jumps[p] \in Seq(Goal) /\ jumps[p] # <<>> /\ jumps'[p] = Tail(jumps[p])
      BY <1>1, <2>1, <2>3
    <3>2. /\ 1 \in DOMAIN jumps[p] /\ Head(jumps[p]) = jumps[p][1]
          /\ \A i \in DOMAIN jumps'[p] : i + 1 \in DOMAIN jumps[p] /\ jumps'[p][i] = jumps[p][i + 1]
      BY <3>1
    <3>3. shown'[p] = shown[p] \/ shown'[p] = Head(jumps[p])
      BY <1>1, <1>5, <2>3 DEF Jump, Unmount, page
    <3>4. QED
      BY <3>2, <3>3 DEF Going
  <2>4. QED
    BY <2>2, <2>3
<1>6. ASSUME NEW q \in Page, NEW g \in GameType, Mount(q, g) PROVE x \in Going(p)
  BY <1>1, <1>3, <1>6 DEF Mount
<1>7. ASSUME NEW q \in Page, Leave(q) PROVE x \in Going(p)
  BY <1>1, <1>3, <1>7 DEF Leave, Unmount
<1>8. ASSUME UNCHANGED <<jumps, shown>> PROVE x \in Going(p)
  BY <1>3, <1>8
<1>9. QED
  BY <1>2, <1>4, <1>5, <1>6, <1>7, <1>8
     DEF Next, Timer, Dealt, Poll, HearFailure, Serve, Fail, page, vars

LEMMA ToldAlways == Spec => []Told
<1>1. Init => Told
  <2>1. SUFFICES ASSUME Init PROVE Told
    OBVIOUS
  <2>2. \A a \in Asker : TrueAnswer(a)
    BY <2>1 DEF Init, TrueAnswer, Heard
  <2>3. \A p \in Page : Going(p) = {}
    <3>1. \A p \in Page : jumps[p] = <<>> /\ shown[p] = Nothing
      BY <2>1 DEF Init
    <3>2. DOMAIN <<>> = {}
      OBVIOUS
    <3>3. QED
      BY <3>1, <3>2, Zenon DEF Going
  <2>4. QED
    BY <2>2, <2>3 DEF Told
<1>2. PageInv /\ PartyInv /\ Told /\ [Next]_vars /\ PartyInv' => Told'
  <2>1. SUFFICES ASSUME PageInv, PartyInv, Told, [Next]_vars, PartyInv' PROVE Told'
    OBVIOUS
  <2>2. FullStays
    BY <2>1, PartyStep
  <2>3. \A a \in Asker : TrueAnswer(a)'
    BY <2>1, <2>2, AnswersStay
  <2>4. \A p \in Page : \A x \in Going(p)' : Full(Owner[p], x.game, x.session)'
    BY <2>1, <2>2, GoalsStay
  <2>5. QED
    BY <2>3, <2>4 DEF Told
<1>3. QED
  BY <1>1, <1>2, PageAlways, PartyAlways, PTL DEF Spec

\* Wherever the pages of a user are, and are going, for one game type.  With
\* three users there is another session that a late poll could lead to.
OneDestination ==
  \A p, q \in Page : Owner[p] = Owner[q] =>
    \A x \in Going(p), y \in Going(q) : x.game = y.game => x.session = y.session

\* It is one session, for any number of users, pages, overlapping polls and
\* failures.
THEOREM OneSession == Spec => []OneDestination
<1>1. PartyInv /\ Told => OneDestination
  <2>1. SUFFICES ASSUME PartyInv, Told, NEW p \in Page, NEW q \in Page, Owner[p] = Owner[q],
                        NEW x \in Going(p), NEW y \in Going(q), x.game = y.game
                 PROVE  x.session = y.session
    BY DEF OneDestination
  <2>2. Full(Owner[p], x.game, x.session) /\ Full(Owner[p], x.game, y.session)
    BY <2>1, Zenon DEF Told
  <2>3. Owner[p] \in User
    BY <2>1, OwnerAssumption
  <2>4. QED
    BY <2>1, <2>2, <2>3 DEF Full, PartyInv, Once
<1>2. QED
  BY <1>1, PartyAlways, ToldAlways, PTL

\* Nobody goes to a game without an opponent, or to another's game.
THEOREM NeverAlone == Spec => []OpponentThere
<1>1. PartyInv /\ Told => OpponentThere
  <2>1. SUFFICES ASSUME PartyInv, Told, NEW p \in Page, NEW x \in Going(p)
                 PROVE  /\ x.session \in DOMAIN parties /\ parties[x.session].game = x.game
                        /\ \E i, j \in DOMAIN Players(x.session) :
                             Players(x.session)[i] = Owner[p] /\ Players(x.session)[j] # Owner[p]
    BY DEF OpponentThere
  <2>2. Full(Owner[p], x.game, x.session)
    BY <2>1 DEF Told
  <2>3. x.session \in DOMAIN parties /\ parties[x.session].game = x.game
    BY <2>2 DEF Full
  <2>4. Players(x.session) \in Seats
    BY <2>1, <2>3 DEF PartyInv, Sessions, Players
  <2>5. PICK u, v \in User : u # v /\ Players(x.session) = <<u, v>>
    BY <2>2, <2>4, SeatsAre DEF Full
  <2>6. Owner[p] \in {u, v}
    BY <2>2, <2>5 DEF Full, In
  <2>7. /\ DOMAIN Players(x.session) = {1, 2}
        /\ Players(x.session)[1] = u /\ Players(x.session)[2] = v
    BY <2>5
  <2>8. QED
    BY <2>3, <2>5, <2>6, <2>7
<1>2. QED
  BY <1>1, PartyAlways, ToldAlways, PTL

=============================================================================
