-------------------------- MODULE MatchmakingProofs --------------------------
(***************************************************************************)
(* What the calls of SessionService promise together, for every set of     *)
(* threads, users, game types and every bound: seats are kept, answers are *)
(* true, waiting entries and half-full sessions are one to one, and the    *)
(* whole implements Matchmaking.                                           *)
(*                                                                         *)
(* Every theorem says which failures its argument bears.                   *)
(***************************************************************************)
EXTENDS SessionServiceProofs

\* Nobody is called the empty string: no name is lost in the joined list.
LEMMA SplitWhole ==
  ASSUME NoName \notin User, NEW p \in Players
  PROVE  Split(p) = p
<1>1. p # <<>> => p[Len(p)] \in User
  BY DEF Players
<1> QED
  BY <1>1 DEF Split

\* What a thread inside the critical section knows of its call.
LEMMA Serving ==
  ASSUME TypeOK, NEW w \in Worker, ~Idle(w)
  PROVE  /\ call[w] \in Call /\ call[w].user \in User /\ call[w].game \in GameType
         /\ Located(w) => found[w] \in SessionId
         /\ party[w] \in Players
BY DEF TypeOK, ThreadsOK, Call

-----------------------------------------------------------------------------
(* Seats.                                                                  *)

\* The two steps that write to the sessions table: a new session takes the
\* place of none, and a joining user comes after the player who waits.
Grows ==
  \A id \in DOMAIN sessions :
    /\ id \in DOMAIN sessions'
    /\ sessions'[id].game = sessions[id].game
    /\ \A i \in DOMAIN sessions[id].players :
         /\ i \in DOMAIN sessions'[id].players
         /\ sessions'[id].players[i] = sessions[id].players[i]

LEMMA StepGrows ==
  ASSUME Event \subseteq {"failScan", "failGet", "loseWrite"}, NoName \notin User,
         TypeOK, PairInv, [Next]_vars
  PROVE  Grows
<1>1. CASE UNCHANGED sessions
  BY <1>1 DEF Grows
<1>2. ASSUME NEW w \in Worker, PutSession(w) PROVE Grows
  <2>1. found[w] \notin DOMAIN sessions
    BY <1>2 DEF PairInv, ThreadInv, PutSession
  <2>2. \/ UNCHANGED sessions
        \/ sessions' = Put(sessions, found[w], [game |-> call[w].game,
                                                players |-> <<call[w].user>>])
    BY <1>2 DEF PutSession, Write
  <2> QED
    BY <1>1, <2>1, <2>2 DEF Put, Grows
<1>3. ASSUME NEW w \in Worker, UpdateSession(w) PROVE Grows
  <2> DEFINE joined == Append(party[w], call[w].user)
  <2>1. /\ found[w] \in DOMAIN sessions /\ Len(party[w]) = 1
        /\ party[w] = Split(sessions[found[w]].players)
    BY <1>3 DEF PairInv, ThreadInv, UpdateSession
  <2>2. sessions[found[w]].players \in Players
    BY <2>1 DEF TypeOK, TablesOK, Tables, Session
  <2>3. party[w] = sessions[found[w]].players
    BY <2>1, <2>2, SplitWhole
  <2>4. /\ joined \in Players /\ Len(joined) = 2 /\ joined[1] = party[w][1]
    BY <1>3, <2>1, Serving, AppendSecond DEF UpdateSession, Idle
  <2> HIDE DEF joined
  <2>5. DOMAIN party[w] = {1} /\ DOMAIN joined = {1, 2}
    BY <2>1, <2>2, <2>3, <2>4 DEF Players
  <2>6. \/ UNCHANGED sessions
        \/ sessions' = [sessions EXCEPT ![found[w]] =
                          [game |-> @.game, players |-> joined]]
    BY <1>3 DEF UpdateSession, Write, joined
  <2> QED
    BY <1>1, <2>1, <2>3, <2>4, <2>5, <2>6 DEF Grows
<1>4. UNCHANGED sessions \/ \E w \in Worker : PutSession(w) \/ UpdateSession(w)
  BY DEF Next, Serve, Request, Lock, Scan, GetWaiting, PutWaiting, GetSession,
         DeleteWaiting, Write, Signup, Tick, Restart, CatchUp, vars, tables
<1> QED
  BY <1>1, <1>2, <1>3, <1>4

\* Whoever got into a session keeps his seat, although scans and reads of the
\* waiting table fail and writes are lost: findOrCreateSession puts a session only
\* under a new identifier, and sets players to the list it read and one more.
\* With fresh identifiers no session at all is replaced.
THEOREM SeatsKept ==
  ASSUME Event \subseteq {"failScan", "failGet", "loseWrite"}, NoName \notin User
  PROVE  Spec => PlayersOnlyJoin /\ [][Grows]_vars
<1>1. TypeOK /\ PairInv /\ [Next]_vars => Grows
  BY StepGrows
<1>2. Grows => \A id \in DOMAIN sessions :
                 /\ id \in DOMAIN sessions'
                 /\ \/ Replaced(id)
                    \/ /\ sessions'[id].game = sessions[id].game
                       /\ \A i \in DOMAIN sessions[id].players :
                            /\ i \in DOMAIN sessions'[id].players
                            /\ sessions'[id].players[i] = sessions[id].players[i]
  BY DEF Grows
<1> QED
  BY <1>1, <1>2, TypeCorrect, PairAlways, PTL DEF Spec, PlayersOnlyJoin

-----------------------------------------------------------------------------
(* Answers.                                                                *)

\* Once the write of its session is done, the user of a call has a seat in
\* the session that the call will return.
Seated(w) ==
  pc[w] \in {"putWaiting", "deleteWaiting"} =>
    /\ found[w] \in DOMAIN sessions
    /\ sessions[found[w]].game = call[w].game
    /\ InSession(call[w].user, found[w])
    /\ pc[w] = "deleteWaiting" => Len(sessions[found[w]].players) = 2

\* What an answer says, of the tables as they are.
Stated(u, g, id, matched) ==
  /\ id \in DOMAIN sessions
  /\ sessions[id].game = g
  /\ InSession(u, id)
  /\ matched => Len(sessions[id].players) = 2

Shape == SessionShape /\ \A id \in DOMAIN sessions : sessions[id].players \in Players

LEMMA StatedKept ==
  ASSUME Grows, Shape, Shape', NEW u, NEW g, NEW id, NEW matched,
         Stated(u, g, id, matched)
  PROVE  Stated(u, g, id, matched)'
<1>1. /\ id \in DOMAIN sessions /\ id \in DOMAIN sessions'
      /\ sessions'[id].game = g
      /\ DOMAIN sessions[id].players \subseteq DOMAIN sessions'[id].players
  BY DEF Stated, Grows
<1>2. InSession(u, id)'
  BY DEF Stated, Grows, InSession
<1>3. matched => Len(sessions'[id].players) = 2
  <2>1. ASSUME Len(sessions[id].players) = 2 PROVE Len(sessions'[id].players) = 2
    <3>1. /\ sessions[id].players \in Players /\ sessions'[id].players \in Players
          /\ Len(sessions'[id].players) \in {1, 2}
      BY <1>1 DEF Shape, SessionShape
    <3>2. 2 \in DOMAIN sessions'[id].players
      BY <1>1, <2>1, <3>1 DEF Players
    <3> QED
      BY <3>1, <3>2 DEF Players
  <2> QED
    BY <2>1 DEF Stated
<1> QED
  BY <1>1, <1>2, <1>3 DEF Stated

\* A new answer that says yes is true when it is given.  No name is a part
\* of another, so that the filter of the scan finds own sessions only.
LEMMA NewAnswer ==
  ASSUME Event \subseteq {"failScan", "failGet"}, NoName \notin User, SubName = {},
         TypeOK, PairInv, \A w \in Worker : Seated(w), Shape, [Next]_vars,
         NEW w \in Worker, answer'[w] # answer[w]
  PROVE  \/ answer'[w] = NoAnswer \/ answer'[w].status = 400
         \/ Stated(answer'[w].user, answer'[w].game, answer'[w].session,
                   answer'[w].matched)
<1>0. answer \in [Worker -> Answer \cup {NoAnswer}]
  BY DEF TypeOK, ThreadsOK
<1>1. ASSUME NEW v \in Worker, NEW u \in User, NEW g \in GameType, Request(v, u, g)
      PROVE  answer'[w] = NoAnswer
  BY <1>0, <1>1 DEF Request
<1>2. \A v \in Worker : ~Idle(v) => call[v].user # NoName
  BY Serving
<1>3. ASSUME NEW v \in Worker, Scan(v)
      PROVE  Stated(answer'[w].user, answer'[w].game, answer'[w].session,
                    answer'[w].matched)
  <2>1. PICK t \in Readable : \E id \in DOMAIN t.sessions :
          /\ t.sessions[id].game = call[v].game
          /\ Contains(t.sessions[id].players, call[v].user)
          /\ Return(v, 200, id, Len(Split(t.sessions[id].players)) = 2)
    BY <1>3 DEF Scan, Fault
  <2>2. t.sessions = sessions
    BY DEF PairInv, TableInv, Readable, Tables
  <2>3. PICK id \in DOMAIN sessions :
          /\ sessions[id].game = call[v].game
          /\ Contains(sessions[id].players, call[v].user)
          /\ Return(v, 200, id, Len(Split(sessions[id].players)) = 2)
    BY <2>1, <2>2
  <2>4. sessions[id].players \in Players /\ InSession(call[v].user, id)
    BY <2>3 DEF Shape, Contains, InSession
  <2>5. ~Idle(v)
    BY <1>3 DEF Scan, Idle
  <2>6. /\ v = w
        /\ answer'[w] = [user |-> call[w].user, game |-> call[w].game,
                         status |-> 200, session |-> id,
                         matched |-> Len(Split(sessions[id].players)) = 2]
    BY <1>0, <1>2, <2>3, <2>5 DEF Return, Respond
  <2>7. /\ answer'[w].user = call[w].user /\ answer'[w].game = call[w].game
        /\ answer'[w].session = id
        /\ answer'[w].matched = (Len(sessions[id].players) = 2)
    BY <2>4, <2>6, SplitWhole
  <2> QED
    BY <2>3, <2>4, <2>6, <2>7 DEF Stated
<1>4. ASSUME NEW v \in Worker, PutWaiting(v)
      PROVE  Stated(answer'[w].user, answer'[w].game, answer'[w].session,
                    answer'[w].matched)
  <2>1. ~Idle(v) /\ pc[v] = "putWaiting" /\ Return(v, 200, found[v], FALSE)
    BY <1>4 DEF PutWaiting, Idle
  <2>2. /\ v = w
        /\ answer'[w] = [user |-> call[w].user, game |-> call[w].game,
                         status |-> 200, session |-> found[w], matched |-> FALSE]
    BY <1>0, <1>2, <2>1 DEF Return, Respond
  <2> QED
    BY <2>1, <2>2 DEF Seated, Stated
<1>5. ASSUME NEW v \in Worker, DeleteWaiting(v)
      PROVE  Stated(answer'[w].user, answer'[w].game, answer'[w].session,
                    answer'[w].matched)
  <2>1. ~Idle(v) /\ pc[v] = "deleteWaiting" /\ Return(v, 200, found[v], TRUE)
    BY <1>5 DEF DeleteWaiting, Idle
  <2>2. /\ v = w
        /\ answer'[w] = [user |-> call[w].user, game |-> call[w].game,
                         status |-> 200, session |-> found[w], matched |-> TRUE]
    BY <1>0, <1>2, <2>1 DEF Return, Respond
  <2> QED
    BY <2>1, <2>2 DEF Seated, Stated
<1>6. ASSUME NEW v \in Worker, GetSession(v) PROVE answer'[w].status = 400
  <2>1. ~Idle(v) /\ Return(v, 400, NoSession, FALSE)
    BY <1>6 DEF GetSession, Idle
  <2> QED
    BY <1>0, <1>2, <2>1 DEF Return, Respond
<1>7. ~ \E v \in Worker : Lock(v) \/ GetWaiting(v) \/ PutSession(v) \/ UpdateSession(v)
  BY DEF Lock, GetWaiting, PutSession, UpdateSession
<1> QED
  BY <1>1, <1>3, <1>4, <1>5, <1>6, <1>7
     DEF Next, Serve, Signup, Tick, Restart, CatchUp, server, vars

\* A thread comes to its last write by the write of its session only.
LEMMA Arrives ==
  ASSUME TypeOK, [Next]_vars, NEW w \in Worker,
         pc'[w] \in {"putWaiting", "deleteWaiting"}
  PROVE  \/ PutSession(w) \/ UpdateSession(w)
         \/ pc'[w] = pc[w] /\ call'[w] = call[w] /\ found'[w] = found[w]
<1> USE DEF tables, server, locals, env, rng
<1>0. ThreadsOK
  BY DEF TypeOK
<1>1. ASSUME NEW v \in Worker, NEW u \in User, NEW g \in GameType, Request(v, u, g)
      PROVE  pc'[w] = pc[w] /\ call'[w] = call[w] /\ found'[w] = found[w]
  BY <1>0, <1>1 DEF Request, Goto, ThreadsOK
<1>2. ASSUME NEW v \in Worker,
             Lock(v) \/ Scan(v) \/ GetWaiting(v) \/ PutWaiting(v)
               \/ GetSession(v) \/ DeleteWaiting(v)
      PROVE  pc'[w] = pc[w] /\ call'[w] = call[w] /\ found'[w] = found[w]
  <2>1. /\ pc' = [pc EXCEPT ![v] = pc'[v]]
        /\ pc'[v] \in {"scan", "idle", "getWaiting", "putSession",
                        "getSession", "updateSession"}
    BY <1>0, <1>2 DEF Lock, Scan, GetWaiting, PutWaiting, GetSession,
                      DeleteWaiting, Return, Goto, ThreadsOK
  <2>2. v # w
    BY <2>1
  <2> QED
    BY <1>0, <1>2, <2>1, <2>2
       DEF Lock, Scan, GetWaiting, PutWaiting, GetSession, DeleteWaiting,
           Return, DrawId, ThreadsOK
<1>3. ASSUME NEW v \in Worker \ {w}, PutSession(v) \/ UpdateSession(v)
      PROVE  pc'[w] = pc[w] /\ call'[w] = call[w] /\ found'[w] = found[w]
  BY <1>0, <1>3 DEF PutSession, UpdateSession, Goto, ThreadsOK
<1>4. ~Restart
  BY DEF Restart
<1> QED
  BY <1>1, <1>2, <1>3, <1>4 DEF Next, Serve, Signup, Tick, CatchUp, vars

LEMMA StepSeated ==
  ASSUME Event \subseteq {"failScan", "failGet"}, NoName \notin User,
         TypeOK, TypeOK', SessionShape, SessionShape', PairInv,
         \A w \in Worker : Seated(w), [Next]_vars, NEW w \in Worker
  PROVE  Seated(w)'
<1>0. Grows /\ Shape /\ Shape'
  BY StepGrows DEF Shape, TypeOK, TablesOK, Tables, Session
<1>1. CASE PutSession(w)
  <2>1. /\ sessions' = Put(sessions, found[w], [game |-> call[w].game,
                                               players |-> <<call[w].user>>])
        /\ found' = found /\ call' = call
        /\ pc' = [pc EXCEPT ![w] = "putWaiting"]
    BY <1>1 DEF PutSession, Write, Fault, locals, Goto
  <2>2. /\ found[w] \in DOMAIN sessions'
        /\ sessions'[found[w]].game = call[w].game
        /\ sessions'[found[w]].players = <<call[w].user>>
    BY <2>1 DEF Put
  <2>3. pc'[w] = "putWaiting"
    BY <2>1 DEF TypeOK, ThreadsOK
  <2> QED
    BY <2>1, <2>2, <2>3 DEF Seated, InSession
<1>2. CASE UpdateSession(w)
  <2> DEFINE joined == Append(party[w], call[w].user)
  <2>1. /\ sessions' = [sessions EXCEPT ![found[w]] =
                          [game |-> @.game, players |-> joined]]
        /\ found' = found /\ call' = call
    BY <1>2 DEF UpdateSession, Write, Fault, locals
  <2>2. /\ found[w] \in DOMAIN sessions /\ Len(party[w]) = 1
        /\ sessions[found[w]].game = call[w].game
    BY <1>2 DEF PairInv, ThreadInv, UpdateSession
  <2>3. joined \in Players /\ Len(joined) = 2 /\ joined[2] = call[w].user
    BY <1>2, <2>2, Serving, AppendSecond DEF UpdateSession, Idle
  <2> HIDE DEF joined
  <2>4. /\ found[w] \in DOMAIN sessions'
        /\ sessions'[found[w]].game = call[w].game
        /\ sessions'[found[w]].players = joined
    BY <2>1, <2>2
  <2>5. 2 \in DOMAIN joined
    BY <2>3 DEF Players
  <2> QED
    BY <2>1, <2>3, <2>4, <2>5 DEF Seated, InSession
<1>3. CASE /\ pc'[w] = pc[w] /\ call'[w] = call[w] /\ found'[w] = found[w]
           /\ pc[w] \in {"putWaiting", "deleteWaiting"}
  <2>1. PICK u, g, id, full : u = call[w].user /\ g = call[w].game /\ id = found[w]
                              /\ full = (pc[w] = "deleteWaiting")
    OBVIOUS
  <2>2. Stated(u, g, id, full)
    BY <1>3, <2>1 DEF Seated, Stated
  <2>3. Stated(u, g, id, full)'
    BY <1>0, <2>2, StatedKept
  <2> QED
    BY <1>3, <2>1, <2>3 DEF Seated, Stated
<1> QED
  BY <1>1, <1>2, <1>3, Arrives DEF Seated

TruthInv == AnswerTrue /\ \A w \in Worker : Seated(w)

LEMMA StepTruth ==
  ASSUME Event \subseteq {"failScan", "failGet"}, NoName \notin User, SubName = {},
         TypeOK, TypeOK', SessionShape, SessionShape', PairInv, TruthInv, [Next]_vars
  PROVE  TruthInv'
<1>0. /\ Grows /\ Shape /\ Shape'
      /\ AnswerTrue /\ \A w \in Worker : Seated(w)
  BY StepGrows DEF Shape, TypeOK, TablesOK, Tables, Session, TruthInv
<1>1. \A w \in Worker : Seated(w)'
  BY <1>0, StepSeated
<1>2. ASSUME NEW w \in Worker, answer'[w] # NoAnswer, answer'[w].status = 200
      PROVE  Stated(answer[w].user, answer[w].game, answer[w].session,
                    answer[w].matched)'
  <2>1. PICK r : r = answer'[w]
    OBVIOUS
  <2>2. Stated(r.user, r.game, r.session, r.matched)
    <3>1. CASE answer'[w] = answer[w]
      BY <1>0, <1>2, <2>1, <3>1 DEF AnswerTrue, Stated
    <3>2. CASE answer'[w] # answer[w]
      BY <1>0, <1>2, <2>1, <3>2, NewAnswer
    <3> QED
      BY <3>1, <3>2
  <2>3. Stated(r.user, r.game, r.session, r.matched)'
    BY <1>0, <2>2, StatedKept
  <2> QED
    BY <2>1, <2>3 DEF Stated, InSession
<1> QED
  BY <1>1, <1>2 DEF TruthInv, AnswerTrue, Stated

LEMMA TruthAlways ==
  ASSUME Event \subseteq {"failScan", "failGet"}, NoName \notin User, SubName = {}
  PROVE  Spec => []TruthInv
<1>1. Init => TruthInv
  BY DEF Init, TruthInv, AnswerTrue, Seated
<1>2. TypeOK /\ TypeOK' /\ SessionShape /\ SessionShape' /\ PairInv /\ TruthInv
        /\ [Next]_vars => TruthInv'
  BY StepTruth
<1>3. Spec => []PairInv
  BY PairAlways
<1> QED
  BY <1>1, <1>2, <1>3, TypeCorrect, ShapeSafe, PTL DEF Spec

\* What start_or_join answered is and stays true, although scans and reads of
\* the waiting table fail, as long as no name is a part of another: the answer
\* is sent after the writes, and no later call takes them back.
THEOREM AnswersTrue ==
  ASSUME Event \subseteq {"failScan", "failGet"}, NoName \notin User, SubName = {}
  PROVE  Spec => []AnswerTrue
<1>1. TruthInv => AnswerTrue
  BY DEF TruthInv
<1> QED
  BY <1>1, TruthAlways, PTL

\* Whatever threads answer the overlapping polls of a user, they name one
\* session: each answer is true, and he is in no other.
THEOREM AnswersAgree ==
  ASSUME Event \subseteq {"failGet"}, NoName \notin User, SubName = {}
  PROVE  Spec => []OneAnswer
<1>1. TypeOK /\ AnswerTrue /\ OneSessionPerUser => OneAnswer
  <2> SUFFICES ASSUME TypeOK, AnswerTrue, OneSessionPerUser,
                      NEW v \in Worker, NEW w \in Worker, Positive(v), Positive(w),
                      answer[v].user = answer[w].user, answer[v].game = answer[w].game
               PROVE  answer[v].session = answer[w].session
    BY DEF OneAnswer
  <2>1. /\ answer[v].session \in DOMAIN sessions /\ answer[w].session \in DOMAIN sessions
        /\ sessions[answer[v].session].game = sessions[answer[w].session].game
        /\ InSession(answer[v].user, answer[v].session)
        /\ InSession(answer[v].user, answer[w].session)
    BY DEF AnswerTrue, Positive
  <2>2. answer[v].user \in User
    BY DEF TypeOK, ThreadsOK, Answer, Positive
  <2> QED
    BY <2>1, <2>2 DEF OneSessionPerUser
<1>2. Event \subseteq {"failScan", "failGet"} /\ Event \subseteq {"failGet", "loseWrite"}
  OBVIOUS
<1> QED
  BY <1>1, <1>2, TypeCorrect, AnswersTrue, OneSession, PTL

-----------------------------------------------------------------------------
(* Waiting entries and half-full sessions, when only scans fail.           *)
(*                                                                         *)
(* The two tables agree on a game type except between the two writes of a  *)
(* call.  In between, the thread knows how they differ.                    *)

HalfFull(id, g) == /\ id \in DOMAIN sessions
                   /\ sessions[id].game = g
                   /\ Len(sessions[id].players) = 1

Agreed(g) == \A id \in SessionId : waiting[g] = id <=> HalfFull(id, g)

Updating(w, g) == pc[w] \in {"putWaiting", "deleteWaiting"} /\ call[w].game = g

Known(w) ==
  /\ pc[w] \in {"putSession", "putWaiting"} => waiting[call[w].game] = NoSession
  /\ pc[w] = "putWaiting" =>
       \A id \in SessionId : HalfFull(id, call[w].game) <=> id = found[w]
  /\ pc[w] \in {"getSession", "updateSession"} => waiting[call[w].game] = found[w]
  /\ pc[w] = "deleteWaiting" =>
       \A id \in SessionId : ~HalfFull(id, call[w].game)

Unanswered == \A w \in Worker : ~Idle(w) => answer[w] = NoAnswer

\* A scan that fails sends a user to the session where he waits.
Kind == "failScan" \notin Event => Unanswered /\ NobodyRefused

MatchInv ==
  /\ \A g \in GameType : Agreed(g) \/ \E w \in Worker : Updating(w, g)
  /\ \A w \in Worker : Known(w)
  /\ Kind

LEMMA Alone ==
  ASSUME TypeOK, MutexHeld, MutexHeld', NEW w \in Worker, Inside(w),
         mutex' = mutex \/ mutex' = NoWorker
  PROVE  \A v \in Worker \ {w} : ~Inside(v) /\ ~Inside(v)'
BY NullAssumption DEF MutexHeld

\* A thread inside sees the tables agree until it writes.
LEMMA SeesAgreed ==
  ASSUME TypeOK, MutexHeld, MatchInv, NEW w \in Worker, Inside(w)
  PROVE  \A g \in GameType : Agreed(g) \/ Updating(w, g)
BY DEF MatchInv, MutexHeld, Inside, Updating

\* A step inside concerns the thread that takes it.
LEMMA MatchStep ==
  ASSUME TypeOK, MutexHeld, MutexHeld', NEW w \in Worker, Inside(w),
         mutex' = mutex \/ mutex' = NoWorker,
         \A g \in GameType : Agreed(g)' \/ Updating(w, g)',
         Inside(w)' => Known(w)', Kind'
  PROVE  MatchInv'
<1>1. \A v \in Worker \ {w} : ~Inside(v)'
  BY Alone
<1>2. \A v \in Worker : ~Inside(v)' => Known(v)'
  BY DEF Inside, Known
<1>3. \A v \in Worker : Known(v)'
  BY <1>1, <1>2
<1> QED
  BY <1>3 DEF MatchInv

\* The answers, as long as nobody is refused.
LEMMA KindAnswers ==
  ASSUME Event = {}, NoName \notin User, TypeOK, Unanswered, NobodyRefused, [Next]_vars,
         \A w \in Worker : GetSession(w) => answer' = answer /\ pc'[w] # "idle"
  PROVE  (Unanswered /\ NobodyRefused)'
<1> USE DEF tables, server, locals, env, rng
<1>0. /\ answer \in [Worker -> Answer \cup {NoAnswer}] /\ ThreadsOK
      /\ \A w \in Worker : pc[w] # "idle" => answer[w] = NoAnswer
  BY DEF TypeOK, ThreadsOK, Unanswered, Idle
<1>1. ASSUME NEW w \in Worker, NEW u \in User, NEW g \in GameType, Request(w, u, g)
      PROVE  (Unanswered /\ NobodyRefused)'
  <2>1. answer' = [answer EXCEPT ![w] = NoAnswer] /\ pc' = [pc EXCEPT ![w] = "lock"]
    BY <1>1 DEF Request, Goto
  <2> QED
    BY <1>0, <2>1 DEF Unanswered, NobodyRefused, Idle, ThreadsOK
<1>2. ASSUME NEW w \in Worker, pc[w] # "idle",
             pc' = [pc EXCEPT ![w] = pc'[w]], answer' = answer
      PROVE  (Unanswered /\ NobodyRefused)'
  <2>1. \A v \in Worker : pc'[v] # "idle" => pc[v] # "idle"
    BY <1>0, <1>2 DEF ThreadsOK
  <2> QED
    BY <1>0, <1>2, <2>1 DEF Unanswered, NobodyRefused, Idle
<1>3. ASSUME NEW w \in Worker, pc' = [pc EXCEPT ![w] = "idle"],
             \A v \in Worker \ {w} : answer'[v] = answer[v],
             answer'[w] = answer[w] \/ answer'[w].status = 200
      PROVE  (Unanswered /\ NobodyRefused)'
  <2>1. \A v \in Worker : pc'[v] # "idle" => v # w /\ pc[v] # "idle"
    BY <1>0, <1>3 DEF ThreadsOK
  <2>2. Unanswered'
    BY <1>0, <1>3, <2>1 DEF Unanswered, Idle
  <2>3. NobodyRefused'
    BY <1>0, <1>3 DEF NobodyRefused
  <2> QED
    BY <2>2, <2>3
<1>4. ASSUME NEW w \in Worker, Lock(w) \/ GetWaiting(w) \/ PutSession(w)
                               \/ UpdateSession(w) \/ GetSession(w)
      PROVE  (Unanswered /\ NobodyRefused)'
  <2>1. pc[w] # "idle" /\ answer' = answer /\ pc' = [pc EXCEPT ![w] = pc'[w]]
    BY <1>0, <1>4 DEF Lock, GetWaiting, PutSession, UpdateSession, GetSession,
                      Return, Goto, ThreadsOK
  <2> QED
    BY <1>2, <2>1
<1>5. ASSUME NEW w \in Worker, PutWaiting(w) \/ DeleteWaiting(w)
      PROVE  (Unanswered /\ NobodyRefused)'
  <2>1. \/ Return(w, 200, found[w], FALSE)
        \/ Return(w, 200, found[w], TRUE)
    BY <1>5 DEF PutWaiting, DeleteWaiting
  <2>2. /\ Goto(w, "idle") /\ \A v \in Worker \ {w} : answer'[v] = answer[v]
        /\ answer'[w] = answer[w] \/ answer'[w].status = 200
    <3>1. CASE Return(w, 200, found[w], FALSE)
      BY <1>0, <3>1 DEF Return, Respond
    <3>2. CASE Return(w, 200, found[w], TRUE)
      BY <1>0, <3>2 DEF Return, Respond
    <3> QED
      BY <2>1, <3>1, <3>2
  <2> QED
    BY <1>3, <2>2 DEF Goto
<1>6. ASSUME NEW w \in Worker, Scan(w)
      PROVE  (Unanswered /\ NobodyRefused)'
  <2>1. CASE Goto(w, "getWaiting") /\ UNCHANGED answer
    <3>1. pc[w] # "idle" /\ pc' = [pc EXCEPT ![w] = pc'[w]]
      BY <1>0, <1>6, <2>1 DEF Goto, Scan, ThreadsOK
    <3> QED
      BY <1>2, <2>1, <3>1
  <2>2. CASE \E t \in Readable : \E id \in DOMAIN t.sessions :
               Return(w, 200, id, Len(Split(t.sessions[id].players)) = 2)
    <3>1. /\ Goto(w, "idle") /\ \A v \in Worker \ {w} : answer'[v] = answer[v]
          /\ answer'[w] = answer[w] \/ answer'[w].status = 200
      BY <1>0, <2>2 DEF Return, Respond
    <3> QED
      BY <1>3, <3>1 DEF Goto
  <2> QED
    BY <1>6, <2>1, <2>2 DEF Scan
<1>7. CASE UNCHANGED <<pc, answer>>
  BY <1>0, <1>7 DEF Unanswered, NobodyRefused, Idle
<1>8. ~Restart
  BY DEF Restart, Fault
<1> QED
  BY <1>1, <1>4, <1>5, <1>6, <1>7, <1>8 DEF Next, Serve, Signup, Tick, CatchUp, vars

\* A step that leaves the two tables alone.
LEMMA SameTables ==
  ASSUME UNCHANGED <<sessions, waiting>>, NEW g, Agreed(g)
  PROVE  Agreed(g)'
BY DEF Agreed, HalfFull

\* The waiting session can be joined: it has one player, who is not the user.
LEMMA FindsJoinable ==
  ASSUME Event = {}, NoName \notin User, TypeOK, PairInv, MatchInv,
         NEW w \in Worker, GetSession(w)
  PROVE  /\ Goto(w, "updateSession")
         /\ UNCHANGED <<sessions, waiting, mutex, call, found, answer>>
<1>1. Inside(w) /\ ~Idle(w) /\ pc[w] = "getSession"
  BY DEF GetSession, Inside, Idle
<1>2. /\ found[w] \in SessionId /\ call[w].user \in User
      /\ call[w].game \in GameType
  BY <1>1, Serving DEF Located
<1>3. Agreed(call[w].game) /\ waiting[call[w].game] = found[w]
  BY <1>1, <1>2, SeesAgreed DEF PairInv, MatchInv, Known, Updating
<1>4. /\ found[w] \in DOMAIN sessions /\ Len(sessions[found[w]].players) = 1
      /\ sessions[found[w]].game = call[w].game
  BY <1>2, <1>3 DEF Agreed, HalfFull
<1>5. /\ sessions[found[w]].players \in Players
      /\ Split(sessions[found[w]].players) = sessions[found[w]].players
  BY <1>4, SplitWhole DEF TypeOK, TablesOK, Tables, Session
<1>6. sessions[found[w]].players[1] # call[w].user
  <2>1. ~InSession(call[w].user, found[w])
    BY <1>1, <1>4 DEF PairInv, ThreadInv, Fresh, Newcomer
  <2>2. 1 \in DOMAIN sessions[found[w]].players
    BY <1>4, <1>5 DEF Players
  <2> QED
    BY <2>1, <2>2 DEF InSession
<1>7. \A t \in Readable : t.sessions = sessions
  BY DEF PairInv, TableInv, Readable, Tables
<1>8. ASSUME NEW t \in Readable
      PROVE  LET players == IF found[w] \in DOMAIN t.sessions
                            THEN Split(t.sessions[found[w]].players) ELSE <<>>
             IN  Len(players) = 1 /\ players[1] # call[w].user
  BY <1>4, <1>5, <1>6, <1>7
<1>9. ~Fault("failGet")
  BY DEF Fault
<1> QED
  BY <1>8, <1>9 DEF GetSession, tables

LEMMA StepMatch ==
  ASSUME Event \subseteq {"failScan"}, NoName \notin User,
         TypeOK, TypeOK', PairInv, PairInv', MatchInv, [Next]_vars
  PROVE  MatchInv'
<1> USE DEF tables, server, env, rng, locals
<1>0. /\ MutexHeld /\ MutexHeld' /\ ThreadsOK
      /\ \A w \in Worker : Known(w) /\ ThreadInv(w)
      /\ waiting \in [GameType -> SessionId \cup {NoSession}]
      /\ \A id \in DOMAIN sessions : id \in SessionId
  BY DEF PairInv, MatchInv, TypeOK, TablesOK, Tables
<1>1. Kind'
  <2> SUFFICES ASSUME "failScan" \notin Event PROVE (Unanswered /\ NobodyRefused)'
    BY DEF Kind
  <2>1. Event = {}
    OBVIOUS
  <2>2. ASSUME NEW w \in Worker, GetSession(w) PROVE answer' = answer /\ pc'[w] # "idle"
    BY <1>0, <2>1, <2>2, FindsJoinable DEF Goto, ThreadsOK
  <2>3. Unanswered /\ NobodyRefused
    BY DEF MatchInv, Kind
  <2> QED
    BY <2>1, <2>2, <2>3, KindAnswers
<1>2. \A kind : kind # "failScan" => ~Fault(kind)
  BY DEF Fault
<1>3. ASSUME NEW w \in Worker, ~Inside(w), ~Inside(w)' \/ pc'[w] = "scan",
             UNCHANGED <<sessions, waiting, found>>,
             \A v \in Worker \ {w} : pc'[v] = pc[v] /\ call'[v] = call[v]
      PROVE  MatchInv'
  <2>1. ASSUME NEW g \in GameType PROVE Agreed(g)' \/ \E v \in Worker : Updating(v, g)'
    <3>1. CASE Agreed(g)
      BY <1>3, <3>1, SameTables
    <3>2. ASSUME NEW v \in Worker, Updating(v, g) PROVE Updating(v, g)'
      BY <1>3, <3>2 DEF Updating, Inside
    <3> QED
      BY <3>1, <3>2 DEF MatchInv
  <2>2. \A v \in Worker : Known(v)'
    BY <1>0, <1>3 DEF Known, Inside, HalfFull
  <2> QED
    BY <1>1, <2>1, <2>2 DEF MatchInv
<1>4. ASSUME NEW w \in Worker, NEW u \in User, NEW g \in GameType, Request(w, u, g)
      PROVE  MatchInv'
  <2>1. /\ ~Inside(w) /\ ~Inside(w)'
        /\ \A v \in Worker \ {w} : pc'[v] = pc[v] /\ call'[v] = call[v]
    BY <1>0, <1>4 DEF Request, Goto, Inside, ThreadsOK
  <2> QED
    BY <1>3, <1>4, <2>1 DEF Request
<1>5. ASSUME NEW w \in Worker, Lock(w) PROVE MatchInv'
  <2>1. /\ ~Inside(w) /\ pc'[w] = "scan"
        /\ \A v \in Worker \ {w} : pc'[v] = pc[v] /\ call'[v] = call[v]
    BY <1>0, <1>5 DEF Lock, Goto, Inside, ThreadsOK
  <2> QED
    BY <1>3, <1>5, <2>1 DEF Lock
<1>6. ASSUME NEW w \in Worker, Scan(w) PROVE MatchInv'
  <2>1. /\ Inside(w) /\ UNCHANGED <<sessions, waiting>>
        /\ \A g : ~Updating(w, g)
    BY <1>6 DEF Scan, Inside, Updating
  <2>2. mutex' = mutex \/ mutex' = NoWorker
    BY <1>6 DEF Scan, Return
  <2>3. pc'[w] \in {"idle", "getWaiting"}
    BY <1>0, <1>6 DEF Scan, Return, Goto, ThreadsOK
  <2>4. Known(w)'
    BY <2>3 DEF Known
  <2>5. \A g \in GameType : Agreed(g)'
    BY <1>0, <2>1, SeesAgreed, SameTables
  <2> QED
    BY <1>0, <1>1, <2>1, <2>2, <2>4, <2>5, MatchStep
<1>7. ASSUME NEW w \in Worker, GetWaiting(w) PROVE MatchInv'
  <2>1. /\ Inside(w) /\ UNCHANGED <<sessions, waiting, mutex, call>>
        /\ \A g : ~Updating(w, g)
    BY <1>7 DEF GetWaiting, Inside, Updating
  <2>2. \A g \in GameType : Agreed(g)'
    BY <1>0, <2>1, SeesAgreed, SameTables
  <2>3. Known(w)'
    <3>1. \A t \in Readable : t.waiting = waiting
      BY DEF PairInv, TableInv, Readable, Tables
    <3>2. \/ waiting[call[w].game] = NoSession /\ pc'[w] = "putSession"
          \/ waiting[call[w].game] = found'[w] /\ pc'[w] = "getSession"
      BY <1>0, <1>7, <1>2, <3>1 DEF GetWaiting, Goto, ThreadsOK
    <3> QED
      BY <2>1, <3>2 DEF Known
  <2> QED
    BY <1>0, <1>1, <2>1, <2>2, <2>3, MatchStep
<1>8. \A w \in Worker : Inside(w) => call[w].game \in GameType
  BY Serving DEF Inside, Idle
<1>9. ASSUME NEW w \in Worker, PutSession(w) PROVE MatchInv'
  <2> DEFINE h == call[w].game
  <2>1. /\ Inside(w) /\ UNCHANGED <<waiting, mutex, call, found>>
        /\ pc'[w] = "putWaiting"
        /\ waiting[h] = NoSession /\ found[w] \notin DOMAIN sessions
    BY <1>0, <1>9, <1>2
       DEF PutSession, Write, Inside, Goto, ThreadsOK, Known, ThreadInv
  <2>2. /\ DOMAIN sessions' = DOMAIN sessions \cup {found[w]}
        /\ sessions'[found[w]].game = h
        /\ Len(sessions'[found[w]].players) = 1
        /\ \A id \in DOMAIN sessions : sessions'[id] = sessions[id]
    BY <1>9, <1>2, <2>1 DEF PutSession, Write, Put
  <2>3. \A id \in SessionId, g \in GameType :
          HalfFull(id, g)' <=> HalfFull(id, g) \/ (id = found[w] /\ g = h)
    BY <2>1, <2>2 DEF HalfFull
  <2>4. \A g \in GameType : Agreed(g)
    BY <1>0, <1>9, <2>1, SeesAgreed DEF Updating, PutSession
  <2>5. Known(w)'
    <3>1. \A id \in SessionId : ~HalfFull(id, h)
      BY <1>8, <2>1, <2>4, NullAssumption DEF Agreed
    <3>2. \A id \in SessionId : HalfFull(id, h)' <=> id = found[w]
      BY <1>8, <2>1, <2>3, <3>1
    <3> QED
      BY <2>1, <3>2 DEF Known
  <2>6. ASSUME NEW g \in GameType PROVE Agreed(g)' \/ Updating(w, g)'
    <3>1. CASE g = h
      BY <2>1, <3>1 DEF Updating
    <3>2. CASE g # h
      BY <2>1, <2>3, <2>4, <3>2 DEF Agreed
    <3> QED
      BY <3>1, <3>2
  <2> QED
    BY <1>0, <1>1, <2>1, <2>5, <2>6, MatchStep
<1>10. ASSUME NEW w \in Worker, PutWaiting(w) \/ DeleteWaiting(w) PROVE MatchInv'
  <2> DEFINE h == call[w].game
             entry == IF pc[w] = "putWaiting" THEN found[w] ELSE NoSession
  <2>1. /\ Inside(w) /\ UNCHANGED sessions /\ mutex' = NoWorker /\ pc'[w] = "idle"
        /\ waiting' = [waiting EXCEPT ![h] = entry]
    BY <1>0, <1>10, <1>2
       DEF PutWaiting, DeleteWaiting, Write, Return, Inside, Goto, ThreadsOK
  <2>2. \A id \in SessionId : HalfFull(id, h) <=> id = entry
    BY <1>0, <1>10, NullAssumption DEF PutWaiting, DeleteWaiting, Known
  <2> HIDE DEF entry
  <2>3. ASSUME NEW g \in GameType PROVE Agreed(g)'
    <3>1. CASE g = h
      <4>1. waiting'[g] = entry
        BY <1>0, <2>1, <3>1
      <4> QED
        BY <2>1, <2>2, <3>1, <4>1 DEF Agreed, HalfFull
    <3>2. CASE g # h
      <4>1. waiting'[g] = waiting[g]
        BY <1>0, <2>1, <3>2
      <4>2. Agreed(g)
        BY <1>0, <2>1, <3>2, SeesAgreed DEF Updating
      <4> QED
        BY <2>1, <4>1, <4>2 DEF Agreed, HalfFull
    <3> QED
      BY <3>1, <3>2
  <2>4. ~Inside(w)'
    BY <2>1 DEF Inside
  <2> QED
    BY <1>0, <1>1, <2>1, <2>3, <2>4, MatchStep
<1>11. ASSUME NEW w \in Worker, GetSession(w) PROVE MatchInv'
  <2>1. /\ Inside(w) /\ UNCHANGED <<sessions, waiting>>
        /\ \A g : ~Updating(w, g)
    BY <1>11 DEF GetSession, Inside, Updating
  <2>2. \/ UNCHANGED <<mutex, call, found>> /\ pc'[w] = "updateSession"
        \/ mutex' = NoWorker /\ pc'[w] = "idle"
    BY <1>0, <1>11 DEF GetSession, Return, Goto, ThreadsOK
  <2>3. \A g \in GameType : Agreed(g)'
    BY <1>0, <2>1, SeesAgreed, SameTables
  <2>4. Known(w)'
    BY <1>0, <1>11, <2>1, <2>2 DEF GetSession, Known
  <2> QED
    BY <1>0, <1>1, <2>1, <2>2, <2>3, <2>4, MatchStep
<1>12. ASSUME NEW w \in Worker, UpdateSession(w) PROVE MatchInv'
  <2> DEFINE h == call[w].game
             joined == Append(party[w], call[w].user)
  <2>1. /\ Inside(w) /\ ~Idle(w) /\ UNCHANGED <<waiting, mutex, call, found>>
        /\ pc'[w] = "deleteWaiting" /\ waiting[h] = found[w]
        /\ found[w] \in DOMAIN sessions /\ sessions[found[w]].game = h
        /\ Len(party[w]) = 1
    BY <1>0, <1>12, <1>2
       DEF UpdateSession, Write, Inside, Idle, Goto, ThreadsOK, Known, ThreadInv
  <2>2. Len(joined) = 2
    BY <2>1, Serving, AppendSecond
  <2> HIDE DEF joined
  <2>3. sessions' = [sessions EXCEPT ![found[w]] =
                       [game |-> @.game, players |-> joined]]
    BY <1>12, <1>2 DEF UpdateSession, Write, joined
  <2>4. \A id \in SessionId, g \in GameType :
          HalfFull(id, g)' <=> HalfFull(id, g) /\ id # found[w]
    BY <2>1, <2>2, <2>3 DEF HalfFull
  <2>5. \A g \in GameType : Agreed(g)
    BY <1>0, <1>12, <2>1, SeesAgreed DEF Updating, UpdateSession
  <2>6. Known(w)'
    <3>1. \A id \in SessionId : ~HalfFull(id, h)'
      BY <1>8, <2>1, <2>4, <2>5 DEF Agreed
    <3> QED
      BY <2>1, <3>1 DEF Known
  <2>7. ASSUME NEW g \in GameType PROVE Agreed(g)' \/ Updating(w, g)'
    <3>1. CASE g = h
      BY <2>1, <3>1 DEF Updating
    <3>2. CASE g # h
      <4>1. ~HalfFull(found[w], g)
        BY <2>1, <3>2 DEF HalfFull
      <4> QED
        BY <2>1, <2>4, <2>5, <4>1 DEF Agreed
    <3> QED
      BY <3>1, <3>2
  <2> QED
    BY <1>0, <1>1, <2>1, <2>6, <2>7, MatchStep
<1>13. ~Signup /\ ~Tick /\ ~Restart /\ ~CatchUp
  BY <1>2 DEF Signup, Tick, Restart, CatchUp, PairInv, TableInv
<1>14. CASE UNCHANGED vars
  BY <1>14 DEF vars, MatchInv, Agreed, HalfFull, Updating, Known, Kind,
               Unanswered, NobodyRefused, Idle
<1> QED
  BY <1>4, <1>5, <1>6, <1>7, <1>9, <1>10, <1>11, <1>12, <1>13, <1>14
     DEF Next, Serve

LEMMA MatchAlways ==
  ASSUME Event \subseteq {"failScan"}, NoName \notin User
  PROVE  Spec => []MatchInv
<1>1. Init => MatchInv
  <2> SUFFICES ASSUME Init PROVE MatchInv
    OBVIOUS
  <2>1. \A g \in GameType : Agreed(g)
    BY NullAssumption DEF Init, Agreed, HalfFull
  <2>2. (\A w \in Worker : Known(w)) /\ Kind
    BY DEF Init, Known, Kind, Unanswered, NobodyRefused, Idle
  <2> QED
    BY <2>1, <2>2 DEF MatchInv
<1>2. TypeOK /\ TypeOK' /\ PairInv /\ PairInv' /\ MatchInv /\ [Next]_vars => MatchInv'
  BY StepMatch
<1>3. Spec => []PairInv
  BY PairAlways
<1> QED
  BY <1>1, <1>2, <1>3, TypeCorrect, PTL DEF Spec

\* Between two calls the entry of waiting_sessions and the half-full session
\* of a game type are one and the same, although scans fail: the two writes of the creating branch,
\* and the two of the joining one, are one step for whoever takes the mutex next.
THEOREM WaitingMatches ==
  ASSUME Event \subseteq {"failScan"}, NoName \notin User
  PROVE  Spec => []WaitingIsOpen
<1>1. TypeOK /\ PairInv /\ MatchInv => WaitingIsOpen
  <2> SUFFICES ASSUME TypeOK, PairInv, MatchInv, mutex = NoWorker,
                      NEW id \in DOMAIN sessions, NEW g \in GameType
               PROVE  /\ waiting[g] # NoSession => waiting[g] \in DOMAIN sessions
                      /\ (waiting[g] = id) <=> (/\ sessions[id].game = g
                                                /\ Len(Split(sessions[id].players)) = 1)
    BY DEF WaitingIsOpen
  <2>1. \A w \in Worker : ~Updating(w, g)
    BY NullAssumption DEF PairInv, MutexHeld, Inside, Updating
  <2>2. Agreed(g)
    BY <2>1 DEF MatchInv
  <2>3. /\ id \in SessionId /\ Split(sessions[id].players) = sessions[id].players
        /\ waiting[g] \in SessionId \cup {NoSession}
    BY SplitWhole DEF TypeOK, TablesOK, Tables, Session
  <2> QED
    BY <2>2, <2>3 DEF Agreed, HalfFull
<1>2. Spec => []PairInv
  BY PairAlways
<1> QED
  BY <1>1, <1>2, TypeCorrect, MatchAlways, PTL

\* When nothing fails nobody is turned away: the three error paths of the
\* joining branch (no such session, no players, full or own) are never taken.
THEOREM NeverRefused ==
  ASSUME Event = {}, NoName \notin User
  PROVE  Spec => []NobodyRefused
<1>1. MatchInv => NobodyRefused
  BY DEF MatchInv, Kind
<1>2. Spec => []MatchInv
  BY MatchAlways
<1> QED
  BY <1>1, <1>2, PTL

-----------------------------------------------------------------------------
(* Every step is a step of Matchmaking, or none.                           *)
(*                                                                         *)
(* The write of a session is where a call takes effect, and the response   *)
(* is the promise; locking, reading and the writes to the waiting table    *)
(* are not seen from outside.                                              *)

LEMMA ToldStep ==
  ASSUME TypeOK, NEW w \in Worker, NEW r, answer' = [answer EXCEPT ![w] = r]
  PROVE  Told' = [Told EXCEPT ![w] =
                    IF r # NoAnswer /\ r.status = 200
                    THEN [user |-> r.user, party |-> r.session, complete |-> r.matched]
                    ELSE NoAnswer]
<1>1. DOMAIN answer = Worker
  BY DEF TypeOK, ThreadsOK
<1> QED
  BY <1>1 DEF Told

\* A call that returns a session tells its asker about it.
LEMMA ReturnTells ==
  ASSUME TypeOK, Unanswered, UNCHANGED sessions,
         NEW w \in Worker, ~Idle(w), NEW id \in DOMAIN sessions,
         InSession(call[w].user, id), NEW r, answer' = [answer EXCEPT ![w] = r],
         r.status = 200, r.user = call[w].user, r.session = id,
         r.matched = (Len(sessions[id].players) = 2)
  PROVE  Pairing!Next \/ UNCHANGED <<sessions, Told>>
<1>1. /\ call[w].user \in User /\ id \in SessionId /\ Told[w] = NoAnswer
      /\ DOMAIN Told = Worker
  BY Serving DEF TypeOK, TablesOK, Tables, Told, Unanswered
<1>2. CASE r = NoAnswer
  <2>1. Told' = [Told EXCEPT ![w] = NoAnswer]
    <3>1. answer' = [answer EXCEPT ![w] = NoAnswer]
      BY <1>2
    <3> QED
      BY <3>1, ToldStep
  <2>2. Told = [Told EXCEPT ![w] = NoAnswer]
    BY <1>1 DEF Told
  <2> QED
    BY <2>1, <2>2
<1>3. CASE r # NoAnswer
  <2>1. Told' = [Told EXCEPT ![w] = [user |-> call[w].user, party |-> id,
                                     complete |-> Len(sessions[id].players) = 2]]
    <3>1. DOMAIN answer = Worker
      BY DEF TypeOK, ThreadsOK
    <3>2. Told' = [Told EXCEPT ![w] = [user |-> r.user, party |-> r.session,
                                       complete |-> r.matched]]
      BY <1>3, <3>1 DEF Told
    <3> QED
      BY <3>2
  <2>2. Pairing!Member(call[w].user, id)
    BY DEF InSession, Pairing!Member
  <2>3. Pairing!Tell(w, call[w].user, id)
    BY <1>1, <2>1, <2>2 DEF Pairing!Tell
  <2> QED
    BY <1>1, <2>3 DEF Pairing!Next
<1> QED
  BY <1>2, <1>3

LEMMA Implements ==
  ASSUME Event = {}, NoName \notin User, SubName = {},
         TypeOK, SessionShape, PairInv, MatchInv, \A w \in Worker : Seated(w), [Next]_vars
  PROVE  Pairing!Next \/ UNCHANGED <<sessions, Told>>
<1> USE DEF tables, server, locals, env, rng
<1>0. /\ MutexHeld /\ Unanswered /\ ThreadsOK
      /\ \A w \in Worker : Known(w) /\ ThreadInv(w)
      /\ \A id \in DOMAIN sessions :
            id \in SessionId /\ sessions[id] \in Session
  BY DEF PairInv, MatchInv, Kind, TypeOK, TablesOK, Tables
<1>1. \A kind : ~Fault(kind)
  BY DEF Fault
<1>2. CASE UNCHANGED <<sessions, answer>>
  BY <1>2 DEF Told
<1>3. ASSUME NEW w \in Worker, NEW u \in User, NEW g \in GameType, Request(w, u, g)
      PROVE  Pairing!Next
  <2>1. UNCHANGED sessions /\ answer' = [answer EXCEPT ![w] = NoAnswer]
    BY <1>3 DEF Request
  <2>2. Told' = [Told EXCEPT ![w] = NoAnswer]
    BY <2>1, ToldStep
  <2> QED
    BY <2>1, <2>2 DEF Pairing!Next, Pairing!Ask
<1>4. ASSUME NEW w \in Worker, Scan(w)
      PROVE  Pairing!Next \/ UNCHANGED <<sessions, Told>>
  <2>1. ~Idle(w) /\ UNCHANGED sessions
    BY <1>4 DEF Scan, Idle
  <2>2. \A t \in Readable : t.sessions = sessions
    BY DEF PairInv, TableInv, Readable, Tables
  <2>3. ASSUME NEW id \in DOMAIN sessions,
               Contains(sessions[id].players, call[w].user),
               Return(w, 200, id, Len(Split(sessions[id].players)) = 2)
        PROVE  Pairing!Next \/ UNCHANGED <<sessions, Told>>
    <3>1. InSession(call[w].user, id)
      BY <2>3 DEF Contains, InSession
    <3>2. Split(sessions[id].players) = sessions[id].players
      BY <1>0, SplitWhole DEF Session
    <3>3. PICK r : r = [user |-> call[w].user, game |-> call[w].game, status |-> 200,
                        session |-> id, matched |-> Len(sessions[id].players) = 2]
      OBVIOUS
    <3>4. answer' = [answer EXCEPT ![w] = r]
      BY <2>1, <2>3, <3>2, <3>3, Serving DEF Return, Respond
    <3>5. /\ r.status = 200 /\ r.user = call[w].user /\ r.session = id
          /\ r.matched = (Len(sessions[id].players) = 2)
      BY <3>3
    <3>6. id \in DOMAIN sessions /\ Unanswered /\ sessions' = sessions /\ ~Idle(w)
      BY <1>0, <2>1
    <3> QED
      BY <3>1, <3>4, <3>5, <3>6, ReturnTells, ZenonT(60)
  <2> QED
    BY <1>2, <1>4, <1>1, <2>1, <2>2, <2>3 DEF Scan
<1>5. ASSUME NEW w \in Worker, PutSession(w) PROVE Pairing!Next
  <2> DEFINE u == call[w].user
             h == call[w].game
             new == [game |-> h, players |-> <<u>>]
  <2>1. /\ Inside(w) /\ ~Idle(w) /\ pc[w] = "putSession"
        /\ waiting[h] = NoSession /\ Newcomer(w) /\ found[w] \notin DOMAIN sessions
        /\ Told' = Told
    BY <1>0, <1>5 DEF PutSession, Inside, Idle, Known, ThreadInv, Fresh, Told
  <2>2. u \in User /\ h \in GameType /\ found[w] \in SessionId
    BY <2>1, Serving DEF Located
  <2>3. sessions' = [id \in DOMAIN sessions \cup {found[w]} |->
                       IF id = found[w] THEN new ELSE sessions[id]]
    BY <1>5, <1>1 DEF PutSession, Write, Put
  <2>4. Pairing!Without(u, h)
    BY <2>1 DEF Newcomer, InSession, Pairing!Without, Pairing!Member
  <2>5. ~ \E id \in SessionId : Pairing!IsOpen(id, h)
    <3>1. Agreed(h)
      BY <1>0, <2>1, <2>2, SeesAgreed DEF Updating
    <3> QED
      BY <2>1, <3>1, NullAssumption DEF Agreed, HalfFull, Pairing!IsOpen
  <2>6. Pairing!Open(u, h)
    BY <2>1, <2>2, <2>3, <2>4, <2>5 DEF Pairing!Open
  <2> QED
    BY <2>2, <2>6 DEF Pairing!Next
<1>6. ASSUME NEW w \in Worker, PutWaiting(w)
      PROVE  Pairing!Next \/ UNCHANGED <<sessions, Told>>
  <2>1. /\ ~Idle(w) /\ UNCHANGED sessions /\ found[w] \in SessionId
        /\ found[w] \in DOMAIN sessions /\ InSession(call[w].user, found[w])
        /\ Return(w, 200, found[w], FALSE)
    BY <1>6, <1>1, Serving DEF PutWaiting, Write, Idle, Seated, Located
  <2>2. Len(sessions[found[w]].players) = 1
    BY <1>0, <1>6, <2>1 DEF PutWaiting, Known, HalfFull
  <2>3. PICK r : r = [user |-> call[w].user, game |-> call[w].game, status |-> 200,
                      session |-> found[w], matched |-> FALSE]
    OBVIOUS
  <2>4. answer' = [answer EXCEPT ![w] = r]
    BY <2>1, <2>3, Serving DEF Return, Respond
  <2>5. r.matched = (Len(sessions[found[w]].players) = 2)
    <3>1. (Len(sessions[found[w]].players) = 2) = FALSE
      BY <2>2
    <3> QED
      BY <2>3, <3>1
  <2> QED
    BY <1>0, <2>1, <2>3, <2>4, <2>5, ReturnTells
<1>7. ASSUME NEW w \in Worker, UpdateSession(w) PROVE Pairing!Next
  <2> DEFINE u == call[w].user
             h == call[w].game
             old == sessions[found[w]]
  <2>1. /\ Inside(w) /\ ~Idle(w) /\ pc[w] = "updateSession"
        /\ waiting[h] = found[w] /\ Newcomer(w) /\ Told' = Told
        /\ found[w] \in DOMAIN sessions /\ party[w] = Split(old.players)
    BY <1>0, <1>7
       DEF UpdateSession, Inside, Idle, Known, ThreadInv, Fresh, Told
  <2>2. u \in User /\ h \in GameType /\ found[w] \in SessionId /\ old \in Session
    BY <1>0, <2>1, Serving DEF Located
  <2>3. sessions' = [sessions EXCEPT ![found[w]].players = Append(@, u)]
    <3>1. party[w] = old.players
      BY <2>1, <2>2, SplitWhole DEF Session
    <3>2. sessions' = [sessions EXCEPT ![found[w]] =
                         [game |-> old.game, players |-> Append(old.players, u)]]
      BY <1>7, <1>1, <3>1 DEF UpdateSession, Write
    <3>3. [old EXCEPT !.players = Append(old.players, u)] =
            [game |-> old.game, players |-> Append(old.players, u)]
      BY <2>2 DEF Session
    <3> QED
      BY <2>1, <3>2, <3>3
  <2>4. Pairing!Without(u, h)
    BY <2>1 DEF Newcomer, InSession, Pairing!Without, Pairing!Member
  <2>5. Pairing!IsOpen(found[w], h)
    <3>1. Agreed(h)
      BY <1>0, <2>1, <2>2, SeesAgreed DEF Updating
    <3> QED
      BY <2>1, <2>2, <3>1 DEF Agreed, HalfFull, Pairing!IsOpen
  <2>6. Pairing!Join(u, h)
    BY <2>1, <2>2, <2>3, <2>4, <2>5 DEF Pairing!Join
  <2> QED
    BY <2>2, <2>6 DEF Pairing!Next
<1>8. ASSUME NEW w \in Worker, DeleteWaiting(w)
      PROVE  Pairing!Next \/ UNCHANGED <<sessions, Told>>
  <2>1. /\ ~Idle(w) /\ UNCHANGED sessions
        /\ found[w] \in DOMAIN sessions /\ InSession(call[w].user, found[w])
        /\ Len(sessions[found[w]].players) = 2
        /\ Return(w, 200, found[w], TRUE)
    BY <1>8, <1>1 DEF DeleteWaiting, Write, Idle, Seated
  <2>2. PICK r : r = [user |-> call[w].user, game |-> call[w].game, status |-> 200,
                      session |-> found[w], matched |-> TRUE]
    OBVIOUS
  <2>3. answer' = [answer EXCEPT ![w] = r]
    BY <2>1, <2>2, Serving DEF Return, Respond
  <2>4. r.matched = (Len(sessions[found[w]].players) = 2)
    BY <2>1, <2>2
  <2> QED
    BY <1>0, <2>1, <2>2, <2>3, <2>4, ReturnTells
<1>9. ASSUME NEW w \in Worker, Lock(w) \/ GetWaiting(w) \/ GetSession(w)
      PROVE  UNCHANGED <<sessions, answer>>
  BY <1>9, FindsJoinable DEF Lock, GetWaiting
<1>10. (Signup \/ Tick \/ Restart \/ CatchUp \/ UNCHANGED vars) => UNCHANGED <<sessions, answer>>
  BY DEF Signup, Tick, Restart, CatchUp, vars
<1> QED
  BY <1>2, <1>3, <1>4, <1>5, <1>6, <1>7, <1>8, <1>9, <1>10 DEF Next, Serve

\* findOrCreateSession is atomic for its callers: seen through the sessions
\* table and the responses, overlapping calls on any number of threads pair
\* users as Matchmaking does, when nothing fails and no name is a part of
\* another.
THEOREM Refinement ==
  ASSUME Event = {}, NoName \notin User, SubName = {}
  PROVE  Spec => ImplementsMatchmaking
<1>1. Init => Pairing!Init
  BY DEF Init, Pairing!Init, Told
<1>2. TypeOK /\ SessionShape /\ PairInv /\ MatchInv /\ TruthInv /\ [Next]_vars
        => [Pairing!Next]_<<sessions, Told>>
  BY Implements DEF TruthInv
<1>3. Spec => []PairInv
  BY PairAlways
<1>4. Spec => []TruthInv
  BY TruthAlways
<1>5. Spec => []MatchInv
  BY MatchAlways
<1> QED
  BY <1>1, <1>2, <1>3, <1>4, <1>5, TypeCorrect, ShapeSafe, PTL
     DEF Spec, ImplementsMatchmaking, Pairing!Spec, Pairing!vars
=============================================================================
