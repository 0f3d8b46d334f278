------------------------ MODULE SessionServiceProofs ------------------------
(***************************************************************************)
(* Theorems about SessionService for every set of threads, users, game     *)
(* types and every bound.                                                  *)
(***************************************************************************)
EXTENDS SessionService, SequenceTheorems, TLAPS

\* The assumptions on the constants, as one fact to cite.
LEMMA Constants ==
  /\ MaxFaults \in Nat /\ MaxClock \in Nat \ {0} /\ MaxDraw \in Nat \ {0}
  /\ NoWorker \notin Worker /\ NoSession \notin SessionId
BY BoundAssumption, NullAssumption

\* Splitting yields a prefix of the list: the same names, at most the last
\* one dropped.
LEMMA SplitPrefix ==
  ASSUME NEW p \in Players
  PROVE  /\ Split(p) \in Players
         /\ Len(Split(p)) <= Len(p)
         /\ \A i \in 1 .. Len(Split(p)) : Split(p)[i] = p[i]
<1>1. CASE p # <<>> /\ p[Len(p)] = NoName
  <2>1. Len(p) \in Nat /\ Len(p) > 0
    BY <1>1 DEF Players
  <2>2. Split(p) = SubSeq(p, 1, Len(p) - 1)
    BY <1>1 DEF Split
  <2> QED
    BY <2>1, <2>2 DEF Players
<1>2. CASE ~(p # <<>> /\ p[Len(p)] = NoName)
  BY <1>2 DEF Split, Players
<1> QED
  BY <1>1, <1>2

-----------------------------------------------------------------------------
(* Type correctness.                                                       *)

\* A write of well-typed tables leaves tables and replica well typed.
LEMMA WriteType ==
  ASSUME TypeOK, NEW s, NEW wt, TablesOK([sessions |-> s, waiting |-> wt]),
         Write(s, wt)
  PROVE  /\ TablesOK(Tables') /\ TablesOK(replica')
         /\ faults' \in 0 .. MaxFaults
<1>1. TablesOK(Tables) /\ TablesOK(replica)
  BY DEF TypeOK
<1>2. TablesOK(Tables')
  BY <1>1 DEF Write, Tables, TablesOK
<1>3. faults' \in 0 .. MaxFaults
  BY Constants DEF Write, Fault, TypeOK, BoundsOK
<1> QED
  BY <1>1, <1>2, <1>3 DEF Write

LEMMA EmptyParty == <<>> \in Players
BY DEF Players

LEMMA AppendSecond ==
  ASSUME NEW p \in Players, Len(p) = 1, NEW u \in User
  PROVE  /\ Append(p, u) \in Players /\ Len(Append(p, u)) = 2
         /\ Append(p, u)[1] = p[1] /\ Append(p, u)[2] = u
<1>1. /\ Append(p, u) \in Seq(User) /\ Len(Append(p, u)) = Len(p) + 1
      /\ \A i \in 1 .. Len(p) : Append(p, u)[i] = p[i]
      /\ Append(p, u)[Len(p) + 1] = u
  BY AppendProperties DEF Players
<1> QED
  BY <1>1 DEF Players

LEMMA FaultBound ==
  ASSUME TypeOK, NEW kind, Fault(kind)
  PROVE  faults' \in 0 .. MaxFaults
BY Constants DEF Fault, TypeOK, BoundsOK

\* A call that returns leaves its thread idle and a well-typed response.
LEMMA ReturnType ==
  ASSUME TypeOK, NEW w \in Worker, NEW status, NEW id, NEW matched,
         Return(w, status, id, matched),
         [user |-> call[w].user, game |-> call[w].game, status |-> status,
          session |-> id, matched |-> matched] \in Answer
  PROVE  ThreadsOK'
<1>0. ThreadsOK
  BY DEF TypeOK
<1>1. answer' \in [Worker -> Answer \cup {NoAnswer}]
  BY <1>0 DEF Return, Respond, ThreadsOK
<1>2. /\ mutex' = NoWorker
      /\ pc' = [pc EXCEPT ![w] = "idle"]
      /\ call' = [call EXCEPT ![w] = NoCall]
      /\ found' = [found EXCEPT ![w] = NoSession]
      /\ party' = [party EXCEPT ![w] = <<>>]
  BY DEF Return, Goto
<1> QED
  BY <1>0, <1>1, <1>2, EmptyParty DEF ThreadsOK, Idle, Located

LEMMA InitType == Init => TypeOK
<1> SUFFICES ASSUME Init PROVE TypeOK
  OBVIOUS
<1>1. TablesOK(Tables) /\ TablesOK(replica)
  BY DEF Init, TablesOK, Tables
<1>2. ThreadsOK
  BY DEF Init, ThreadsOK, Idle, Located, Players
<1>3. BoundsOK
  BY Constants DEF Init, BoundsOK
<1> QED
  BY <1>1, <1>2, <1>3 DEF TypeOK

LEMMA StepType == TypeOK /\ [Next]_vars => TypeOK'
<1> SUFFICES ASSUME TypeOK, [Next]_vars PROVE TypeOK'
  OBVIOUS
<1> USE DEF tables, server, env, rng, locals
<1>0. TablesOK(Tables) /\ TablesOK(replica) /\ ThreadsOK /\ BoundsOK
  BY DEF TypeOK
<1>1. ASSUME NEW w \in Worker, NEW u \in User, NEW g \in GameType,
             Request(w, u, g)
      PROVE  TypeOK'
  <2>1. TablesOK(Tables)' /\ TablesOK(replica)' /\ BoundsOK'
    BY <1>0, <1>1 DEF Request, TablesOK, Tables, BoundsOK
  <2>2. ThreadsOK'
    <3>1. [user |-> u, game |-> g] \in Call
      BY DEF Call
    <3>2. [user |-> u, game |-> g, status |-> 400, session |-> NoSession,
           matched |-> FALSE] \in Answer
      BY DEF Answer
    <3>3. answer' \in [Worker -> Answer \cup {NoAnswer}]
      BY <1>0, <1>1, <3>2 DEF Request, Respond, ThreadsOK
    <3> QED
      BY <1>0, <1>1, <3>1, <3>3 DEF Request, ThreadsOK, Idle, Located, Goto
  <2> QED
    BY <2>1, <2>2 DEF TypeOK
<1>2. ASSUME NEW w \in Worker, Lock(w) PROVE TypeOK'
  <2>1. TablesOK(Tables)' /\ TablesOK(replica)' /\ BoundsOK'
    BY <1>0, <1>2 DEF Lock, TablesOK, Tables, BoundsOK
  <2>2. ThreadsOK'
    BY <1>0, <1>2 DEF Lock, ThreadsOK, Idle, Located, Goto
  <2> QED
    BY <2>1, <2>2 DEF TypeOK
<1>3. ASSUME NEW w \in Worker, Scan(w) PROVE TypeOK'
  <2>0. ~Idle(w) /\ pc[w] = "scan"
    BY <1>3 DEF Scan, Idle
  <2>1. TablesOK(Tables)' /\ TablesOK(replica)'
    BY <1>0, <1>3 DEF Scan, TablesOK, Tables
  <2>2. BoundsOK'
    BY <1>0, <1>3, Constants DEF Scan, BoundsOK, Fault
  <2>3. CASE Goto(w, "getWaiting") /\ UNCHANGED <<mutex, locals, answer>>
    <3>1. ThreadsOK'
      BY <1>0, <2>0, <2>3 DEF ThreadsOK, Idle, Located, Goto
    <3> QED
      BY <2>1, <2>2, <3>1 DEF TypeOK
  <2>4. ASSUME NEW t \in Readable, NEW id \in DOMAIN t.sessions,
               NEW matched \in BOOLEAN, Return(w, 200, id, matched)
        PROVE  TypeOK'
    <3>1. id \in SessionId
      BY <1>0, <2>4 DEF Readable, TablesOK
    <3>2. call[w] \in Call
      BY <1>0, <2>0 DEF ThreadsOK
    <3>3. [user |-> call[w].user, game |-> call[w].game, status |-> 200,
           session |-> id, matched |-> matched] \in Answer
      BY <3>1, <3>2 DEF Answer, Call
    <3>4. ThreadsOK'
      BY <2>4, <3>3, ReturnType
    <3> QED
      BY <2>1, <2>2, <3>4 DEF TypeOK
  <2> QED
    BY <1>3, <2>3, <2>4 DEF Scan
<1>4. ASSUME NEW w \in Worker, GetWaiting(w) PROVE TypeOK'
  <2>0. ~Idle(w) /\ pc[w] = "getWaiting" /\ call[w] \in Call
    BY <1>0, <1>4 DEF GetWaiting, Idle, ThreadsOK
  <2>1. TablesOK(Tables)' /\ TablesOK(replica)'
    BY <1>0, <1>4 DEF GetWaiting, TablesOK, Tables
  <2>2. CASE DrawId(w) /\ Goto(w, "putSession") /\ UNCHANGED mutex
    <3>1. drawn' \in 0 .. MaxDraw
      BY <1>0, <2>2, Constants DEF DrawId, BoundsOK
    <3>2. BoundsOK'
      BY <1>0, <1>4, <3>1, Constants DEF GetWaiting, BoundsOK, Fault
    <3>3. <<seed, drawn>> \in SessionId
      BY <1>0, <2>2, Constants DEF DrawId, BoundsOK, SessionId
    <3>4. ThreadsOK'
      BY <1>0, <1>4, <2>0, <2>2, <3>3
         DEF GetWaiting, ThreadsOK, Idle, Located, Goto, DrawId, Call
    <3> QED
      BY <2>1, <3>2, <3>4 DEF TypeOK
  <2>3. CASE /\ Goto(w, "getSession")
             /\ UNCHANGED <<drawn, faults>>
             /\ \E t \in Readable :
                  /\ t.waiting[call[w].game] # NoSession
                  /\ found' = [found EXCEPT ![w] = t.waiting[call[w].game]]
    <3>1. BoundsOK'
      BY <1>0, <1>4, <2>3 DEF GetWaiting, BoundsOK
    <3>2. PICK t \in Readable :
            /\ t.waiting[call[w].game] # NoSession
            /\ found' = [found EXCEPT ![w] = t.waiting[call[w].game]]
      BY <2>3
    <3>3. t.waiting[call[w].game] \in SessionId
      BY <1>0, <2>0, <3>2 DEF Readable, TablesOK, Call
    <3>4. ThreadsOK'
      BY <1>0, <1>4, <2>0, <2>3, <3>2, <3>3
         DEF GetWaiting, ThreadsOK, Idle, Located, Goto, Call
    <3> QED
      BY <2>1, <3>1, <3>4 DEF TypeOK
  <2> QED
    BY <1>4, <2>2, <2>3 DEF GetWaiting
<1>5. ASSUME NEW w \in Worker, PutSession(w) PROVE TypeOK'
  <2>0. pc[w] = "putSession" /\ call[w] \in Call
           /\ found[w] \in SessionId
    BY <1>0, <1>5 DEF PutSession, Idle, Located, ThreadsOK
  <2> DEFINE item == [game |-> call[w].game, players |-> <<call[w].user>>]
             s    == Put(sessions, found[w], item)
  <2>1. item \in Session
    BY <2>0 DEF Call, Session, Players
  <2>2. TablesOK([sessions |-> s, waiting |-> waiting])
    BY <1>0, <2>0, <2>1 DEF TablesOK, Tables, Put
  <2>3. TablesOK(Tables') /\ TablesOK(replica') /\ faults' \in 0 .. MaxFaults
    BY <1>5, <2>2, WriteType DEF PutSession
  <2>4. BoundsOK'
    BY <1>0, <1>5, <2>3 DEF PutSession, BoundsOK
  <2>5. ThreadsOK'
    BY <1>0, <1>5, <2>0 DEF PutSession, ThreadsOK, Idle, Located, Goto
  <2> QED
    BY <2>3, <2>4, <2>5 DEF TypeOK
<1>6. ASSUME NEW w \in Worker, PutWaiting(w) PROVE TypeOK'
  <2>0. pc[w] = "putWaiting" /\ ~Idle(w) /\ call[w] \in Call
           /\ found[w] \in SessionId
    BY <1>0, <1>6 DEF PutWaiting, Idle, Located, ThreadsOK
  <2>1. TablesOK([sessions |-> sessions, waiting |->
                   [waiting EXCEPT ![call[w].game] = found[w]]])
    BY <1>0, <2>0 DEF TablesOK, Tables
  <2>2. TablesOK(Tables') /\ TablesOK(replica') /\ faults' \in 0 .. MaxFaults
    BY <1>6, <2>1, WriteType DEF PutWaiting
  <2>3. BoundsOK'
    BY <1>0, <1>6, <2>2 DEF PutWaiting, BoundsOK
  <2>a. [user |-> call[w].user, game |-> call[w].game, status |-> 200,
         session |-> found[w], matched |-> FALSE] \in Answer
    BY <2>0 DEF Answer, Call
  <2>4. Return(w, 200, found[w], FALSE)
    BY <1>6 DEF PutWaiting
  <2>5. ThreadsOK'
    BY <2>a, <2>4, ReturnType, Zenon
  <2> QED
    BY <2>2, <2>3, <2>5 DEF TypeOK
<1>7. ASSUME NEW w \in Worker, GetSession(w) PROVE TypeOK'
  <2>0. pc[w] = "getSession" /\ ~Idle(w) /\ call[w] \in Call
           /\ found[w] \in SessionId
    BY <1>0, <1>7 DEF GetSession, Idle, Located, ThreadsOK
  <2>1. TablesOK(Tables)' /\ TablesOK(replica)'
    BY <1>0, <1>7 DEF GetSession, TablesOK, Tables
  <2>2. BoundsOK'
    <3>1. faults' \in 0 .. MaxFaults
      BY <1>0, <1>7, FaultBound DEF GetSession, BoundsOK
    <3> QED
      BY <1>0, <1>7, <3>1 DEF GetSession, BoundsOK
  <2>3. CASE Return(w, 400, NoSession, FALSE)
    <3>1. [user |-> call[w].user, game |-> call[w].game, status |-> 400,
           session |-> NoSession, matched |-> FALSE] \in Answer
      BY <2>0 DEF Answer, Call
    <3>2. ThreadsOK'
      BY <2>3, <3>1, ReturnType, Zenon
    <3> QED
      BY <2>1, <2>2, <3>2 DEF TypeOK
  <2>4. ASSUME NEW t \in Readable, NEW players,
               players = IF found[w] \in DOMAIN t.sessions
                         THEN Split(t.sessions[found[w]].players) ELSE <<>>,
               party' = [party EXCEPT ![w] = players],
               Goto(w, "updateSession"),
               UNCHANGED <<mutex, call, found, answer>>
        PROVE  TypeOK'
    <3>1. ASSUME found[w] \in DOMAIN t.sessions
          PROVE  t.sessions[found[w]].players \in Players
      BY <1>0, <2>4, <3>1 DEF Readable, TablesOK, Session
    <3>2. players \in Players
      BY <2>4, <3>1, SplitPrefix DEF Players
    <3>3. ThreadsOK'
      BY <1>0, <2>0, <2>4, <3>2 DEF ThreadsOK, Idle, Located, Goto, Call
    <3> QED
      BY <2>1, <2>2, <3>3 DEF TypeOK
  <2> QED
    BY <1>7, <2>3, <2>4 DEF GetSession
<1>8. ASSUME NEW w \in Worker, UpdateSession(w) PROVE TypeOK'
  <2>0. /\ pc[w] = "updateSession" /\ call[w] \in Call
        /\ party[w] \in Players
    BY <1>0, <1>8 DEF UpdateSession, Idle, ThreadsOK
  <2> DEFINE joined == Append(party[w], call[w].user)
             s == [sessions EXCEPT ![found[w]] =
                     [game |-> @.game, players |-> joined]]
  <2>1. joined \in Players
    BY <2>0 DEF Call, Players
  <2>2. TablesOK([sessions |-> s, waiting |-> waiting])
    <3> HIDE DEF joined
    <3> QED
      BY <1>0, <2>1 DEF TablesOK, Tables, Session
  <2>3. TablesOK(Tables') /\ TablesOK(replica') /\ faults' \in 0 .. MaxFaults
    BY <1>8, <2>2, WriteType DEF UpdateSession
  <2>4. BoundsOK'
    BY <1>0, <1>8, <2>3 DEF UpdateSession, BoundsOK
  <2>5. ThreadsOK'
    BY <1>0, <1>8, <2>0 DEF UpdateSession, ThreadsOK, Idle, Located, Goto
  <2> QED
    BY <2>3, <2>4, <2>5 DEF TypeOK
<1>9. ASSUME NEW w \in Worker, DeleteWaiting(w) PROVE TypeOK'
  <2>0. pc[w] = "deleteWaiting" /\ ~Idle(w) /\ call[w] \in Call
           /\ found[w] \in SessionId
    BY <1>0, <1>9 DEF DeleteWaiting, Idle, Located, ThreadsOK
  <2>1. TablesOK([sessions |-> sessions, waiting |->
                   [waiting EXCEPT ![call[w].game] = NoSession]])
    BY <1>0, <2>0 DEF TablesOK, Tables
  <2>2. TablesOK(Tables') /\ TablesOK(replica') /\ faults' \in 0 .. MaxFaults
    BY <1>9, <2>1, WriteType DEF DeleteWaiting
  <2>3. BoundsOK'
    BY <1>0, <1>9, <2>2 DEF DeleteWaiting, BoundsOK
  <2>a. [user |-> call[w].user, game |-> call[w].game, status |-> 200,
         session |-> found[w], matched |-> TRUE] \in Answer
    BY <2>0 DEF Answer, Call
  <2>4. Return(w, 200, found[w], TRUE)
    BY <1>9 DEF DeleteWaiting
  <2>5. ThreadsOK'
    BY <2>a, <2>4, ReturnType, Zenon
  <2> QED
    BY <2>2, <2>3, <2>5 DEF TypeOK
<1>10. ASSUME Signup \/ Tick PROVE TypeOK'
  <2>1. TablesOK(Tables)' /\ TablesOK(replica)'
    BY <1>0, <1>10 DEF Signup, Tick, TablesOK, Tables
  <2>2. ThreadsOK'
    BY <1>0, <1>10 DEF Signup, Tick, ThreadsOK, Idle, Located
  <2>3. BoundsOK'
    BY <1>0, <1>10, Constants DEF Signup, Tick, BoundsOK
  <2> QED
    BY <2>1, <2>2, <2>3 DEF TypeOK
<1>11. ASSUME Restart PROVE TypeOK'
  <2>1. TablesOK(Tables)' /\ TablesOK(replica)'
    BY <1>0, <1>11 DEF Restart, TablesOK, Tables
  <2>2. ThreadsOK'
    BY <1>0, <1>11, EmptyParty DEF Restart, ThreadsOK, Idle, Located
  <2>3. BoundsOK'
    BY <1>0, <1>11, Constants DEF Restart, BoundsOK, Fault
  <2> QED
    BY <2>1, <2>2, <2>3 DEF TypeOK
<1>12. ASSUME CatchUp PROVE TypeOK'
  BY <1>0, <1>12 DEF TypeOK,
     CatchUp, TablesOK, Tables, ThreadsOK, BoundsOK, Idle, Located
<1>13. ASSUME UNCHANGED vars PROVE TypeOK'
  BY <1>0, <1>13 DEF TypeOK,
     vars, TablesOK, Tables, ThreadsOK, BoundsOK, Idle, Located
<1> QED
  BY <1>1, <1>2, <1>3, <1>4, <1>5, <1>6, <1>7, <1>8, <1>9, <1>10, <1>11,
     <1>12, <1>13 DEF Next, Serve

\* Every reachable state is well typed: the tables hold identifiers that
\* can be drawn and lists of users, and a thread that writes to them has
\* found or drawn a session before (findOrCreateSession).
THEOREM TypeCorrect == Spec => []TypeOK
<1>1. Init => TypeOK
  BY InitType
<1>2. TypeOK /\ [Next]_vars => TypeOK'
  BY StepType
<1> QED
  BY <1>1, <1>2, PTL DEF Spec

-----------------------------------------------------------------------------
(* The shape of sessions, in every environment.                            *)

\* What the joining thread carries from its read to its write.
Joining ==
  \A w \in Worker : pc[w] = "updateSession" =>
    Len(party[w]) = 1 /\ party[w][1] # call[w].user

ShapeInv == Joining /\ SessionShape

LEMMA StepShape == TypeOK /\ ShapeInv /\ [Next]_vars => ShapeInv'
<1> SUFFICES ASSUME TypeOK, ShapeInv, [Next]_vars PROVE ShapeInv'
  OBVIOUS
<1> USE DEF tables, server, env, rng, locals
<1>0. Joining /\ SessionShape /\ ThreadsOK /\ TablesOK(Tables)
  BY DEF ShapeInv, TypeOK
<1>1. ASSUME NEW w \in Worker, NEW u \in User, NEW g \in GameType,
             Request(w, u, g)
      PROVE  ShapeInv'
  BY <1>0, <1>1 DEF Request, Goto, ShapeInv, Joining, SessionShape, ThreadsOK
<1>2. ASSUME NEW w \in Worker, Lock(w) \/ Scan(w) \/ GetWaiting(w)
      PROVE  ShapeInv'
  <2>1. UNCHANGED sessions
    BY <1>2 DEF Lock, Scan, GetWaiting
  <2>2. pc' = [pc EXCEPT ![w] = pc'[w]] /\ pc'[w] # "updateSession"
    BY <1>0, <1>2 DEF Lock, Scan, GetWaiting, Goto, Return, ThreadsOK
  <2>3. \A v \in Worker \ {w} : party'[v] = party[v] /\ call'[v] = call[v]
    BY <1>0, <1>2 DEF Lock, Scan, GetWaiting, Return, DrawId, ThreadsOK
  <2> QED
    BY <1>0, <2>1, <2>2, <2>3 DEF ShapeInv, Joining, SessionShape, ThreadsOK
<1>3. ASSUME NEW w \in Worker, PutSession(w) PROVE ShapeInv'
  <2>1. SessionShape'
    BY <1>0, <1>3 DEF PutSession, Write, Put, SessionShape, Fault
  <2>2. Joining'
    BY <1>0, <1>3 DEF PutSession, Goto, Joining, ThreadsOK
  <2> QED
    BY <2>1, <2>2 DEF ShapeInv
<1>4. ASSUME NEW w \in Worker, PutWaiting(w) \/ DeleteWaiting(w)
      PROVE  ShapeInv'
  <2>1. UNCHANGED sessions
    BY <1>4 DEF PutWaiting, DeleteWaiting, Write
  <2>2. pc' = [pc EXCEPT ![w] = "idle"]
    BY <1>4 DEF PutWaiting, DeleteWaiting, Return, Goto
  <2>3. \A v \in Worker \ {w} : party'[v] = party[v] /\ call'[v] = call[v]
    BY <1>0, <1>4 DEF PutWaiting, DeleteWaiting, Return, ThreadsOK
  <2> QED
    BY <1>0, <2>1, <2>2, <2>3 DEF ShapeInv, Joining, SessionShape, ThreadsOK
<1>5. ASSUME NEW w \in Worker, GetSession(w) PROVE ShapeInv'
  <2>1. UNCHANGED sessions
    BY <1>5 DEF GetSession
  <2>2. pc' = [pc EXCEPT ![w] = pc'[w]]
    BY <1>0, <1>5 DEF GetSession, Goto, Return, ThreadsOK
  <2>3. \A v \in Worker \ {w} : party'[v] = party[v] /\ call'[v] = call[v]
    BY <1>0, <1>5 DEF GetSession, Return, ThreadsOK
  <2>4. pc'[w] = "updateSession" =>
          Len(party'[w]) = 1 /\ party'[w][1] # call'[w].user
    BY <1>0, <1>5 DEF GetSession, Goto, Return, ThreadsOK
  <2> QED
    BY <1>0, <2>1, <2>2, <2>3, <2>4
       DEF ShapeInv, Joining, SessionShape, ThreadsOK
<1>6. ASSUME NEW w \in Worker, UpdateSession(w) PROVE ShapeInv'
  <2> DEFINE joined == Append(party[w], call[w].user)
  <2>1. Len(joined) = 2 /\ joined[1] # joined[2]
    <3>1. /\ party[w] \in Players /\ Len(party[w]) = 1
          /\ party[w][1] # call[w].user /\ call[w].user \in User
      BY <1>0, <1>6 DEF UpdateSession, Joining, ThreadsOK, Call, Idle
    <3> QED
      BY <3>1, AppendSecond
  <2>2. SessionShape'
    <3> HIDE DEF joined
    <3>1. \/ UNCHANGED sessions
          \/ sessions' = [sessions EXCEPT ![found[w]] =
                            [game |-> @.game, players |-> joined]]
      BY <1>6 DEF UpdateSession, Write, joined
    <3> QED
      BY <1>0, <2>1, <3>1 DEF SessionShape
  <2>3. Joining'
    BY <1>0, <1>6 DEF UpdateSession, Goto, Joining, ThreadsOK
  <2> QED
    BY <2>2, <2>3 DEF ShapeInv
<1>7. ASSUME Signup \/ Tick \/ CatchUp \/ UNCHANGED vars PROVE ShapeInv'
  BY <1>0, <1>7 DEF Signup, Tick, CatchUp, vars, ShapeInv, Joining,
                    SessionShape
<1>8. ASSUME Restart PROVE ShapeInv'
  BY <1>0, <1>8 DEF Restart, ShapeInv, Joining, SessionShape
<1> QED
  BY <1>1, <1>2, <1>3, <1>4, <1>5, <1>6, <1>7, <1>8 DEF Next, Serve

\* No session ever has three players or the same player twice, whatever
\* requests fail, reads lag, writes are lost or identifiers come back: the
\* checks of GetSession hold for the list that UpdateSession extends.
THEOREM ShapeSafe == Spec => []SessionShape
<1>1. Init => ShapeInv
  BY DEF Init, ShapeInv, Joining, SessionShape
<1>2. TypeOK /\ ShapeInv /\ [Next]_vars => ShapeInv'
  BY StepShape
<1>3. ShapeInv => SessionShape
  BY DEF ShapeInv
<1> QED
  BY <1>1, <1>2, <1>3, TypeCorrect, PTL DEF Spec

-----------------------------------------------------------------------------
(* One session per user.                                                   *)
(*                                                                         *)
(* The scan sees the user in no session and the result is used up to three *)
(* requests later.  What keeps it true is the lock, so the induction needs *)
(* mutual exclusion; and since sessions are found again through the        *)
(* waiting table, it needs that identifiers are fresh and that an entry    *)
(* names a session of its own game type.                                   *)

MutexHeld == \A w \in Worker : Inside(w) <=> mutex = w

Drawn(id) == id[2] < drawn

Newcomer(w) ==
  \A id \in DOMAIN sessions :
    sessions[id].game = call[w].game => ~InSession(call[w].user, id)

\* Both need the scan: one that fails reports no session.
Fresh(w) == "failScan" \notin Event => Newcomer(w)

Sole == "failScan" \notin Event => OneSessionPerUser

TableInv ==
  /\ replica = Tables
  /\ \A id \in DOMAIN sessions : Drawn(id)
  /\ \A g \in GameType : waiting[g] # NoSession =>
       /\ Drawn(waiting[g])
       /\ waiting[g] \in DOMAIN sessions => sessions[waiting[g]].game = g

ThreadInv(w) ==
  /\ Located(w) => Drawn(found[w])
  /\ pc[w] \in {"getWaiting", "putSession", "getSession", "updateSession"}
       => Fresh(w)
  /\ pc[w] = "putSession" =>
       /\ found[w] \notin DOMAIN sessions
       /\ \A g \in GameType : waiting[g] # found[w]
  /\ (/\ pc[w] \in {"putWaiting", "getSession", "updateSession"}
      /\ found[w] \in DOMAIN sessions)
       => sessions[found[w]].game = call[w].game
  /\ pc[w] = "updateSession" =>
       /\ found[w] \in DOMAIN sessions
       /\ party[w] = Split(sessions[found[w]].players)
       /\ Len(party[w]) = 1

PairInv == /\ TableInv
           /\ MutexHeld
           /\ \A w \in Worker : ThreadInv(w)
           /\ Sole

\* A thread outside the critical section has nothing to keep true.
LEMMA OutsideInv == \A w \in Worker : ~Inside(w)' => ThreadInv(w)'
BY DEF Inside, ThreadInv, Located

\* A step inside the critical section keeps the lock or gives it back, and
\* no other thread is inside.
LEMMA InsideStep ==
  ASSUME TypeOK, MutexHeld, NEW w \in Worker, Inside(w), NEW next,
         Goto(w, next),
         \/ next \notin {"idle", "lock"} /\ UNCHANGED mutex
         \/ next = "idle" /\ mutex' = NoWorker
  PROVE  /\ MutexHeld'
         /\ pc'[w] = next
         /\ \A v \in Worker \ {w} : ThreadInv(v)'
<1>1. /\ pc \in [Worker -> {"idle", "lock", "scan", "getWaiting", "putSession",
                            "putWaiting", "getSession", "updateSession",
                            "deleteWaiting"}]
      /\ mutex = w /\ w # NoWorker
  BY NullAssumption DEF TypeOK, ThreadsOK, MutexHeld
<1>2. pc' = [pc EXCEPT ![w] = next]
  BY DEF Goto
<1>3. MutexHeld'
  BY <1>1, <1>2, NullAssumption DEF MutexHeld, Inside
<1>4. ASSUME NEW v \in Worker \ {w} PROVE ~Inside(v)'
  BY <1>1, <1>2 DEF MutexHeld, Inside
<1> QED
  BY <1>1, <1>2, <1>3, <1>4, OutsideInv

\* The steps that leave both tables alone.
LEMMA QuietTables ==
  ASSUME TableInv, Sole, UNCHANGED tables,
         TypeOK, drawn' = drawn \/ drawn' = drawn + 1
  PROVE  TableInv' /\ Sole'
<1>1. drawn \in Nat
  BY DEF TypeOK, BoundsOK
<1>2. Sole'
  BY DEF tables, Sole, OneSessionPerUser, InSession
<1>3. \A id \in SessionId : Drawn(id) => Drawn(id)'
  BY <1>1, Constants DEF Drawn, SessionId
<1>4. /\ \A id \in DOMAIN sessions : id \in SessionId
      /\ \A g \in GameType : waiting[g] # NoSession => waiting[g] \in SessionId
  BY DEF TypeOK, TablesOK, Tables
<1>5. TableInv'
  BY <1>3, <1>4 DEF tables, TableInv, Tables
<1> QED
  BY <1>2, <1>5

LEMMA StepPair ==
  ASSUME Event \subseteq {"failScan", "failGet", "loseWrite"}
  PROVE  TypeOK /\ TypeOK' /\ PairInv /\ [Next]_vars => PairInv'
<1> SUFFICES ASSUME TypeOK, TypeOK', PairInv, [Next]_vars PROVE PairInv'
  OBVIOUS
<1> USE DEF tables, server, env, rng, locals
<1>0. /\ TableInv /\ MutexHeld /\ Sole /\ ThreadsOK
      /\ \A w \in Worker : ThreadInv(w)
      /\ TablesOK(Tables) /\ replica = Tables
  BY DEF PairInv, TypeOK, TableInv
<1>t. /\ DOMAIN sessions \subseteq SessionId
      /\ \A id \in DOMAIN sessions : sessions[id].players \in Players
      /\ \A g \in GameType : waiting[g] # NoSession => waiting[g] \in SessionId
      /\ drawn \in Nat
  BY <1>0, Constants DEF TablesOK, Tables, Session, TypeOK, BoundsOK
<1>1. ASSUME NEW w \in Worker, NEW u \in User, NEW g \in GameType,
             Request(w, u, g)
      PROVE  PairInv'
  <2>1. TableInv' /\ Sole'
    BY <1>0, <1>1, QuietTables DEF Request
  <2>2. MutexHeld' /\ ~Inside(w)'
    BY <1>0, <1>1 DEF Request, Goto, MutexHeld, Inside, ThreadsOK
  <2>3. ASSUME NEW v \in Worker \ {w} PROVE ThreadInv(v)'
    <3>1. /\ pc'[v] = pc[v] /\ call'[v] = call[v]
          /\ UNCHANGED <<sessions, waiting, found, party, drawn>>
      BY <1>0, <1>1, <2>3 DEF Request, Goto, ThreadsOK
    <3>2. ThreadInv(v)
      BY <1>0
    <3> QED
      BY <3>1, <3>2
         DEF ThreadInv, Located, Drawn, Fresh, Newcomer, InSession
  <2> QED
    BY <2>1, <2>2, <2>3, OutsideInv DEF PairInv
<1>2. ASSUME NEW w \in Worker, Lock(w) PROVE PairInv'
  <2>1. TableInv' /\ Sole'
    BY <1>0, <1>2, QuietTables DEF Lock
  <2>2. MutexHeld'
    BY <1>0, <1>2, NullAssumption
       DEF Lock, Goto, MutexHeld, Inside, ThreadsOK
  <2>3. ASSUME NEW v \in Worker PROVE ThreadInv(v)'
    <3>1. ~Inside(v) /\ (pc'[v] = pc[v] \/ pc'[v] = "scan")
      BY <1>0, <1>2, NullAssumption DEF Lock, Goto, MutexHeld, Inside, ThreadsOK
    <3> QED
      BY <3>1 DEF Inside, ThreadInv, Located
  <2> QED
    BY <2>1, <2>2, <2>3 DEF PairInv
<1>3. ASSUME NEW w \in Worker, Scan(w) PROVE PairInv'
  <2>0. Inside(w)
    BY <1>3 DEF Scan, Inside
  <2>1. TableInv' /\ Sole'
    BY <1>0, <1>3, QuietTables DEF Scan, Return
  <2>2. ASSUME Goto(w, "idle"), mutex' = NoWorker PROVE PairInv'
    <3>1. /\ MutexHeld' /\ pc'[w] = "idle"
          /\ \A v \in Worker \ {w} : ThreadInv(v)'
      BY <1>0, <2>0, <2>2, InsideStep
    <3> QED
      BY <2>1, <3>1, OutsideInv DEF PairInv, Inside
  <2>3. ASSUME Fresh(w), Goto(w, "getWaiting"), UNCHANGED <<mutex, locals>>
        PROVE  PairInv'
    <3>1. /\ MutexHeld' /\ pc'[w] = "getWaiting"
          /\ \A v \in Worker \ {w} : ThreadInv(v)'
      BY <1>0, <2>0, <2>3, InsideStep
    <3>2. ThreadInv(w)'
      BY <1>3, <2>3, <3>1
         DEF Scan, ThreadInv, Located, Fresh, Newcomer, InSession
    <3> QED
      BY <2>1, <3>1, <3>2 DEF PairInv
  <2>4. ASSUME NEW t \in Readable,
               \A id \in DOMAIN t.sessions :
                 ~ /\ t.sessions[id].game = call[w].game
                   /\ Contains(t.sessions[id].players, call[w].user)
        PROVE  Fresh(w)
    <3>1. t = Tables
      BY <1>0, <2>4 DEF Readable
    <3> QED
      BY <2>4, <3>1 DEF Tables, Fresh, Newcomer, InSession, Contains
  <2>5. Fault("failScan") => Fresh(w)
    BY DEF Fault, Fresh
  <2> QED
    BY <1>3, <2>2, <2>3, <2>4, <2>5 DEF Scan, Return
<1>4. ASSUME NEW w \in Worker, GetWaiting(w) PROVE PairInv'
  <2>0. Inside(w) /\ Fresh(w)
    BY <1>0, <1>4 DEF GetWaiting, Inside, ThreadInv
  <2>1. TableInv' /\ Sole'
    BY <1>0, <1>4, QuietTables DEF GetWaiting, DrawId
  <2>2. Fresh(w)'
    BY <1>4, <2>0 DEF GetWaiting, DrawId, Fresh, Newcomer, InSession
  <2>3. CASE DrawId(w) /\ Goto(w, "putSession")
    <3>1. /\ MutexHeld' /\ pc'[w] = "putSession"
          /\ \A v \in Worker \ {w} : ThreadInv(v)'
      BY <1>0, <1>4, <2>0, <2>3, InsideStep DEF GetWaiting
    <3>2. found'[w] = <<seed, drawn>> /\ drawn' = drawn + 1
      BY <1>0, <2>3 DEF DrawId, ThreadsOK
    <3>3. Drawn(found[w])'
      BY <1>t, <3>2 DEF Drawn
    <3>4. ~Drawn(<<seed, drawn>>)
      BY <1>t DEF Drawn
    <3>5. NoSession # <<seed, drawn>>
      BY <1>4, <2>3, Constants DEF DrawId, SessionId, TypeOK, BoundsOK
    <3>6. /\ found'[w] \notin DOMAIN sessions
          /\ \A g \in GameType : waiting[g] # found'[w]
      BY <1>0, <3>2, <3>4, <3>5 DEF TableInv
    <3>7. ThreadInv(w)'
      BY <1>4, <2>2, <3>1, <3>3, <3>6 DEF GetWaiting, ThreadInv, Located
    <3> QED
      BY <2>1, <3>1, <3>7 DEF PairInv
  <2>4. CASE /\ Goto(w, "getSession")
             /\ UNCHANGED <<drawn, faults>>
             /\ \E t \in Readable :
                  /\ t.waiting[call[w].game] # NoSession
                  /\ found' = [found EXCEPT ![w] = t.waiting[call[w].game]]
    <3>1. /\ MutexHeld' /\ pc'[w] = "getSession"
          /\ \A v \in Worker \ {w} : ThreadInv(v)'
      BY <1>0, <1>4, <2>0, <2>4, InsideStep DEF GetWaiting
    <3>2. /\ waiting[call[w].game] # NoSession
          /\ found'[w] = waiting[call[w].game]
      BY <1>0, <2>4 DEF Readable, Tables, ThreadsOK
    <3>3. call[w].game \in GameType /\ UNCHANGED call
      BY <1>0, <1>4 DEF GetWaiting, ThreadsOK, Idle, Call
    <3>4. /\ Drawn(found'[w])
          /\ found'[w] \in DOMAIN sessions =>
               sessions[found'[w]].game = call[w].game
      BY <1>0, <3>2, <3>3 DEF TableInv
    <3>5. ThreadInv(w)'
      BY <1>4, <2>2, <2>4, <3>1, <3>3, <3>4
         DEF GetWaiting, ThreadInv, Located, Drawn
    <3> QED
      BY <2>1, <3>1, <3>5 DEF PairInv
  <2> QED
    BY <1>4, <2>3, <2>4 DEF GetWaiting
<1>5. ASSUME NEW w \in Worker, PutSession(w) PROVE PairInv'
  <2>0. /\ Inside(w) /\ Fresh(w) /\ Drawn(found[w])
        /\ found[w] \notin DOMAIN sessions
        /\ \A g \in GameType : waiting[g] # found[w]
    BY <1>0, <1>5 DEF PutSession, Inside, ThreadInv, Located
  <2>1. /\ MutexHeld' /\ pc'[w] = "putWaiting"
        /\ \A v \in Worker \ {w} : ThreadInv(v)'
    BY <1>0, <1>5, <2>0, InsideStep DEF PutSession
  <2>2. UNCHANGED <<waiting, drawn, found, call>> /\ replica' = Tables'
    BY <1>5 DEF PutSession, Write
  <2>3. CASE UNCHANGED sessions
    <3>1. TableInv' /\ Sole'
      BY <1>0, <2>2, <2>3 DEF TableInv, Sole, OneSessionPerUser, InSession,
             Drawn
    <3>2. ThreadInv(w)'
      BY <2>0, <2>1, <2>2, <2>3 DEF ThreadInv, Located, Drawn
    <3> QED
      BY <2>1, <3>1, <3>2 DEF PairInv
  <2>4. CASE sessions' = Put(sessions, found[w],
                             [game |-> call[w].game,
                              players |-> <<call[w].user>>])
    <3>1. /\ DOMAIN sessions' = DOMAIN sessions \cup {found[w]}
          /\ sessions'[found[w]].game = call[w].game
          /\ sessions'[found[w]].players = <<call[w].user>>
          /\ \A id \in DOMAIN sessions : sessions'[id] = sessions[id]
      BY <2>0, <2>4 DEF Put
    <3>2. TableInv'
      <4>1. \A id \in DOMAIN sessions' : Drawn(id)'
        BY <1>0, <2>0, <2>2, <3>1 DEF TableInv, Drawn
      <4>2. ASSUME NEW g \in GameType, waiting'[g] # NoSession
            PROVE  /\ Drawn(waiting[g])'
                   /\ waiting'[g] \in DOMAIN sessions' =>
                        sessions'[waiting'[g]].game = g
        <5>1. waiting'[g] = waiting[g] /\ waiting[g] # found[w]
          BY <2>0, <2>2
        <5> QED
          BY <1>0, <2>2, <3>1, <4>2, <5>1 DEF TableInv, Drawn
      <4> QED
        BY <2>2, <4>1, <4>2 DEF TableInv
    <3>3. \A u \in User, id \in DOMAIN sessions' :
            InSession(u, id)' =>
              \/ id \in DOMAIN sessions /\ InSession(u, id)
              \/ id = found[w] /\ u = call[w].user
      BY <3>1 DEF InSession
    <3>4. \A id \in DOMAIN sessions : sessions'[id].game = sessions[id].game
      BY <3>1
    <3>5. Sole'
      BY <1>0, <2>0, <3>1, <3>3, <3>4
         DEF Sole, OneSessionPerUser, Fresh, Newcomer
    <3>6. ThreadInv(w)'
      BY <2>0, <2>1, <2>2, <3>1 DEF ThreadInv, Located, Drawn
    <3> QED
      BY <2>1, <3>2, <3>5, <3>6 DEF PairInv
  <2> QED
    BY <1>5, <2>3, <2>4 DEF PutSession, Write
<1>6. ASSUME NEW w \in Worker, PutWaiting(w) \/ DeleteWaiting(w)
      PROVE  PairInv'
  <2>0. Inside(w) /\ call[w].game \in GameType
    BY <1>0, <1>6 DEF PutWaiting, DeleteWaiting, Inside, ThreadsOK, Idle, Call
  <2>1. /\ MutexHeld' /\ pc'[w] = "idle"
        /\ \A v \in Worker \ {w} : ThreadInv(v)'
    BY <1>0, <1>6, <2>0, InsideStep DEF PutWaiting, DeleteWaiting, Return
  <2>2. UNCHANGED <<sessions, drawn>> /\ replica' = Tables'
    BY <1>6 DEF PutWaiting, DeleteWaiting, Write
  <2>3. \/ UNCHANGED waiting
        \/ waiting' = [waiting EXCEPT ![call[w].game] = NoSession]
        \/ /\ pc[w] = "putWaiting"
           /\ waiting' = [waiting EXCEPT ![call[w].game] = found[w]]
    BY <1>6 DEF PutWaiting, DeleteWaiting, Write
  <2>4. waiting \in [GameType -> SessionId \cup {NoSession}]
    BY <1>0 DEF TablesOK, Tables
  <2>5. pc[w] = "putWaiting" =>
          /\ Drawn(found[w])
          /\ found[w] \in DOMAIN sessions =>
               sessions[found[w]].game = call[w].game
    BY <1>0 DEF ThreadInv, Located
  <2>6. TableInv'
    BY <1>0, <2>0, <2>2, <2>3, <2>4, <2>5 DEF TableInv, Drawn
  <2>7. Sole'
    BY <1>0, <2>2 DEF Sole, OneSessionPerUser, InSession
  <2> QED
    BY <2>1, <2>6, <2>7, OutsideInv DEF PairInv, Inside
<1>7. ASSUME NEW w \in Worker, GetSession(w) PROVE PairInv'
  <2>0. /\ Inside(w) /\ Fresh(w) /\ Drawn(found[w])
        /\ found[w] \in DOMAIN sessions => sessions[found[w]].game = call[w].game
    BY <1>0, <1>7 DEF GetSession, Inside, ThreadInv, Located
  <2>1. TableInv' /\ Sole'
    BY <1>0, <1>7, QuietTables DEF GetSession
  <2>2. ASSUME Goto(w, "idle"), mutex' = NoWorker PROVE PairInv'
    <3>1. /\ MutexHeld' /\ pc'[w] = "idle"
          /\ \A v \in Worker \ {w} : ThreadInv(v)'
      BY <1>0, <2>0, <2>2, InsideStep
    <3> QED
      BY <2>1, <3>1, OutsideInv DEF PairInv, Inside
  <2>3. ASSUME NEW t \in Readable, NEW players,
               players = IF found[w] \in DOMAIN t.sessions
                         THEN Split(t.sessions[found[w]].players) ELSE <<>>,
               Len(players) = 1,
               party' = [party EXCEPT ![w] = players],
               Goto(w, "updateSession"), UNCHANGED <<mutex, call, found>>
        PROVE  PairInv'
    <3>1. /\ MutexHeld' /\ pc'[w] = "updateSession"
          /\ \A v \in Worker \ {w} : ThreadInv(v)'
      BY <1>0, <2>0, <2>3, InsideStep
    <3>2. t = Tables
      BY <1>0, <2>3 DEF Readable
    <3>3. Len(<<>>) = 0
      OBVIOUS
    <3>4. /\ found[w] \in DOMAIN sessions
          /\ players = Split(sessions[found[w]].players)
      BY <2>3, <3>2, <3>3 DEF Tables
    <3>5. party'[w] = players
      BY <1>0, <2>3 DEF ThreadsOK
    <3>6. UNCHANGED <<sessions, waiting, drawn>>
      BY <1>7 DEF GetSession
    <3>7. ThreadInv(w)'
      BY <2>0, <2>3, <3>1, <3>4, <3>5, <3>6
         DEF ThreadInv, Located, Fresh, Newcomer, InSession, Drawn
    <3> QED
      BY <2>1, <3>1, <3>7 DEF PairInv
  <2> QED
    BY <1>7, <2>2, <2>3 DEF GetSession, Return
<1>8. ASSUME NEW w \in Worker, UpdateSession(w) PROVE PairInv'
  <2> DEFINE joined == Append(party[w], call[w].user)
  <2>0. /\ Inside(w) /\ Fresh(w) /\ Drawn(found[w])
        /\ found[w] \in DOMAIN sessions
        /\ sessions[found[w]].game = call[w].game
        /\ party[w] = Split(sessions[found[w]].players)
        /\ party[w] \in Players /\ Len(party[w]) = 1
        /\ call[w].user \in User
    BY <1>0, <1>8
       DEF UpdateSession, Inside, ThreadInv, Located, ThreadsOK, Idle, Call
  <2>1. /\ MutexHeld' /\ pc'[w] = "deleteWaiting"
        /\ \A v \in Worker \ {w} : ThreadInv(v)'
    BY <1>0, <1>8, <2>0, InsideStep DEF UpdateSession
  <2>2. UNCHANGED <<waiting, drawn, found>> /\ replica' = Tables'
    BY <1>8 DEF UpdateSession, Write
  <2>3. ThreadInv(w)'
    BY <2>0, <2>1, <2>2 DEF ThreadInv, Located, Drawn
  <2>4. CASE UNCHANGED sessions
    <3>1. TableInv' /\ Sole'
      BY <1>0, <2>2, <2>4 DEF TableInv, Sole, OneSessionPerUser, InSession,
             Drawn
    <3> QED
      BY <2>1, <2>3, <3>1 DEF PairInv
  <2>5. CASE sessions' = [sessions EXCEPT ![found[w]] =
                            [game |-> @.game, players |-> joined]]
    <3>1. /\ joined \in Players /\ Len(joined) = 2
          /\ joined[1] = party[w][1] /\ joined[2] = call[w].user
      BY <2>0, AppendSecond
    <3>2. sessions[found[w]].players \in Players
      BY <1>t, <2>0
    <3>3. InSession(party[w][1], found[w])
      <4>1. /\ 1 <= Len(sessions[found[w]].players)
            /\ party[w][1] = sessions[found[w]].players[1]
        BY <2>0, <3>2, SplitPrefix
      <4>2. 1 \in DOMAIN sessions[found[w]].players
        BY <3>2, <4>1 DEF Players
      <4> QED
        BY <4>1, <4>2 DEF InSession
    <3> HIDE DEF joined
    <3>4. /\ DOMAIN sessions' = DOMAIN sessions
          /\ sessions'[found[w]].game = sessions[found[w]].game
          /\ sessions'[found[w]].players = joined
          /\ \A id \in DOMAIN sessions \ {found[w]} : sessions'[id] = sessions[id]
      BY <2>0, <2>5
    <3>5. TableInv'
      BY <1>0, <2>2, <3>4 DEF TableInv, Drawn
    <3>6. DOMAIN joined = {1, 2}
      BY <3>1 DEF Players
    <3>7. ASSUME NEW u \in User, NEW id \in DOMAIN sessions, InSession(u, id)'
          PROVE  InSession(u, id) \/ (id = found[w] /\ u = call[w].user)
      <4>1. CASE id = found[w]
        <5>1. u \in {joined[1], joined[2]}
          BY <3>4, <3>6, <3>7, <4>1 DEF InSession
        <5> QED
          BY <3>1, <3>3, <4>1, <5>1
      <4>2. CASE id # found[w]
        BY <3>4, <3>7, <4>2 DEF InSession
      <4> QED
        BY <4>1, <4>2
    <3>9. \A id \in DOMAIN sessions : sessions'[id].game = sessions[id].game
      BY <3>4
    <3>10. Sole'
      BY <1>0, <2>0, <3>4, <3>7, <3>9
         DEF Sole, OneSessionPerUser, Fresh, Newcomer
    <3> QED
      BY <2>1, <2>3, <3>5, <3>10 DEF PairInv
  <2> QED
    BY <1>8, <2>4, <2>5 DEF UpdateSession, Write
<1>9. ~Signup /\ ~Tick /\ ~Restart /\ ~CatchUp
  BY <1>0 DEF Signup, Tick, Restart, Fault, CatchUp
<1>10. ASSUME UNCHANGED vars PROVE PairInv'
  BY <1>0, <1>10
     DEF vars, PairInv, TableInv, MutexHeld, ThreadInv, Sole,
         OneSessionPerUser, InSession, Inside, Located, Fresh, Newcomer, Drawn, Tables
<1> QED
  BY <1>1, <1>2, <1>3, <1>4, <1>5, <1>6, <1>7, <1>8, <1>9, <1>10
     DEF Next, Serve

LEMMA PairAlways ==
  ASSUME Event \subseteq {"failScan", "failGet", "loseWrite"}
  PROVE  Spec => []PairInv
<1>1. Init => PairInv
  <2> SUFFICES ASSUME Init PROVE PairInv
    OBVIOUS
  <2>1. MutexHeld /\ \A w \in Worker : ThreadInv(w)
    BY NullAssumption DEF Init, MutexHeld, Inside, ThreadInv, Located
  <2>2. TableInv /\ Sole
    BY DEF Init, TableInv, Sole, OneSessionPerUser
  <2> QED
    BY <2>1, <2>2 DEF PairInv
<1>2. TypeOK /\ TypeOK' /\ PairInv /\ [Next]_vars => PairInv'
  BY StepPair
<1> QED
  BY <1>1, <1>2, TypeCorrect, PTL DEF Spec

\* With consistent reads and fresh identifiers, no user is ever in two
\* sessions of a game type, although reads of the waiting table fail and
\* writes are lost: the scan under sessions_mutex decides for the writes
\* that follow it, for any number of threads, users and game types.
THEOREM OneSession ==
  ASSUME Event \subseteq {"failGet", "loseWrite"}
  PROVE  Spec => []OneSessionPerUser
<1>1. PairInv => OneSessionPerUser
  BY DEF PairInv, Sole
<1>2. Event \subseteq {"failScan", "failGet", "loseWrite"}
  OBVIOUS
<1>3. Spec => []PairInv
  BY <1>2, PairAlways
<1> QED
  BY <1>1, <1>3, PTL
=============================================================================
