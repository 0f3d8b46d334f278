--------------------------- MODULE SessionService ---------------------------
(***************************************************************************)
(* Matchmaking of GamesArena: SessionService::findOrCreateSession          *)
(* (backend/src/services/session_service.cpp), called by the HTTP handler  *)
(* of POST /api/start_or_join (backend/src/api/game_routes.cpp) on the     *)
(* worker threads of the web server.                                       *)
(*                                                                         *)
(* Every call runs under sessions_mutex, but it is a sequence of separate  *)
(* requests to two DynamoDB tables, each of which may fail, and the tables *)
(* outlive the process.  One action is one such request together with the  *)
(* code up to the next one.                                                *)
(*                                                                         *)
(* A session identifier is a block of 16 numbers of the rand() stream, so  *)
(* it is the pair of the stream's seed and the position of the block.  The *)
(* stream is never seeded by makeSessionId: it has its default seed (0     *)
(* here) when the process starts, and the password hash of every signup    *)
(* seeds it with the clock (in seconds).                                   *)
(***************************************************************************)
EXTENDS Naturals, FiniteSets, Sequences

CONSTANTS
  Worker,     \* the threads that serve HTTP requests
  User,       \* the user names that requests carry
  GameType,   \* the game types that requests carry
  NoName,     \* the empty string as a user name (it need not be in User)
  SubName,    \* pairs <<u, v>>: the name u is a proper substring of v
  Event,      \* what the environment may do, a subset of Events
  MaxFaults,  \* bound: failing requests, lost writes and restarts in a run
  MaxClock,   \* bound: the last second of the clock
  MaxDraw,    \* bound: identifiers drawn from one seed of the stream
  NoWorker, NoSession, NoCall, NoAnswer

Events == {"failScan", "failGet", "loseWrite", "restart", "signup", "lag"}

SessionId == (0 .. MaxClock) \X (0 .. MaxDraw - 1)

ASSUME EventAssumption == Event \subseteq Events
ASSUME BoundAssumption == /\ MaxFaults \in Nat
                          /\ MaxClock \in Nat \ {0}
                          /\ MaxDraw \in Nat \ {0}
ASSUME NameAssumption == SubName \subseteq (User \cup {NoName}) \X User
ASSUME NullAssumption == /\ NoWorker \notin Worker
                         /\ NoSession \notin SessionId

VARIABLES
  sessions,   \* table "sessions": sessionId -> its game type and players
  waiting,    \* table "waiting_sessions": game type -> sessionId
  replica,    \* what an eventually consistent read may still return
  mutex,      \* sessions_mutex: the thread that holds it
  pc,         \* the next step of every thread
  call,       \* arguments of the call a thread executes
  found,      \* its local sessionId
  party,      \* its local players
  answer,     \* the response the thread sent last
  seed, drawn, \* state of the process-wide rand()
  clock,      \* time(NULL)
  faults      \* how many faults have happened (bound only)

tables == <<sessions, waiting, replica>>
locals == <<call, found, party>>
server == <<mutex, pc, call, found, party, answer>>
rng    == <<seed, drawn>>
env    == <<seed, drawn, clock, faults>>
vars   == <<sessions, waiting, replica, mutex, pc, call, found, party, answer,
            seed, drawn, clock, faults>>

-----------------------------------------------------------------------------
(* Player lists, sessions and calls.                                       *)

\* The "players" attribute is join_players(players): the names in order.
Players == Seq(User)
Session == [game : GameType, players : Players]
Call    == [user : User, game : GameType]
Answer  == [user : User, game : GameType, status : {200, 400},
            session : SessionId \cup {NoSession}, matched : BOOLEAN]

\* split_players: std::getline yields no last element when it is empty.
Split(players) ==
  IF players # <<>> /\ players[Len(players)] = NoName
  THEN SubSeq(players, 1, Len(players) - 1)
  ELSE players

\* Mutants: only the first player, or only full sessions, are looked at.
ContainsFirst(players, u) == players[1] = u
ContainsFull(players, u)  == \E i \in {1, 2} : Len(players) = 2 /\ players[i] = u

\* The filter "contains(players, :user)": a substring of the joined names.
Contains(players, u) ==
  \E i \in DOMAIN players : players[i] = u \/ <<u, players[i]>> \in SubName

\* PutItem: the new item replaces whatever the key had.
Put(table, key, item) ==
  [k \in DOMAIN table \cup {key} |-> IF k = key THEN item ELSE table[k]]

Tables == [sessions |-> sessions, waiting |-> waiting]

\* Reads ask for the default (eventual) consistency.
Readable == {Tables, replica}

-----------------------------------------------------------------------------
Init ==
  /\ sessions = <<>>
  /\ waiting = [g \in GameType |-> NoSession]
  /\ replica = Tables
  /\ mutex = NoWorker
  /\ pc = [w \in Worker |-> "idle"]
  /\ call = [w \in Worker |-> NoCall]
  /\ found = [w \in Worker |-> NoSession]
  /\ party = [w \in Worker |-> <<>>]
  /\ answer = [w \in Worker |-> NoAnswer]
  /\ seed = 0 /\ drawn = 0
  /\ clock = 1
  /\ faults = 0

Fault(kind) ==
  /\ kind \in Event
  /\ faults < MaxFaults
  /\ faults' = faults + 1

\* The outcome of a write is never looked at: it happens, or it is lost.
Write(newSessions, newWaiting) ==
  /\ \/ /\ sessions' = newSessions
        /\ waiting' = newWaiting
        /\ faults' = faults
     \/ /\ Fault("loseWrite")
        /\ UNCHANGED <<sessions, waiting>>
  /\ replica' = IF "lag" \in Event THEN replica ELSE Tables'

Goto(w, label) == pc' = [pc EXCEPT ![w] = label]

\* The handler's response; a request is answered once.
Respond(w, u, g, status, id, matched) ==
  answer' = [answer EXCEPT ![w] =
               [user |-> u, game |-> g, status |-> status,
                session |-> id, matched |-> matched]]

\* The call returns: lock_guard unlocks and the handler sends the response.
Return(w, status, id, matched) ==
  /\ Goto(w, "idle")
  /\ mutex' = NoWorker
  /\ \/ call[w].user = NoName /\ UNCHANGED answer
     \/ /\ call[w].user # NoName
        /\ Respond(w, call[w].user, call[w].game, status, id, matched)
  /\ call' = [call EXCEPT ![w] = NoCall]
  /\ found' = [found EXCEPT ![w] = NoSession]
  /\ party' = [party EXCEPT ![w] = <<>>]

-----------------------------------------------------------------------------
(* The steps of a call.                                                    *)

\* A thread takes up a request.  An empty user name is answered with an
\* error right away, but the handler does not return and makes the call.
Request(w, u, g) ==
  /\ pc[w] = "idle"
  /\ Goto(w, "lock")
  /\ call' = [call EXCEPT ![w] = [user |-> u, game |-> g]]
  /\ \/ u = NoName /\ Respond(w, u, g, 400, NoSession, FALSE)
     \/ u # NoName /\ answer' = [answer EXCEPT ![w] = NoAnswer]
  /\ UNCHANGED <<tables, mutex, found, party, env>>

\* Mutant: a call without the lock_guard.
LockIgnored(w) ==
  /\ pc[w] = "lock"
  /\ mutex' = w
  /\ Goto(w, "scan")
  /\ UNCHANGED <<tables, locals, answer, env>>

Lock(w) ==
  /\ pc[w] = "lock"
  /\ mutex = NoWorker
  /\ mutex' = w
  /\ Goto(w, "scan")
  /\ UNCHANGED <<tables, locals, answer, env>>

\* Step 1: is the user already in a session of this game type?  The first
\* hit is returned; no hit, or a failing scan, goes on to step 2.
Scan(w) ==
  /\ pc[w] = "scan"
  /\ \E t \in Readable :
       LET hits == {id \in DOMAIN t.sessions :
                      /\ t.sessions[id].game = call[w].game
                      /\ Contains(t.sessions[id].players, call[w].user)}
       IN \/ \E id \in hits :
               /\ Return(w, 200, id, Len(Split(t.sessions[id].players)) = 2)
               /\ UNCHANGED faults
          \/ /\ hits = {}
             /\ Goto(w, "getWaiting")
             /\ UNCHANGED <<mutex, locals, answer, faults>>
          \/ /\ Fault("failScan")
             /\ Goto(w, "getWaiting")
             /\ UNCHANGED <<mutex, locals, answer>>
  /\ UNCHANGED <<tables, rng, clock>>

\* makeSessionId: the next block of the rand() stream.
DrawId(w) ==
  /\ drawn < MaxDraw
  /\ drawn' = drawn + 1
  /\ found' = [found EXCEPT ![w] = <<seed, drawn>>]

\* Step 2: is someone waiting?  A failing read counts as "no one".
GetWaiting(w) ==
  /\ pc[w] = "getWaiting"
  /\ \/ /\ \/ /\ \E t \in Readable : t.waiting[call[w].game] = NoSession
              /\ UNCHANGED faults
           \/ Fault("failGet")
        /\ DrawId(w)
        /\ Goto(w, "putSession")
     \/ /\ \E t \in Readable :
             /\ t.waiting[call[w].game] # NoSession
             /\ found' = [found EXCEPT ![w] = t.waiting[call[w].game]]
        /\ Goto(w, "getSession")
        /\ UNCHANGED <<drawn, faults>>
  /\ UNCHANGED <<tables, mutex, call, party, answer, seed, clock>>

PutSession(w) ==
  /\ pc[w] = "putSession"
  /\ Write(Put(sessions, found[w],
               [game |-> call[w].game, players |-> <<call[w].user>>]),
           waiting)
  /\ Goto(w, "putWaiting")
  /\ UNCHANGED <<mutex, locals, answer, rng, clock>>

\* Mutant: the user, not the session, is advertised.
PutWaitingUser(w) ==
  /\ pc[w] = "putWaiting"
  /\ Write(sessions, [waiting EXCEPT ![call[w].game] = call[w].user])
  /\ Return(w, 200, found[w], FALSE)
  /\ UNCHANGED <<rng, clock>>

PutWaiting(w) ==
  /\ pc[w] = "putWaiting"
  /\ Write(sessions, [waiting EXCEPT ![call[w].game] = found[w]])
  /\ Return(w, 200, found[w], FALSE)
  /\ UNCHANGED <<rng, clock>>

\* Mutants: a full session is joined too; the return after a failing read
\* keeps the lock.
GetSessionUnchecked(w) ==
  /\ pc[w] = "getSession"
  /\ \E t \in Readable :
       /\ found[w] \in DOMAIN t.sessions
       /\ party' = [party EXCEPT ![w] = Split(t.sessions[found[w]].players)]
  /\ Goto(w, "updateSession")
  /\ UNCHANGED <<tables, mutex, call, found, answer, env>>
GetSessionKeepsLock(w) ==
  /\ pc[w] = "getSession"
  /\ \/ \E t \in Readable :
          LET players  == IF found[w] \in DOMAIN t.sessions
                          THEN Split(t.sessions[found[w]].players) ELSE <<>>
              joinable == Len(players) = 1 /\ players[1] # call[w].user
          IN /\ UNCHANGED faults
             /\ \/ /\ joinable
                   /\ party' = [party EXCEPT ![w] = players]
                   /\ Goto(w, "updateSession")
                   /\ UNCHANGED <<mutex, call, found, answer>>
                \/ /\ ~joinable
                   /\ Return(w, 400, NoSession, FALSE)
     \/ /\ Fault("failGet")
        /\ Goto(w, "idle")
        /\ Respond(w, call[w].user, call[w].game, 400, NoSession, FALSE)
        /\ call' = [call EXCEPT ![w] = NoCall]
        /\ found' = [found EXCEPT ![w] = NoSession]
        /\ UNCHANGED <<mutex, party>>
  /\ UNCHANGED <<tables, rng, clock>>

\* Joining: the session must exist and have exactly one, other, player.
\* The three error paths of the code differ only in their message.
GetSession(w) ==
  /\ pc[w] = "getSession"
  /\ \/ \E t \in Readable :
          LET players  == IF found[w] \in DOMAIN t.sessions
                          THEN Split(t.sessions[found[w]].players) ELSE <<>>
              joinable == Len(players) = 1 /\ players[1] # call[w].user
          IN /\ UNCHANGED faults
             /\ \/ /\ joinable
                   /\ party' = [party EXCEPT ![w] = players]
                   /\ Goto(w, "updateSession")
                   /\ UNCHANGED <<mutex, call, found, answer>>
                \/ /\ ~joinable
                   /\ Return(w, 400, NoSession, FALSE)
     \/ Fault("failGet") /\ Return(w, 400, NoSession, FALSE)
  /\ UNCHANGED <<tables, rng, clock>>

\* Mutant: the user who joins is put before the one who waited.
UpdateSessionFirst(w) ==
  /\ pc[w] = "updateSession"
  /\ Write([sessions EXCEPT ![found[w]] =
              [game |-> @.game, players |-> <<call[w].user>> \o party[w]]],
           waiting)
  /\ Goto(w, "deleteWaiting")
  /\ UNCHANGED <<mutex, locals, answer, rng, clock>>

\* SET players = the player that was read, followed by the user.
UpdateSession(w) ==
  /\ pc[w] = "updateSession"
  /\ Write([sessions EXCEPT ![found[w]] =
              [game |-> @.game, players |-> Append(party[w], call[w].user)]],
           waiting)
  /\ Goto(w, "deleteWaiting")
  /\ UNCHANGED <<mutex, locals, answer, rng, clock>>

\* Mutant: the entry is left behind.
KeepWaiting(w) ==
  /\ pc[w] = "deleteWaiting"
  /\ Return(w, 200, found[w], TRUE)
  /\ UNCHANGED <<tables, env>>

DeleteWaiting(w) ==
  /\ pc[w] = "deleteWaiting"
  /\ Write(sessions, [waiting EXCEPT ![call[w].game] = NoSession])
  /\ Return(w, 200, found[w], TRUE)
  /\ UNCHANGED <<rng, clock>>

-----------------------------------------------------------------------------
(* The environment.                                                        *)

\* A signup hashes its password: srand(time(NULL)), whoever uses rand().
Signup ==
  /\ "signup" \in Event
  /\ rng # <<clock, 0>>
  /\ seed' = clock /\ drawn' = 0
  /\ UNCHANGED <<tables, server, clock, faults>>

Tick ==
  /\ "signup" \in Event
  /\ clock < MaxClock
  /\ clock' = clock + 1
  /\ UNCHANGED <<tables, server, rng, faults>>

\* The process dies and starts again: the tables are all that is left.
Restart ==
  /\ Fault("restart")
  /\ mutex' = NoWorker
  /\ pc' = [w \in Worker |-> "idle"]
  /\ call' = [w \in Worker |-> NoCall]
  /\ found' = [w \in Worker |-> NoSession]
  /\ party' = [w \in Worker |-> <<>>]
  /\ seed' = 0 /\ drawn' = 0
  /\ UNCHANGED <<tables, answer, clock>>

\* DynamoDB brings its replicas up to date.
CatchUp ==
  /\ replica # Tables
  /\ replica' = Tables
  /\ UNCHANGED <<sessions, waiting, server, env>>

-----------------------------------------------------------------------------
\* The steps the thread takes by itself once it has a request.
Serve(w) ==
  \/ Lock(w)          \/ Scan(w)          \/ GetWaiting(w)
  \/ PutSession(w)    \/ PutWaiting(w)
  \/ GetSession(w)    \/ UpdateSession(w) \/ DeleteWaiting(w)

Next ==
  \/ \E w \in Worker, u \in User, g \in GameType : Request(w, u, g)
  \/ \E w \in Worker : Serve(w)
  \/ Signup \/ Tick \/ Restart \/ CatchUp

Spec == Init /\ [][Next]_vars

\* A thread that can take its next step takes it.  Nothing more is asked of
\* the mutex: std::mutex does not promise its waiters a turn.
FairSpec == Spec /\ \A w \in Worker : WF_vars(Serve(w))

-----------------------------------------------------------------------------
(* Properties.                                                             *)

Idle(w)   == pc[w] = "idle"
Inside(w) == pc[w] \notin {"idle", "lock"}
Located(w) == pc[w] \in {"putSession", "putWaiting", "getSession",
                         "updateSession", "deleteWaiting"}

InSession(u, id) == \E i \in DOMAIN sessions[id].players :
                      sessions[id].players[i] = u

TablesOK(t) ==
  /\ DOMAIN t.sessions \subseteq SessionId
  /\ \A id \in DOMAIN t.sessions : t.sessions[id] \in Session
  /\ t.waiting \in [GameType -> SessionId \cup {NoSession}]

ThreadsOK ==
  /\ mutex \in Worker \cup {NoWorker}
  /\ pc \in [Worker -> {"idle", "lock", "scan", "getWaiting", "putSession",
                        "putWaiting", "getSession", "updateSession",
                        "deleteWaiting"}]
  /\ DOMAIN call = Worker
  /\ \A w \in Worker : IF Idle(w) THEN call[w] = NoCall
                                  ELSE call[w] \in Call
  /\ found \in [Worker -> SessionId \cup {NoSession}]
  /\ \A w \in Worker : Located(w) => found[w] \in SessionId
  /\ party \in [Worker -> Players]
  /\ answer \in [Worker -> Answer \cup {NoAnswer}]

BoundsOK ==
  /\ seed \in 0 .. MaxClock
  /\ drawn \in 0 .. MaxDraw
  /\ clock \in 1 .. MaxClock
  /\ faults \in 0 .. MaxFaults

\* Every variable has its type; the tables only hold identifiers that were
\* drawn, and a thread has a call exactly while it is not idle, with a
\* session once it has found or drawn one.
TypeOK == /\ TablesOK(Tables) /\ TablesOK(replica)
          /\ ThreadsOK /\ BoundsOK

\* A session never has more than two players and never the same one twice,
\* whatever requests fail, writes are lost or identifiers come back: the
\* joining branch of findOrCreateSession decides on what it read before.
SessionShape ==
  \A id \in DOMAIN sessions :
    LET p == sessions[id].players
    IN \/ Len(p) = 1
       \/ Len(p) = 2 /\ p[1] # p[2]

\* Nobody is in two sessions of one game type: step 1 of the call ("Check
\* if user is already in a session") protects the writes several requests
\* later, also when earlier writes were lost.
OneSessionPerUser ==
  \A i, j \in DOMAIN sessions : \A u \in User :
    (/\ sessions[i].game = sessions[j].game
     /\ InSession(u, i) /\ InSession(u, j)) => i = j

\* Between two calls, the entry of waiting_sessions of a game type and its
\* half-full session are one: nobody is stranded in a session that is not
\* advertised, and nobody is sent to a session that cannot be joined.
WaitingIsOpen ==
  mutex = NoWorker =>
    \A id \in DOMAIN sessions, g \in GameType :
      /\ waiting[g] # NoSession => waiting[g] \in DOMAIN sessions
      /\ (waiting[g] = id) <=> (/\ sessions[id].game = g
                                /\ Len(Split(sessions[id].players)) = 1)

\* What start_or_join answered is and stays true: the user is in that
\* session of that game type, and has an opponent when isMatched is set.
AnswerTrue ==
  \A w \in Worker :
    (answer[w] # NoAnswer /\ answer[w].status = 200) =>
      LET id == answer[w].session
      IN /\ id \in DOMAIN sessions
         /\ sessions[id].game = answer[w].game
         /\ InSession(answer[w].user, id)
         /\ answer[w].matched => Len(sessions[id].players) = 2

\* In a world without failures nobody is turned away: the checks before
\* joining a waiting session never fail.
NobodyRefused ==
  \A w \in Worker : answer[w] # NoAnswer => answer[w].status = 200

\* Polls of one user overlap, and several threads answer them: whatever ran in
\* between, they all send him to one session of a game type.
Positive(w) == answer[w] # NoAnswer /\ answer[w].status = 200
OneAnswer ==
  \A v, w \in Worker :
    (/\ Positive(v) /\ Positive(w)
     /\ answer[v].user = answer[w].user
     /\ answer[v].game = answer[w].game)
      => answer[v].session = answer[w].session

\* A thread is about to create a session with this identifier.
Replaced(id) == \E w \in Worker : pc[w] = "putSession" /\ found[w] = id

\* A player who got into a session stays in it, in the same seat, although
\* the list that UpdateItem writes was read two requests before: only an
\* identifier that comes back replaces a session.
PlayersOnlyJoin ==
  [][\A id \in DOMAIN sessions :
       /\ id \in DOMAIN sessions'
       /\ \/ Replaced(id)
          \/ /\ sessions'[id].game = sessions[id].game
             /\ \A i \in DOMAIN sessions[id].players :
                  /\ i \in DOMAIN sessions'[id].players
                  /\ sessions'[id].players[i] = sessions[id].players[i]]_vars

\* Whoever enters the critical section leaves it, on every path.
LockReleased ==
  \A w \in Worker : (mutex = w) ~> (mutex # w)

\* Seen from outside, the lock and the table requests of a call are one
\* atomic step of Matchmaking, and its answer a promise of Matchmaking.
Told ==
  [w \in Worker |-> IF answer[w] # NoAnswer /\ answer[w].status = 200
                    THEN [user |-> answer[w].user, party |-> answer[w].session,
                          complete |-> answer[w].matched]
                    ELSE NoAnswer]

Pairing == INSTANCE Matchmaking WITH
  Id <- SessionId, Asker <- Worker, Nothing <- NoAnswer,
  parties <- sessions, told <- Told

ImplementsMatchmaking == Pairing!Spec

-----------------------------------------------------------------------------
(* What the comments of the code say, refuted by runs of their own.        *)

\* session_service.cpp:52 "Check if user is already in a session": who is
\* told that he has a session is in it.
ScanFindsOwnSession ==
  \A w \in Worker :
    (/\ answer[w] # NoAnswer
     /\ answer[w].session \in DOMAIN sessions)
      => InSession(answer[w].user, answer[w].session)

\* session_service.cpp:102 "Someone is waiting: join them": an entry of
\* waiting_sessions names a session that can be joined.
WaitingIsJoinable ==
  \A g \in GameType :
    (mutex = NoWorker /\ waiting[g] # NoSession) =>
      /\ waiting[g] \in DOMAIN sessions
      /\ Len(Split(sessions[waiting[g]].players)) = 1

\* session_service.cpp:82 "No one waiting: create session": a created
\* session is a new one, it takes the place of no other.
CreatedIsNew ==
  [][\A id \in DOMAIN sessions :
       sessions[id].players[1] = sessions'[id].players[1]]_vars
=============================================================================
