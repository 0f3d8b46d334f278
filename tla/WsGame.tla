------------------------------- MODULE WsGame -------------------------------
(***************************************************************************)
(* The game socket of GamesArena: the handlers of                          *)
(* backend/src/api/ws_game.cpp on the connections of Crow                  *)
(* (backend/Crow/include/crow/websocket.h).  Every connection belongs to   *)
(* one io thread, which runs its callbacks one after the other; callbacks  *)
(* of two connections interleave at every request to the session table and *)
(* at every use of session_conns, which is only used under conns_mutex and *)
(* so in one step.                                                         *)
(*                                                                         *)
(* A handler makes a game object from the session's item for each message. *)
(* Nothing ever calls init() on it, so making and using it has one of      *)
(* three outcomes, which depend on the game type and on whether a state    *)
(* was saved (see Outcome).                                                *)
(***************************************************************************)
EXTENDS Naturals, FiniteSets, Sequences

CONSTANTS
  Conn,       \* connections; each is opened once
  Session,    \* session identifiers
  Room,       \* connection -> the sessionId its first message carries
  NoSession,  \* a null userdata
  Event,      \* what the environment may do, a subset of Events
  MaxFaults,  \* bound: faults in a run
  MaxFrames   \* bound: frames a client sends besides its close frame

Events    == {"failGet", "stale", "loseWrite", "vanish"}
GameTypes == {"Tic Tac Toe", "Backgammon", "other"}

ASSUME RoomAssumption == Room \in [Conn -> Session]
ASSUME NullAssumption == NoSession \notin Session
ASSUME BoundAssumption == MaxFaults \in Nat /\ MaxFrames \in Nat

VARIABLES
  game,      \* item of a session: its game type
  version,   \* item of a session: 0 at most one player, 1 two players,
             \* 2 two players and a game_state
  registry,  \* session_conns: session -> its connections
  userdata,  \* connection -> the session it is bound to
  pc,        \* next step of the message handler of a connection
  life,      \* the Connection object: "none", "open", "gone" (deleted)
  reading,   \* is_reading: a read is pending (between two callbacks)
  shut,      \* close_connection_
  inbox,     \* frames of the client that were not read yet
  outbox,    \* messages posted to the connection or being written
  told,      \* what the client has received
  peer,      \* the client's end: "up", "left" (sent a close frame), "lost"
  sent,      \* frames the client has sent (bound only)
  faults     \* how many faults have happened (bound only)

table  == <<game, version>>
rooms  == <<registry, userdata>>
socket == <<life, reading, shut>>
client == <<told, peer, sent>>
vars   == <<game, version, registry, userdata, pc, life, reading, shut, inbox,
            outbox, told, peer, sent, faults>>

Texts    == {"hello", "move", "junk"}
Messages == {"waiting", "state", "update", "bye"}

-----------------------------------------------------------------------------
Init ==
  /\ game \in [Session -> GameTypes]
  /\ version = [s \in Session |-> 0]
  /\ registry = <<>>
  /\ userdata = [c \in Conn |-> NoSession]
  /\ pc = [c \in Conn |-> "idle"]
  /\ life = [c \in Conn |-> "none"]
  /\ reading = [c \in Conn |-> FALSE]
  /\ shut = [c \in Conn |-> FALSE]
  /\ inbox = [c \in Conn |-> <<>>]
  /\ outbox = [c \in Conn |-> <<>>]
  /\ told = [c \in Conn |-> {}]
  /\ peer = [c \in Conn |-> "up"]
  /\ sent = [c \in Conn |-> 0]
  /\ faults = 0

Fault(kind) ==
  /\ kind \in Event
  /\ faults < MaxFaults
  /\ faults' = faults + 1

Goto(c, label) == pc' = [pc EXCEPT ![c] = label]
Post(c, m)     == outbox' = [outbox EXCEPT ![c] = Append(@, m)]
Idle(c)        == life[c] = "open" /\ pc[c] = "idle"

-----------------------------------------------------------------------------
(* The registry.                                                           *)

Members(s) == IF s \in DOMAIN registry THEN registry[s] ELSE {}

\* The map with the entry of s replaced.
Entry(s, conns) == [r \in DOMAIN registry \cup {s} |->
                      IF r = s THEN conns ELSE registry[r]]

\* Mutant: the session is not written into the connection.
RegisterUnbound(c) ==
  /\ registry' = Entry(Room[c], Members(Room[c]) \cup {c})
  /\ UNCHANGED userdata

\* First message: set_conn_session_id and push_back.
Register(c) ==
  /\ userdata' = [userdata EXCEPT ![c] = Room[c]]
  /\ registry' = Entry(Room[c], Members(Room[c]) \cup {c})

\* Mutant: the entry stays when its last connection is removed.
UnregisterKeepingRoom(c) ==
  LET s == userdata[c]
  IN /\ userdata' = [userdata EXCEPT ![c] = NoSession]
     /\ registry' = IF s = NoSession THEN registry
                    ELSE Entry(s, registry[s] \ {c})

\* on_game_close.  Crow may call it several times for one connection; after
\* the first time userdata is null and it does nothing.
Unregister(c) ==
  LET s == userdata[c]
  IN /\ userdata' = [userdata EXCEPT ![c] = NoSession]
     /\ registry' = IF s = NoSession THEN registry
                    ELSE IF Members(s) = {c}
                    THEN [r \in DOMAIN registry \ {s} |-> registry[r]]
                    ELSE Entry(s, Members(s) \ {c})

-----------------------------------------------------------------------------
(* The game object of one message: create_game, then getState.             *)
(*  - an unknown game type throws;                                         *)
(*  - a saved state is one of Backgammon without init(), with an empty     *)
(*    board: deserialize throws as it asks for the first of 24 points;     *)
(*  - TicTacToe without init(): checkWinner reads a row of an empty board  *)
(*    through a null pointer, and the process dies;                        *)
(*  - Backgammon without init() has no players and ignores every move.     *)
Outcome(s, v) ==
  CASE game[s] = "other" \/ v = 2 -> "throws"
    [] game[s] = "Tic Tac Toe" /\ v = 1 -> "dies"
    [] OTHER -> "made"

\* fetch_session: the item as it is, an older one (GetItem is eventually
\* consistent), or an empty one when the request fails.
Fetched(s, v) ==
  \/ v = version[s] /\ UNCHANGED faults
  \/ "stale" \in Event /\ v < version[s] /\ UNCHANGED faults
  \/ v = 0 /\ Fault("failGet")

\* The exception leaves the callback and the io_context; the thread goes on
\* with other callbacks, but nobody reads from this connection any more.
Throw(c) ==
  /\ Goto(c, "idle")
  /\ reading' = [reading EXCEPT ![c] = FALSE]
  /\ UNCHANGED <<rooms, life, shut, inbox, outbox>>

\* The process dies with all its connections; the table stays.
Die ==
  /\ registry' = <<>>
  /\ userdata' = [c \in Conn |-> NoSession]
  /\ pc' = [c \in Conn |-> "idle"]
  /\ life' = [c \in Conn |-> IF life[c] = "none" THEN "none" ELSE "gone"]
  /\ reading' = [c \in Conn |-> FALSE]
  /\ shut' = [c \in Conn |-> FALSE]
  /\ inbox' = [c \in Conn |-> <<>>]
  /\ outbox' = [c \in Conn |-> <<>>]

-----------------------------------------------------------------------------
(* on_game_message.                                                        *)

\* The next text frame is handed to the handler.
Take(c, texts) ==
  /\ Idle(c) /\ reading[c]
  /\ inbox[c] # <<>> /\ Head(inbox[c]) \in texts
  /\ inbox' = [inbox EXCEPT ![c] = Tail(@)]

\* Invalid JSON, a first message without sessionId, a later one without
\* username.
Ignore(c) ==
  /\ Take(c, IF userdata[c] = NoSession THEN {"move", "junk"} ELSE {"junk"})
  /\ UNCHANGED <<table, rooms, pc, socket, outbox, client, faults>>

Hello(c) ==
  /\ userdata[c] = NoSession
  /\ Take(c, {"hello"})
  /\ Register(c)
  /\ Goto(c, "hello")
  /\ UNCHANGED <<table, socket, outbox, client, faults>>

\* Mutant: nothing is sent when the session is not matched.
AnswerMute(c) ==
  /\ pc[c] = "hello"
  /\ \E v \in 0 .. 2 :
       /\ Fetched(Room[c], v)
       /\ \/ /\ v = 0
             /\ Goto(c, "idle")
             /\ UNCHANGED <<rooms, socket, inbox, outbox>>
          \/ /\ v > 0 /\ Outcome(Room[c], v) = "made"
             /\ Post(c, "state")
             /\ Goto(c, "idle")
             /\ UNCHANGED <<rooms, socket, inbox>>
          \/ v > 0 /\ Outcome(Room[c], v) = "throws" /\ Throw(c)
          \/ v > 0 /\ Outcome(Room[c], v) = "dies" /\ Die
  /\ UNCHANGED <<table, client>>

\* The answer to the first message.
AnswerHello(c) ==
  /\ pc[c] = "hello"
  /\ \E v \in 0 .. 2 :
       /\ Fetched(Room[c], v)
       /\ \/ /\ v = 0 \/ Outcome(Room[c], v) = "made"
             /\ Post(c, IF v = 0 THEN "waiting" ELSE "state")
             /\ Goto(c, "idle")
             /\ UNCHANGED <<rooms, socket, inbox>>
          \/ v > 0 /\ Outcome(Room[c], v) = "throws" /\ Throw(c)
          \/ v > 0 /\ Outcome(Room[c], v) = "dies" /\ Die
  /\ UNCHANGED <<table, client>>

\* Every message after the first is a move; a second hello is one too.
Move(c) ==
  /\ userdata[c] # NoSession
  /\ Take(c, {"hello", "move"})
  /\ Goto(c, "move")
  /\ UNCHANGED <<table, rooms, socket, outbox, client, faults>>

\* Mutant: the state is broadcast before it is saved.
ApplyBroadcastingFirst(c) ==
  /\ pc[c] = "move"
  /\ \E v \in 0 .. 2 :
       /\ Fetched(userdata[c], v)
       /\ \/ /\ v > 0 /\ Outcome(userdata[c], v) = "made"
             /\ Goto(c, "broadcast")
             /\ UNCHANGED <<rooms, socket, inbox, outbox>>
          \/ v > 0 /\ Outcome(userdata[c], v) = "throws" /\ Throw(c)
  /\ UNCHANGED <<table, client>>

\* Fetch, create_game, handleMove, getState, isFinished.  A session that is
\* not matched is left alone.
Apply(c) ==
  /\ pc[c] = "move"
  /\ \E v \in 0 .. 2 :
       /\ Fetched(userdata[c], v)
       /\ \/ /\ v = 0 \/ Outcome(userdata[c], v) = "made"
             /\ Goto(c, IF v = 0 THEN "idle" ELSE "save")
             /\ UNCHANGED <<rooms, socket, inbox, outbox>>
          \/ v > 0 /\ Outcome(userdata[c], v) = "throws" /\ Throw(c)
          \/ v > 0 /\ Outcome(userdata[c], v) = "dies" /\ Die
  /\ UNCHANGED <<table, client>>

\* save_session_state; the outcome of UpdateItem is not looked at.
Save(c) ==
  /\ pc[c] = "save"
  /\ \/ version' = [version EXCEPT ![userdata[c]] = 2] /\ UNCHANGED faults
     \/ Fault("loseWrite") /\ UNCHANGED version
  /\ Goto(c, "broadcast")
  /\ UNCHANGED <<game, rooms, socket, inbox, outbox, client>>

\* Under conns_mutex; send_text only posts.  operator[] makes an entry for a
\* session that has none.
Broadcast(c) ==
  /\ pc[c] = "broadcast"
  /\ LET s == userdata[c]
     IN /\ registry' = Entry(s, Members(s))
        /\ outbox' = [d \in Conn |-> IF d \in Members(s)
                                     THEN Append(outbox[d], "update")
                                     ELSE outbox[d]]
  /\ Goto(c, "idle")
  /\ UNCHANGED <<table, userdata, socket, inbox, client, faults>>

-----------------------------------------------------------------------------
(* Crow's connection.                                                      *)

\* start(): on_game_open, then the first do_read.
Open(c) ==
  /\ life[c] = "none"
  /\ life' = [life EXCEPT ![c] = "open"]
  /\ reading' = [reading EXCEPT ![c] = TRUE]
  /\ UNCHANGED <<table, rooms, pc, shut, inbox, outbox, client, faults>>

\* Mutant: the close frame does not call the close handler.
RecvCloseSilently(c) ==
  /\ Take(c, {"close"})
  /\ Post(c, "bye")
  /\ reading' = [reading EXCEPT ![c] = FALSE]
  /\ shut' = [shut EXCEPT ![c] = TRUE]
  /\ UNCHANGED <<table, rooms, pc, life, client, faults>>

\* A close frame: close() calls the close handler and writes a close frame,
\* do_read stops reading; the write that is under way deletes the object.
RecvClose(c) ==
  /\ Take(c, {"close"})
  /\ Unregister(c)
  /\ Post(c, "bye")
  /\ reading' = [reading EXCEPT ![c] = FALSE]
  /\ shut' = [shut EXCEPT ![c] = TRUE]
  /\ UNCHANGED <<table, pc, life, client, faults>>

\* A message has been written.
Written(c) ==
  /\ Idle(c) /\ ~shut[c]
  /\ outbox[c] # <<>> /\ peer[c] # "lost"
  /\ told' = [told EXCEPT ![c] = @ \cup {Head(outbox[c])}]
  /\ outbox' = [outbox EXCEPT ![c] = Tail(@)]
  /\ UNCHANGED <<table, rooms, pc, socket, inbox, peer, sent, faults>>

\* Mutant: the object is deleted without calling the close handler.
DestroySilently(c) ==
  /\ life' = [life EXCEPT ![c] = IF reading[c] THEN "open" ELSE "gone"]
  /\ UNCHANGED rooms

\* check_destroy: the close handler, then delete unless a read is pending.
Destroy(c) ==
  /\ Unregister(c)
  /\ life' = [life EXCEPT ![c] = IF reading[c] THEN "open" ELSE "gone"]

\* A write has failed, or has ended on a connection that is being closed.
\* The messages in the failed buffers are gone; later ones are tried again
\* if the object is still there.
WriteFails(c) ==
  /\ Idle(c) /\ outbox[c] # <<>>
  /\ shut[c] \/ peer[c] # "up"
  /\ \E k \in 1 .. Len(outbox[c]) :
       outbox' = [outbox EXCEPT ![c] = SubSeq(@, k + 1, Len(@))]
  /\ shut' = [shut EXCEPT ![c] = TRUE]
  /\ Destroy(c)
  /\ UNCHANGED <<table, pc, reading, inbox, client, faults>>

\* The pending read has failed: check_destroy, which leaves the object to a
\* write that is still under way.  (A posted message does not keep it.)
ReadFails(c) ==
  /\ Idle(c) /\ reading[c]
  /\ peer[c] = "lost"
  /\ reading' = [reading EXCEPT ![c] = FALSE]
  /\ shut' = [shut EXCEPT ![c] = TRUE]
  /\ Unregister(c)
  /\ life' \in {[life EXCEPT ![c] = l] :
                  l \in {"gone"} \cup IF outbox[c] = <<>> THEN {} ELSE {"open"}}
  /\ UNCHANGED <<table, pc, inbox, outbox, client, faults>>

-----------------------------------------------------------------------------
(* Clients and matchmaking.                                                *)

\* The page's hello and its clicks, or any other text.
Send(c, text) ==
  /\ life[c] = "open" /\ peer[c] = "up"
  /\ sent[c] < MaxFrames
  /\ sent' = [sent EXCEPT ![c] = @ + 1]
  /\ inbox' = [inbox EXCEPT ![c] = Append(@, text)]
  /\ UNCHANGED <<table, rooms, pc, socket, outbox, told, peer, faults>>

\* The page closes its socket when it is unmounted.
Leave(c) ==
  /\ life[c] = "open" /\ peer[c] = "up"
  /\ peer' = [peer EXCEPT ![c] = "left"]
  /\ inbox' = [inbox EXCEPT ![c] = Append(@, "close")]
  /\ UNCHANGED <<table, rooms, pc, socket, outbox, told, sent, faults>>

\* The transport is gone without a close frame.
Vanish(c) ==
  /\ Fault("vanish")
  /\ life[c] = "open" /\ peer[c] = "up"
  /\ peer' = [peer EXCEPT ![c] = "lost"]
  /\ UNCHANGED <<table, rooms, pc, socket, inbox, outbox, told, sent>>

\* findOrCreateSession adds the second player.
Match(s) ==
  /\ version[s] = 0
  /\ version' = [version EXCEPT ![s] = 1]
  /\ UNCHANGED <<game, rooms, pc, socket, inbox, outbox, client, faults>>

-----------------------------------------------------------------------------
\* What the server's thread does by itself, whatever happens on the network.
Serve(c) ==
  \/ Ignore(c) \/ Hello(c) \/ AnswerHello(c)
  \/ Move(c)   \/ Apply(c) \/ Save(c) \/ Broadcast(c)
  \/ RecvClose(c) \/ Written(c)

Next ==
  \/ \E c \in Conn :
       \/ Open(c) \/ Serve(c) \/ WriteFails(c) \/ ReadFails(c)
       \/ \E text \in Texts : Send(c, text)
       \/ Leave(c) \/ Vanish(c)
  \/ \E s \in Session : Match(s)

Spec == Init /\ [][Next]_vars

\* An io thread runs the callbacks that are ready.
FairSpec == Spec /\ \A c \in Conn : WF_vars(Serve(c))

-----------------------------------------------------------------------------
(* Properties.                                                             *)

TableOK ==
  /\ game \in [Session -> GameTypes]
  /\ version \in [Session -> 0 .. 2]
  /\ faults \in 0 .. MaxFaults

RoomsOK ==
  /\ userdata \in [Conn -> Session \cup {NoSession}]
  /\ \A c \in Conn : userdata[c] \in {NoSession, Room[c]}
  /\ DOMAIN registry \subseteq Session
  /\ \A s \in DOMAIN registry : registry[s] \subseteq Conn

SocketOK ==
  /\ life \in [Conn -> {"none", "open", "gone"}]
  /\ reading \in [Conn -> BOOLEAN] /\ shut \in [Conn -> BOOLEAN]
  /\ inbox \in [Conn -> Seq(Texts \cup {"close"})]
  /\ outbox \in [Conn -> Seq(Messages)]

ClientOK ==
  /\ told \in [Conn -> SUBSET Messages]
  /\ peer \in [Conn -> {"up", "left", "lost"}]
  /\ sent \in [Conn -> 0 .. MaxFrames]

HandlersOK ==
  /\ pc \in [Conn -> {"idle", "hello", "move", "save", "broadcast"}]
  /\ \A c \in Conn :
       pc[c] # "idle" => life[c] = "open" /\ userdata[c] = Room[c]

\* Types; a handler that is under way belongs to an open connection that is
\* bound to its session.
TypeOK == TableOK /\ RoomsOK /\ SocketOK /\ ClientOK /\ HandlersOK

\* session_conns and the sessions written into the connections are two views
\* of one relation, at every moment and after every way a connection can end:
\* no entry of a session without connections is left behind, and a connection
\* that is about to push itself into a session is not in it already.
RegistryExact ==
  /\ DOMAIN registry = {s \in Session : \E c \in Conn : userdata[c] = s}
  /\ \A s \in DOMAIN registry : registry[s] = {c \in Conn : userdata[c] = s}

\* The loop over session_conns in one thread never meets a connection that
\* another thread has deleted (ws_game.cpp:144, check_destroy).
NoDangling ==
  \A s \in DOMAIN registry : \A c \in registry[s] : life[c] = "open"

\* Unless a write was lost, clients only hear of moves that are stored: save
\* comes before broadcast on every thread.
ShownIsSaved ==
  \A c \in Conn :
    /\ faults = 0
    /\ \/ "update" \in told[c]
       \/ \E i \in DOMAIN outbox[c] : outbox[c][i] = "update"
    => version[Room[c]] = 2

\* A first message is answered, unless its handler throws, which ends reading
\* from the connection, or the process dies.
HelloAnswered ==
  \A c \in Conn :
    (pc[c] = "hello") ~>
      (told[c] # {} \/ peer[c] # "up" \/ life[c] = "gone" \/ ~reading[c])

\* A client that closed its socket disappears from session_conns for good,
\* unless a handler of it threw: then its close frame is never read.
LeaversUnregistered ==
  \A c \in Conn :
    (peer[c] = "left" /\ userdata[c] # NoSession) ~>
      (userdata[c] = NoSession \/ (~reading[c] /\ inbox[c] # <<>>))

\* Refuted.  "If matched, send game state (deserialize game and send state)"
\* (ws_game.cpp:100): who joins a matched session of a known game is shown
\* something, unless he leaves or the process dies.
MatchedIsShown ==
  \A c \in Conn :
    (pc[c] = "hello" /\ version[Room[c]] # 0 /\ game[Room[c]] # "other") ~>
      (told[c] # {} \/ peer[c] # "up" \/ life[c] = "gone")
=============================================================================
