# GamesArena in TLA+

A verification development of GamesArena: a C++ web server (Crow) that pairs
users two by two and lets them play Tic Tac Toe or Backgammon over WebSockets,
with a React front end.  Accounts are in PostgreSQL; sessions, waiting entries
and presence are in DynamoDB.  Paths below are relative to the repository root.

## 1. Inventory

| Component | Source | State it keeps | Operations | Talks to |
|---|---|---|---|---|
| Matchmaking | `backend/src/services/session_service.cpp`, `backend/src/api/game_routes.cpp`, `backend/src/utils/db_utils.cpp` | tables `sessions` and `waiting_sessions`, `sessions_mutex`, the process-wide `rand()` | `findOrCreateSession` (scan, get waiting, put session, put waiting, get session, update session, delete waiting), `makeSessionId`, `POST /api/start_or_join` | DynamoDB; polled by the battle lobby; `rand()` is shared with password hashing |
| Game socket | `backend/src/api/ws_game.cpp` | `session_conns` under `conns_mutex`, a session id per connection, `game_state` and `finished` of the session item | open, first message (hello), move message, close; `fetch_session`, `save_session_state` | session table, game objects, browsers |
| Games | `backend/src/compoments/{game.hpp,game_manager,tic_tac_toe,backgammon}*`, `backend/src/utils/dice.hpp` | board, players, turn, dice, borne-off counts | `init`, `handleMove`, `getState`, `isFinished`, `serialize`, `deserialize` | created anew from `game_state` for every message |
| Presence | `backend/src/services/online_service.cpp`, `backend/src/api/lobby_routes.cpp`, parts of `auth_routes.cpp`, `Lobby.jsx` | presence table: user, timestamp, ttl | add, remove, list (last 300 s); heartbeat every 30 s, sign out | DynamoDB TTL |
| Accounts | `backend/src/services/user_services.cpp`, `backend/src/api/auth_routes.cpp`, `LoginSignup.jsx` | table `users`, one shared database connection, shared `lastPasswordError` | signup, login | PostgreSQL; signup seeds `rand()` |
| Battle lobby | `fronted/src/compoments/BattleLobby.jsx` | polling timer, error, matched | poll every 2 s without awaiting the previous poll, stop on error, navigate after a match | `start_or_join` |
| Game pages | `fronted/src/compoments/{Tictac,Backgammon}.jsx` | last state received, socket, waiting flag | socket messages, clicks, Play Again | game socket, battle lobby |
| Server shell | `backend/src/main.cpp`, `backend/src/cors_middleware.h` | none of its own | start-up, CORS headers, thread pool | Crow |

What is hard in each, and what makes it correct:

* **Matchmaking.** All calls run under one mutex, but one call is up to five
  requests to two tables; their outcomes are partly ignored, the process may
  stop between two of them, reads are eventually consistent, and identifiers
  come from a `rand()` that is seeded by somebody else.  Correct: a user is in
  at most one session per game type; a session has one or two different
  players; the waiting entry of a game type and its half-full session are one
  and the same; answers are true; the lock is given back.
* **Game socket.** Fetch, move, save and broadcast are four steps without a
  common lock; two players' messages run on two threads.  Exceptions thrown by
  `deserialize` leave a connection registered.  Correct: an accepted move is
  not lost, all clients end up with the saved state, the registry only holds
  live connections.
* **Games.** Objects live for one message and go through `serialize` and
  `deserialize`. Correct: round trip is the identity, only the player on turn
  moves, nobody gets checkers of the other, somebody can always move or the game
  is over, the winner is the one who finished.
* **Presence.** Timestamps, TTL and an interval timer race with sign out.
  Correct: who is signed out and silent is eventually not listed, who sends
  heartbeats is listed.
* **Accounts.** Check and insert are two transactions on one connection shared
  by all threads; the reason of a refusal goes through a shared member.
* **Battle lobby.** Polls overlap and their answers may come back in any order;
  one failing poll stops the timer for good.

## 2. Plan

Modules, in the order they were written; all blocks are done.

| Block | Model | Promise it is checked against | Values for TLC | Proofs |
|---|---|---|---|---|
| Matchmaking | `SessionService` | `Matchmaking` (refinement) | `MCSessionService` | `SessionServiceProofs`, `MatchmakingProofs` (with the refinement) |
| Games | `TicTacToe`, `Backgammon` | invariants | `MCBackgammon` | `TicTacToeProofs`, `BackgammonProofs` |
| Game socket | `WsGame` | invariants, liveness | `MCWsGame` | `WsGameProofs` |
| Accounts | `UserService` | `Registry` (refinement) | `MCUserService` | `UserServiceProofs` (with the refinement) |
| Presence | `OnlineService` | invariants about time | `MCOnlineService` | `OnlineServiceProofs` |
| Battle lobby | `BattleLobby`, composed with `Matchmaking` | invariants, liveness | `MCBattleLobby` | `BattleLobbyProofs` |

How they fit together: `BattleLobby` takes the place of the callers of
`SessionService` and uses its abstract specification `Matchmaking`, which
`ss_reliable` shows and `MatchmakingProofs` proves it to implement.  `WsGame`
takes over when both players are in a session; its `Outcome` stands for the game
objects of one message.  These were never initialised, so they are not states of
`Backgammon` or `TicTacToe`, and `WsGame` rests on neither.  `UserService` and
`OnlineService` share the login and signup handlers: the former models them up to
the entry in the presence table, the latter from there.

Every invariant and every action property of a passing run is the subject of a
theorem, and so are both refinements; liveness is left to TLC (section 10).
Worth proving next: `AnswersTrue` for the empty name, the one assumption of
section 3 that TLC does not show to be needed.

## 3. Matchmaking

### State and actions

`sessions` and `waiting` are the two tables, as a partial function from
identifiers to items and a function from game types to identifiers.  `replica`
is what an eventually consistent read may return: the tables as they were at
some earlier moment.  `mutex` is `sessions_mutex`; `pc`, `call`, `found` and
`party` are program counter, arguments and locals (`sessionId`, `players`) of
the call each worker thread executes; `answer` is its last HTTP response.

Each action of `Serve(w)` is one DynamoDB request with the code up to the next:
`Lock`, `Scan`, `GetWaiting` (with `makeSessionId` when nobody waits),
`PutSession`, `PutWaiting`, `GetSession` (with its error returns),
`UpdateSession`, `DeleteWaiting`.  `Request` is the handler up to the call; it
includes the missing `return` after the refusal of an empty name.  `Return`
releases the lock and sends the response in the same step, which is what
leaving the scope of `lock_guard` does for every observer of the tables.

A player list is a sequence of names.  `Split` drops an empty last name as
`split_players` does; the scan filter `contains(players, :user)` is a substring
test, given by the constant relation `SubName`.  Identifiers are pairs of the
seed and the position in the `rand()` stream: two draws are equal exactly when
seed and position are.

The constant `Event` says what the environment may do: `failScan`, `failGet`
(a read fails), `loseWrite` (a write fails, the code goes on), `restart` (the
process stops between any two steps and starts with the tables), `signup`
(reseeds the stream), `lag` (stale reads).  `MaxFaults` bounds the first four,
`MaxClock` the seconds, `MaxDraw` the identifiers drawn per seed.

### Runs

| Run | World | Shows |
|---|---|---|
| `ss_reliable` | 3 users, 2 threads, 2 game types, nothing fails | `TypeOK`, `WaitingIsOpen`, `AnswerTrue`, `OneAnswer`, `NobodyRefused`, and that the code implements `Matchmaking` |
| `ss_live` | 3 users, 2 threads, 1 game type, two failures (reads of the waiting table, lost writes, restarts), signups that bring identifiers back, weak fairness of each thread | `OneSessionPerUser`, `PlayersOnlyJoin`, `LockReleased` |
| `ss_lagging` | 3 users, stale reads, failing scan, reused identifiers | `SessionShape` |

Two threads and three users give every pairwise interleaving of calls and a
third user who finds a full session; two game types let entries of one type
refer to sessions of the other when identifiers come back.  Runs check for
deadlock: a thread that could not draw because of `MaxDraw` would stop while it
holds the lock and be reported, so the bound does not bite where it passes
(in `ss_lagging`, signups restart the stream).  Under
`ss_reliable` the 3 users can create at most 4 sessions.

Fairness: `FairSpec` only asks that a thread which can take its next step takes
it.  `std::mutex` promises no order among its waiters, so no strong fairness of
`Lock` is assumed and nothing is claimed about a particular waiter.

`OneSessionPerUser` needs one game type in `ss_live`: with two, a reused
identifier makes a waiting entry of one type refer to a session of another.  It
also needs consistent reads: with `lag`, a scan that misses the session of the
previous call gives the user a second one.

`OneAnswer` is about polls that overlap: two threads answer the same user for the
same game type, and the answers of both must name one session.  `PlayersOnlyJoin`
makes an exception of a session that is `Replaced`: `PutSession` puts an identifier
that has come back over it.  That this happens is the matter of `CreatedIsNew`
(section 9).

### Proofs (`SessionServiceProofs`, `MatchmakingProofs`)

For all constants that satisfy the named assumptions:

* `TypeCorrect`: `TypeOK` is inductive.
* `ShapeSafe`: `SessionShape` in every environment, from `Joining`: what a
  thread carries to `UpdateSession` is one player other than the user.
* `OneSession`: `OneSessionPerUser` when `Event` has only `failGet` and
  `loseWrite`.  The scan's result ("the user is in no session") is used three
  requests later.  `PairInv` keeps it true: only the lock holder is inside
  (`MutexHeld`), a thread past the scan is a `Newcomer`, drawn identifiers are
  fresh (`Drawn`), a waiting entry names a session of its own game type
  (`TableInv`), and the party read is the party that is extended.

`MatchmakingProofs` builds on `PairAlways`, the invariant of `OneSession`:

* `SeatsKept`: `PlayersOnlyJoin`, and that no session is replaced
  (`[][Grows]_vars`), when `Event` has only `failScan`, `failGet` and `loseWrite`;
  the parts of `PairInv` that need the scan, that the thread is a `Newcomer` and
  one session per user, are conditional on it (`Fresh`, `Sole`). No step but
  `PutSession`, with a fresh identifier, and `UpdateSession`, which appends to the
  party as it is in the table, changes a session (`Grows`).
* `AnswersTrue`: `AnswerTrue` when only scans and reads of the waiting entry
  fail.  A thread that is about to return has the user seated (`Seated`), and
  what an answer says stays true because seats are kept (`Stated`, `TruthInv`).
* `AnswersAgree`: `OneAnswer` when only reads of the waiting entry fail.  Both
  answers are true, and a user is in one session of the game type.
* `WaitingMatches`: `WaitingIsOpen` when only scans fail.  Entry and half-full
  session are one except while the lock holder is between the two writes, and
  then the difference is the session in its hands (`Agreed`); what it read
  before is still so (`Known`).  `MatchInv` joins these.
* `NeverRefused`: `NobodyRefused` when nothing fails, because the session of a
  waiting entry exists, has one player and not the user (`FindsJoinable`).
* `Refinement`: `Spec => ImplementsMatchmaking` when nothing fails.  The abstract
  `Open` happens in `PutSession` and `Join` in `UpdateSession`: between the scan
  and these writes nobody else can seat the user or open a party.  `Tell` is the
  step that returns, and every other one is a stutter.

A row is an assumption, and the properties that TLC refutes when it is dropped, on
variants of `ss_reliable` that are not kept as runs; a property that is not in a
row is proved without that assumption.

| Dropped | Refuted |
|---|---|
| no `failScan` | `OneSessionPerUser`, `OneAnswer`, `NobodyRefused`, the refinement |
| no `failGet` | `WaitingIsOpen`, `NobodyRefused`, the refinement |
| no `loseWrite` | `AnswerTrue`, `OneAnswer`, `WaitingIsOpen`, `NobodyRefused`, the refinement |
| no `restart` (the stream of `rand()` begins again), no `signup` (it is reseeded) | all but `PlayersOnlyJoin`, where `CreatedIsNew` fails instead |
| no `lag` | all seven |
| the empty name `NoName`, which the handler lets through and `Split` loses, is no user | `WaitingIsOpen`, `NobodyRefused`, the refinement; `PlayersOnlyJoin` and `OneAnswer` with lost writes |
| no name is part of another (`SubName`, section 9) | `AnswerTrue`, `OneAnswer`, the refinement |

One assumption is not known to be needed: `AnswerTrue` and `OneAnswer` held for
`NoName` when nothing fails, but their proofs go through seats that are kept.

`PairInv`, `ShapeInv`, `TruthInv` and `MatchInv` were model-checked as invariants
before the proofs.  Liveness (`LockReleased`) is only model-checked.

### Abstractions

* A call to `rand()` is locked by the C library; a signup that reseeds in the
  middle of the 16 draws of one identifier is not interleaved there.
* A write that fails has no effect later: requests that take effect after the
  call gave up on them are not modelled.
* The scan is one read; that it only looks at the first page of a large table
  is one of the things `failScan` stands for.
* Names that contain a comma are left out: accounts cannot have them.

## 4. Games

### Tic Tac Toe (`TicTacToe`)

`board`, `turnIdx` and `players` are the members of the class.  `Init` is
`init()`; `HandleMove(p, c)` is `handleMove` where it changes something (its
early returns change nothing and are stuttering steps).  `Lines` lists the eight
lines in the order in which `getWinningMark` tests them; `WinningMark` takes the
first complete one.  The caller is free: both players send moves for any cell,
out of turn and after the end, as pages with an older view do.  Cells outside
the board, which no page sends, are left out.

`Serialize` and `Deserialize` are modelled by what they do to the structure of
the JSON value: strings, lists, and an index into a value that is not a list
throws (Crow, external).

### Backgammon (`Backgammon`)

`board` maps points to colour and count, as the vector of pairs does;
`remainingPieces` is indexed by colour instead of first and second;
`eatenPieces` is never changed by the code and left out.  `HandleMove` is
`MoveChecker` or `BearOff`, the two branches of the code, followed by `Spend`:
mark the die, and after the second one pass the turn and roll.  A hit turns the
checker it finds into one of the mover (`Add`, `bg_hit`): the opponent has one
less, the mover one more.  The sizes of board, dice and the
number of checkers to bear off are constants; `MCBackgammon` holds the layout of
`initBoard` and states that it meets the assumptions on them.

After `init` both dice are zero and no move matches; `startTurn` has to be
called once.  The model starts with that roll (`OpeningRoll`).  Nothing in the
server calls it, nor `init` for the objects of a session: the two classes are
modelled behind their interface (`game.hpp`), and the objects the server makes
are the matter of `WsGame`.

`Serialize` is a record of the members; `Deserialize` returns it, unless an
index is missing.  It always is between two messages, when at most one die is
used (`TypeOK`) and two are read: `RoundTrip` (section 9) fails from the start.
`lobbyId` and `eatenPieces` are left out.

### Runs

| Run | World | Shows |
|---|---|---|
| `ttt_game` | the real board, 2 players in either order or a single one | `TypeOK`, `TurnMatchesMarks`, `WinnerHasThree` (the scan against the rules), `FinishedForGood` |
| `bg_game` | 5 points, dice of 3 sides, 2 checkers each, 2 to bear off | `TypeOK`, `PointsWellFormed`, `DicePaid` |
| `bg_hit` | the same | refutes `NobodyGains`: a hit leaves the mover with a checker more than he began with |

`ttt_game` is exhaustive for the class.  The short Backgammon board has single
checkers that can be hit, pairs that block, dice that reach every point, equal
dice, bearing off by both colours, and play that goes on after the end, which is
every branch of `handleMove`.  Both configurations switch the deadlock check off:
a full board ends Tic Tac Toe, and Backgammon does get stuck
(`SomebodyCanMove`, section 9).

`backgammon.cpp:66` says "If hitting, remove opponent checker".  The code below it
turns the checker into one of the mover's colour and then adds the moved one.
`NobodyGains` counts each colour on the board and borne off: it holds when `Add`
leaves the mover's checker alone on the point, and a single hit breaks it as the
code is.

### Proofs (`TicTacToeProofs`, `BackgammonProofs`)

* `TurnOrder`: the numbers of X and O differ by `turnIdx`.  `MoveCounts` says
  that a move adds one mark of the mover, because the cell was empty, and takes
  none away; the inductive invariant is the property with `TypeOK`.
* `Absorbing`: `FinishedForGood`, because a complete line stays complete
  (`CompleteStays`) and the first complete line of the scan always has a mark
  (`MarkOfFirst`); a board that is full accepts no move.
* `WinnerCorrect`: `WinnerHasThree`.  The list of the scan has exactly the lines of
  the rules (`LinesOfTheRules`), the answer is the mark of one (`FoundMarkHolds`),
  and a board with a mark belongs to two players (`TwoPlayersOnceMarked`), so that
  both marks stand for somebody.
* `TypeCorrect` in both modules: between two messages at most one die is used.
* `WellFormedBoard`: `PointsWellFormed`, inductive together with `TypeOK` (`IInv`).
* `DiceRight`: `DicePaid`.  The pip count is a sum of positions, written as the
  number of pairs (checker, point behind it); the checkers of a board are a finite
  set of pairs (point, height).  Lifting a checker takes its
  position off the count (`TakePips`) and landing adds it (`AddPips`); a move by a
  die changes it by that die (`MovePips`).  The invariant it needs is that a used
  die is one of those rolled (`UsedRolled`).

They hold for any players and, in Backgammon, for every board size, layout, die
and number of checkers, the real ones included.

## 5. Game socket (`WsGame`)

### State and actions

`game` and `version` are what a session's item tells the handler: its game type,
and whether it has two players and a `game_state`.  `registry` is
`session_conns` and `userdata` the session id written into a connection; `pc` is
the step of the message handler that runs for a connection.  `life`, `reading`
and `shut` are the `Connection` object of Crow with `is_reading` and
`close_connection_`; `inbox` and `outbox` are frames on their way; `told` and
`peer` are the client.

A connection belongs to one io thread, so its callbacks do not overlap, but those
of two connections interleave at every request to the table and at every use of
`session_conns`, which is one step because of `conns_mutex`.  The handler of a
first message is `Hello` (register) and `AnswerHello` (fetch, make the game,
send); that of a later one is `Move`, `Apply` (fetch, make the game, move),
`Save` and `Broadcast`.  `Ignore` is what the early returns leave of a message.
`RecvClose`, `WriteFails`, `ReadFails` are the ways in which Crow ends a
connection; each calls the close handler (`Unregister`), several in a row for
one connection if it so happens, and deletes the object when nothing is pending.

Nothing calls `init` on the objects of `create_game`. `Outcome` says what comes of
one: an unknown type throws, a saved state throws (it is that of an object with an
empty board, and `deserialize` asks for the first of 24 points), Tic Tac Toe reads
the first row of an empty board through a null pointer and the process dies
(`Die`), Backgammon has no players and ignores the move. An exception leaves the
callback, so that Crow never starts the next read on that connection (`Throw`).

### Runs

| Run | World | Shows |
|---|---|---|
| `ws_game` | 2 connections to one session of any game type, 2 messages each and a close frame, stale reads, and one failing read, lost write or vanished client | `TypeOK`, `RegistryExact`, `NoDangling`, `ShownIsSaved`, `HelloAnswered`, `LeaversUnregistered` |
| `ws_shown` | the same without faults | refutes `MatchedIsShown`: once a move was saved, who joins is shown nothing |

What these leave open: `ShownIsSaved` claims nothing once anything has failed, so
it is about the order of save and broadcast of handlers that overlap, and not
about lost writes. `HelloAnswered` excepts a handler that threw and a process that
died, which need no fault of the network and are hazards of their own: nothing
shows them absent. The trace of `MatchedIsShown` has a client that sends a move;
the pages of the repository hold moves back while `currentPlayer` is null
(`Backgammon.jsx:70`, `Tictac.jsx:89`), which it stays on objects without `init`,
so it takes another client of the socket.

Two connections are a broadcaster and one that comes or goes meanwhile, which is
where the registry could go wrong, and two handlers that overlap between fetch
and save; of these, no move is lost, because the only object whose state is ever
saved ignores every move.  Two messages are a hello and a move, or two
moves of a connection that is registered by then.  Deadlock is not checked: all
clients may have left.

Fairness: `FairSpec` has weak fairness of `Serve(c)`, the callbacks an io thread
runs when they are ready.  What clients and the network do (sending, leaving,
failing) is not fair, so that nothing depends on it; `LeaversUnregistered`
speaks of clients whose close frame arrived.

### Proofs (`WsGameProofs`)

For any number of connections, sessions and faults: `TypeCorrect`,
`RegistrySafe` (`RegistryExact`), `NeverDangling` (`NoDangling`) and `SavedSafe`
(`ShownIsSaved`).  The inductive invariant adds to `TypeOK` and `RegistryExact`
that a connection bound to a session is not deleted (`Alive`), since no thread
may find a deleted connection in the registry: every deletion calls the close
handler in the same step.  `SavedSafe` carries the version through the steps of
a handler: a thread at `broadcast` has saved.  The two liveness properties are
only model-checked.

## 6. Accounts (`UserService`)

### State and actions

`accounts` is the table `users`; `txn` the thread whose transaction is open on
`db_conn`, the one connection all threads share; `linked` whether it still
works (nothing opens it again); `lastPasswordError` the member through which a
signup hands the reason of a refusal to its handler.  A transaction is two
steps, its begin (`Check`, `Insert`, `Select`) and its query with commit
(`Checked`, `Inserted`, `Selected`); in between, other threads run into
`CanBegin` being false, which is an exception, and which the code takes for
"does not exist", "database error" or "invalid credentials".  `Signup` is the
code up to the first transaction, `Report` the handler's look at
`lastPasswordError`, `Present` the success answer.  `Event` allows failing
queries, a commit whose outcome is unknown (stored, but answered with an error),
a broken connection (`Cut`) and restarts.

Names come as they are typed; `Lower` gives the small letters, which is the key
of the table.  Which names are valid and how strong a password is are constants.
`ON CONFLICT DO NOTHING` presupposes a unique key on `users.username`, which is
assumed (the schema is not in the repository).  Testing for an open transaction
and registering one is a single step: that `pqxx` itself does not lock its
connection against threads is not modelled.

### Runs

| Run | World | Shows |
|---|---|---|
| `us_accounts` | 2 threads, one account in two spellings and a refused name, 4 passwords (two good, two weak for different reasons), two failures of any kind | `TypeOK`, `RefusedIsTaken`, `ReasonNamed`, and that the code implements `Registry` |
| `us_login` | the same without failures | refutes `RightPasswordAccepted`: while another thread's transaction is open, the right password is refused |

`ReasonNamed` says that a refused password is answered with a reason, not that it is
the reason of this request: another thread may have replaced it in between.

`Registry` says that a free name is given away once, that its password stays,
that only one asker is told of it, and that logins need the password.  The
refinement maps `due` to the success a thread has decided on (`Due`) and `told`
to the one it has announced (`Told`).

### Proofs (`UserServiceProofs`)

`TypeCorrect`, `TakenWhenRefused`, `ReasonGiven` and the refinement
(`Refinement`: `Spec => ImplementsRegistry`), for any threads, names, passwords
and failures.  The invariant adds to `TypeOK` what the labels say of a thread's
request (`CallsOK`); `TruthInv` adds that a thread about to report has left a
reason behind, which other threads may replace but never clear.

## 7. Presence (`OnlineService`)

### State and actions

`now` is the clock and `stamp` the table: user to timestamp.  A page is signed
out, signing in, signed in elsewhere (`in`), in the lobby, or waiting for the
answer to its sign out (`leaving`); `due` is when its interval fires next.
`net` holds the requests under way.  The history variables `spoken`, `landed`,
`removed` and `lost` only serve the properties.

`SignIn`, `Enter`, `BeatDue`, `GoPlay`, `SignOut`, `Close` and `Hear` are the
page (`LoginSignup.jsx`, `Lobby.jsx`, and `UserContext.jsx`, which forgets the
user on reload); heartbeats are sent when the lobby is mounted and by the
interval, and never awaited.  A page that waits for the answer to a sign out still
shows the lobby: the user can click again, or go to a game.  The continuation of
every click runs when its answer comes, wherever the page is by then, even after a
new sign in; only `Close` ends it.  `Stamp` and `Put` are the two halves of `add`,
whose timestamp is taken before the write; `Delete` is `remove`.  Failing writes
are only logged, so the handler goes on (`Finish`).  `Listed` is the filter of
`get_online_users`; `Expire` is DynamoDB deleting entries after their `ttl`.

Time is discrete: `Tick` cannot pass a timer that is due or a request that has
been under way for `Delay`.  The assumption `Beat + Delay < Window` is that of
the code with its 30 and 300 seconds, if requests take less than 270; browsers
that slow the timers of hidden pages down stay within it.

### Run

| Run | World | Shows |
|---|---|---|
| `os_presence` | 2 pages of one user, 2 requests at a time, `Beat` 2, `Delay` 1, `Window` 4, 6 seconds; heartbeats are lost and writes fail | `TypeOK`, `LobbyListed`, `KeptListed`, `GoneUnlisted` |

The times are the smallest that differ and satisfy the assumption; 6 is one
more than `Delay + Window`, so entries become old and are removed.  Users do not
interact, so one user with two pages (whose heartbeats and sign outs overtake
each other) is the interesting case.

A sign out does not take a user off the list for good: a heartbeat under way
arrives later and lists him for another five minutes, although `Lobby.jsx:53`
says "Remove user on sign out".  `GoneUnlisted` is what remains true: it bounds how
long an entry without a sign of life counts, and does not exclude the relisting.

### Proofs (`OnlineServiceProofs`)

All four properties, for any pages, users, intervals and lengths of a run.  The
invariant relates the table to the requests: a timestamp is within `Delay` of
the moment its request was sent (`StampsOK`), no request is newer than the last
one its user sent (`SentOK`), and for every page in the lobby whose beat was not
lost the beat of this interval is under way, in the table, or was removed
(`BeatsOK`).  `Beat + Delay < Window` closes the gap to the next beat.

## 8. Battle lobby (`BattleLobby`)

### State and actions

`parties` are the sessions of `Matchmaking`; `at`, `game` and `shown` what each
page shows; `poll` the polls under way, each with the `isActive` of the mount
that sent it; `jumps` the navigations that wait for their 500 ms.  `Mount`,
`Poll`, `Hear`, `HearFailure`, `Jump` and `Leave` are the effect of
`BattleLobby.jsx` with its interval, its answers, its `catch`, its timeout and
its cleanup.  `Serve` is `start_or_join`, which runs under `sessions_mutex` and
is here one step: the user opens or joins a session as in `Matchmaking`
(instantiated as `Pairing`), or already has one, and is told.  `Fail` loses a
request or an answer.

Polls of an earlier mount are kept as long as the server may still see them;
their answers are ignored.  The timeout is not cleared by the cleanup: `Jump`
takes a page to the game from wherever it is.

### Run

| Run | World | Shows |
|---|---|---|
| `bl_pages` | 2 users with a page each, one with two polls at a time, a game type with a page and one without, one failing poll | `TypeOK`, `OpponentThere`, `WaitIsOver`, `MatchIsPlayed` |

Overlapping polls of one page are enough for answers to arrive in either order;
leaving and mounting again is unbounded.  With two users there is never a second
session of a game type, so that the run says nothing about where a page could be
led by mistake: `OneDestination`, for which it takes three users, is proved below
for any number.  (TLC agrees for three users, one of whom has two polls at a time,
one game type and one failure; with the liveness properties that is too large for a
run.)  That overlapping polls are given one and the same session by the server is
`OneAnswer` of `ss_reliable`.  `MaxFaults` is 1 because a failing
poll ends the polling of its page.

Fairness: weak fairness of each page's timers (`Timer`) and of what becomes of a
poll (`Dealt`: it is served, and its answer handled).  Browsers fire timers,
the server's threads serve requests, and requests do not stay on the network
for ever.  Leaving, mounting and failing are not fair.  `WaitIsOver` counts an
error message as an end of waiting: a failing poll stops the interval for good,
and the opponent of a user who was put into a session by a poll whose answer got
lost is sent to the game alone.  `MatchIsPlayed` speaks of playable games;
"Game 3", which the lobby offers, has no page and leads nowhere.

### Proofs (`BattleLobbyProofs`)

For any pages, users, game types, numbers of overlapping polls and failures:
`TypeCorrect`, `OneSession` (`OneDestination`) and `NeverAlone`
(`OpponentThere`).  Answers and navigations outlive the state in which they were
made; the invariant says why they stay right.

* `PageInv`: besides the types, that an answer is only kept for a mount that is
  still there (`Live`), and that the game page is shown exactly when there is a
  game to show (`Focus`).
* `RoomInv`: navigations and active polls of a page together are no more than its
  lanes, since the next poll waits for the navigations.
* `PartyInv`: a session has one player or two different ones, and a user is in one
  session of a game type (`Once`).
* `Told`: every answer under way that says "matched", every pending navigation and
  every game shown is of a full session with the page's user in it.  Full sessions
  stay as they are (`FullStays`), so time does no harm, and by `Once` any two of
  them for one user and game type are the same.

All four were model-checked as invariants with the values of `bl_pages` first.
The proofs assume that `Nothing` and `Failure`, which stand for an answer or a game
that is not there, are not answers or games (`NothingAssumption`).  The two
liveness properties are only model-checked.

## 9. Statements that TLC refutes

The runs `ws_shown`, `us_login` and `bg_hit` check statements of the repository's
comments and messages that the code does not keep. The modules state seven more,
without a run of their own; each is refuted within seconds when it takes the place
of the properties of the configuration named here.

| Statement | Configuration | What happens |
|---|---|---|
| `SessionService!ScanFindsOwnSession` | `ss_reliable` with `SubName <- AnnSubNames` | the scan filters with a substring test: "ann" is handed the session of "annabel" |
| `SessionService!WaitingIsJoinable` | `ss_live` | a restart between `UpdateItem` and `DeleteItem` leaves a waiting entry of a full session, on which every later user of the game type fails |
| `SessionService!CreatedIsNew` (a property) | `ss_live` | a signup reseeds `rand()` and a new session takes the place of an existing one |
| `TicTacToe!RoundTrip` | `ttt_game` | `serialize` stores the last row only, and `deserialize` throws on it |
| `Backgammon!RoundTrip` | `bg_game` | between two messages at most one die is used, and `deserialize` reads two and throws |
| `Backgammon!SomebodyCanMove` | `bg_game` | after one of two equal dice, or when every checker is blocked, no move is accepted and the turn never passes |
| `Backgammon!WinnerBoreOff` | `bg_game` | when the last checker is borne off with the second die, the opponent is announced as the winner |

## 10. What is only model-checked

* Liveness: `LockReleased`, `HelloAnswered`, `LeaversUnregistered`, `WaitIsOver`,
  `MatchIsPlayed`.  Liveness under fairness is out of the provers' reach.
* That the library is used as assumed (`Fault`, `Readable`, `Expire` and the other
  external definitions) is neither checked nor proved: they are the assumptions.

Everything else that a passing run checks is also proved, for all values of the
constants that satisfy the assumptions of the module and of the theorem.

## 11. Not modelled

* Crow, asio, Bcrypt.cpp and the AWS and PostgreSQL client libraries are external
  code that the repository carries along.  They are most of its lines, and only
  appear through what the server observes of them; the exception is the life of
  a WebSocket connection in `Crow/include/crow/websocket.h`, on which the close
  handler of the game socket depends.  Of the program's own
  files the map names nearly every line that changes state.
* The game pages apart from their socket: what they render and which clicks they
  hold back.  The server tests every move again, and the models let pages send
  anything.  One hazard there is rendering: the Backgammon page takes `board`
  from every message, also from `{"waiting": true}`, which has none.
* The lobby's display of who is online and of the games; styles, routing, the
  header middleware and build files, which keep no state of the protocols.
* Models and types that the server declares and does not use
  (`backend/src/models`, `backend/src/types.cpp`).
