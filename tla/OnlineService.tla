---------------------------- MODULE OnlineService ----------------------------
(***************************************************************************)
(* Presence: OnlineService (backend/src/services/online_service.cpp), the  *)
(* table of who is online, with the pages that keep their user in it by    *)
(* heartbeats (fronted/src/compoments/Lobby.jsx) and the handlers between  *)
(* them (login, heartbeat and logout in backend/src/api/auth_routes.cpp).  *)
(*                                                                         *)
(* Time is discrete.  A timer fires when it is due, and a request is dealt *)
(* with within Delay; within these limits everything happens in any order. *)
(* Heartbeats are not awaited: those of one user overtake each other, and  *)
(* the user's sign out.                                                    *)
(***************************************************************************)
EXTENDS Naturals

CONSTANTS
  Page, User,
  Owner,     \* page -> the user who signs in on it
  Slot,      \* requests that can be under way at a time
  NoRequest,
  Beat,      \* interval of the heartbeats (30 s)
  Delay,     \* bound: the time a request takes
  Window,    \* time for which an entry counts (300 s)
  CanFail,   \* whether heartbeats may be lost and writes fail
  MaxClock   \* bound: length of a run

Mode    == {"out", "signing", "in", "lobby", "leaving"}
Kind    == {"login", "beat", "logout"}
Time    == 0 .. MaxClock
Request == [kind : Kind, page : Page, awaited : BOOLEAN, sent : Time,
            stage : {"sent", "stamped", "done"}, stamp : Time]

ASSUME OwnerAssumption == Owner \in [Page -> User]
ASSUME NoRequestAssumption == NoRequest \notin Request
ASSUME TimeAssumption ==
  /\ Beat \in Nat \ {0} /\ Delay \in Nat /\ Window \in Nat /\ MaxClock \in Nat
  /\ CanFail \in BOOLEAN
  /\ Beat + Delay < Window

VARIABLES
  now,      \* the clock, in seconds
  stamp,    \* the table: user -> timestamp (a partial function)
  mode,     \* where each page is
  due,      \* when its next heartbeat is due (0: it has no interval)
  net,      \* the requests under way
  spoken,   \* history: when a page of the user last sent a login or beat
  landed,   \* history: when the latest one of these in the table was sent
  removed,  \* history: when the user was last removed
  lost      \* history: whether the last beat of the page was lost

pages   == <<mode, due>>
history == <<spoken, landed, removed, lost>>
vars    == <<now, stamp, mode, due, net, spoken, landed, removed, lost>>

Init ==
  /\ now = 0
  /\ stamp = <<>>
  /\ mode = [p \in Page |-> "out"]
  /\ due = [p \in Page |-> 0]
  /\ net = [s \in Slot |-> NoRequest]
  /\ spoken = <<>> /\ landed = <<>> /\ removed = <<>>
  /\ lost = [p \in Page |-> FALSE]

\* Partial functions of the users.
Set(f, u, t) == [v \in DOMAIN f \cup {u} |-> IF v = u THEN t ELSE f[v]]
Drop(f, u)   == [v \in DOMAIN f \ {u} |-> f[v]]

Latest(a, b) == IF a < b THEN b ELSE a

\* Mutant: the scan has no filter.
ListedAll == DOMAIN stamp

\* get_online_users; whoever is not listed has no entry or an old one.
Listed == {u \in DOMAIN stamp : now < stamp[u] + Window}

-----------------------------------------------------------------------------
(* Pages.                                                                  *)

\* A page sends a request whose answer it awaits, or not.
Sent(k, p) == [kind |-> k, page |-> p, awaited |-> k # "beat", sent |-> now,
               stage |-> "sent", stamp |-> 0]
Send(s, k, p) == net[s] = NoRequest /\ net' = [net EXCEPT ![s] = Sent(k, p)]

\* The page does not await its requests any more; their answers are lost.
Unheard(r) == IF r.stage = "done" THEN NoRequest ELSE [r EXCEPT !.awaited = FALSE]
Forget(p)  == [s \in Slot |-> IF net[s] # NoRequest /\ net[s].page = p
                              THEN Unheard(net[s]) ELSE net[s]]

\* A login (or signup) that will succeed.
SignIn(p, s) ==
  /\ mode[p] = "out"
  /\ Send(s, "login", p)
  /\ mode' = [mode EXCEPT ![p] = "signing"]
  /\ spoken' = Set(spoken, Owner[p], now)
  /\ UNCHANGED <<now, stamp, due, landed, removed, lost>>

\* Mutant: setTimeout instead of setInterval.
HeartbeatOnce(p, s) ==
  /\ due' = [due EXCEPT ![p] = 0]
  /\ Send(s, "beat", p)
  /\ spoken' = Set(spoken, Owner[p], now)
  /\ UNCHANGED <<now, stamp, landed, removed, lost>>

\* sendHeartbeat; setInterval sets the next one, whatever becomes of it.
Heartbeat(p, s) ==
  /\ due' = [due EXCEPT ![p] = now + Beat]
  /\ \/ /\ Send(s, "beat", p)
        /\ spoken' = Set(spoken, Owner[p], now)
        /\ lost' = [lost EXCEPT ![p] = FALSE]
     \/ /\ CanFail
        /\ lost' = [lost EXCEPT ![p] = TRUE]
        /\ UNCHANGED <<net, spoken>>
  /\ UNCHANGED <<now, stamp, landed, removed>>

\* Mutant: only the interval sends heartbeats.
EnterSilently(p, s) ==
  /\ mode[p] = "in"
  /\ mode' = [mode EXCEPT ![p] = "lobby"]
  /\ due' = [due EXCEPT ![p] = now + Beat]
  /\ UNCHANGED <<now, stamp, net, history>>

\* Lobby is mounted: after the sign in, or when the user is back from a game.
Enter(p, s) ==
  /\ mode[p] = "in"
  /\ mode' = [mode EXCEPT ![p] = "lobby"]
  /\ Heartbeat(p, s)

BeatDue(p, s) ==
  /\ mode[p] \in {"lobby", "leaving"} /\ now = due[p]
  /\ Heartbeat(p, s)
  /\ UNCHANGED mode

\* The page shows something else; clearInterval if it was the lobby.
Show(p, m) == mode' = [mode EXCEPT ![p] = m] /\ due' = [due EXCEPT ![p] = 0]

\* The user goes to a game, also while a sign out is awaited: Lobby is
\* unmounted, the continuation of handleSignOut stays.
GoPlay(p) ==
  /\ mode[p] \in {"lobby", "leaving"}
  /\ Show(p, "in")
  /\ UNCHANGED <<now, stamp, net, history>>

\* handleSignOut, on every click; the page stays mounted until an answer.
SignOut(p, s) ==
  /\ mode[p] \in {"lobby", "leaving"}
  /\ Send(s, "logout", p)
  /\ mode' = [mode EXCEPT ![p] = "leaving"]
  /\ UNCHANGED <<now, stamp, due, history>>

\* Whether the page awaits an answer.
Awaits(p) == \E s \in Slot : net[s] # NoRequest /\ net[s].page = p /\ net[s].awaited

\* The page is closed or loaded anew, which forgets the user and all answers.
Close(p) ==
  /\ mode[p] # "out" \/ Awaits(p)
  /\ Show(p, "out")
  /\ net' = Forget(p)
  /\ UNCHANGED <<now, stamp, history>>

\* The page has an answer it awaits, a failure being as good as a success.  Every
\* sign out that was clicked ends at the sign in form, from wherever the page is by
\* then; a login that is under way there goes on.
Hear(p, s) ==
  /\ net[s] # NoRequest /\ net[s].page = p
  /\ net[s].stage = "done"
  /\ net' = [net EXCEPT ![s] = NoRequest]
  /\ \/ net[s].kind = "login" /\ Show(p, "in")
     \/ net[s].kind = "logout" /\ mode[p] # "signing" /\ Show(p, "out")
     \/ net[s].kind = "logout" /\ mode[p] = "signing" /\ UNCHANGED pages
  /\ UNCHANGED <<now, stamp, history>>

-----------------------------------------------------------------------------
(* The server.                                                             *)

\* The handler is through with a request.
Finish(s) ==
  net' = [net EXCEPT ![s] = IF net[s].awaited THEN [net[s] EXCEPT !.stage = "done"]
                            ELSE NoRequest]

\* add, up to PutItem: the timestamp is that of the handler.
Stamp(s) ==
  /\ net[s] # NoRequest /\ net[s].stage = "sent" /\ net[s].kind # "logout"
  /\ net' = [net EXCEPT ![s] = [net[s] EXCEPT !.stage = "stamped", !.stamp = now]]
  /\ UNCHANGED <<now, stamp, pages, history>>

\* Mutant: an entry that is there is not written again.
PutOnce(s) ==
  /\ net[s] # NoRequest /\ net[s].stage = "stamped"
  /\ Finish(s)
  /\ LET u == Owner[net[s].page]
     IN /\ stamp' = IF u \in DOMAIN stamp THEN stamp ELSE Set(stamp, u, net[s].stamp)
        /\ landed' = Set(landed, u, net[s].sent)
  /\ UNCHANGED <<now, pages, spoken, removed, lost>>

\* PutItem, whose failure is only logged.
Put(s) ==
  /\ net[s] # NoRequest /\ net[s].stage = "stamped"
  /\ Finish(s)
  /\ LET u == Owner[net[s].page]
     IN \/ /\ stamp' = Set(stamp, u, net[s].stamp)
           /\ landed' = Set(landed, u, IF u \in DOMAIN landed
                                       THEN Latest(landed[u], net[s].sent)
                                       ELSE net[s].sent)
           /\ UNCHANGED lost
        \/ /\ CanFail
           /\ lost' = [lost EXCEPT ![net[s].page] = TRUE]
           /\ UNCHANGED <<stamp, landed>>
  /\ UNCHANGED <<now, pages, spoken, removed>>

\* remove: DeleteItem, whose failure is only logged.
Delete(s) ==
  /\ net[s] # NoRequest /\ net[s].stage = "sent" /\ net[s].kind = "logout"
  /\ Finish(s)
  /\ LET u == Owner[net[s].page]
     IN \/ /\ stamp' = Drop(stamp, u)
           /\ landed' = Drop(landed, u)
           /\ removed' = Set(removed, u, now)
        \/ CanFail /\ UNCHANGED <<stamp, landed, removed>>
  /\ UNCHANGED <<now, pages, spoken, lost>>

-----------------------------------------------------------------------------
(* Time.                                                                   *)

\* DynamoDB deletes entries some time after their ttl.
Expire(u) ==
  /\ u \in DOMAIN stamp /\ stamp[u] + Window < now
  /\ stamp' = Drop(stamp, u)
  /\ UNCHANGED <<now, pages, net, history>>

Tick ==
  /\ now < MaxClock
  /\ \A s \in Slot : net[s] # NoRequest => now < net[s].sent + Delay
  /\ \A p \in Page : mode[p] \in {"lobby", "leaving"} => now # due[p]
  /\ now' = now + 1
  /\ UNCHANGED <<stamp, pages, net, history>>

Next ==
  \/ \E p \in Page, s \in Slot :
       \/ SignIn(p, s) \/ Enter(p, s) \/ BeatDue(p, s) \/ SignOut(p, s) \/ Hear(p, s)
  \/ \E p \in Page : GoPlay(p) \/ Close(p)
  \/ \E s \in Slot : Stamp(s) \/ Put(s) \/ Delete(s)
  \/ \E u \in User : Expire(u)
  \/ Tick

Spec == Init /\ [][Next]_vars

-----------------------------------------------------------------------------
(* Properties.                                                             *)

TablesOK ==
  /\ \A f \in {stamp, spoken, landed, removed} :
       DOMAIN f \subseteq User /\ \A u \in DOMAIN f : f[u] \in 0 .. now
  /\ DOMAIN stamp \subseteq DOMAIN landed /\ DOMAIN landed \subseteq DOMAIN spoken

PagesOK ==
  /\ mode \in [Page -> Mode] /\ due \in [Page -> 0 .. MaxClock + Beat]
  /\ lost \in [Page -> BOOLEAN]
  /\ \A p \in Page : mode[p] \in {"lobby", "leaving"} => due[p] \in now .. now + Beat

RequestsOK ==
  /\ net \in [Slot -> Request \cup {NoRequest}]
  /\ \A s \in Slot : net[s] # NoRequest =>
       /\ now \in net[s].sent .. net[s].sent + Delay
       /\ net[s].stage = "done" => net[s].awaited
       /\ net[s].stage = "stamped" => /\ net[s].kind # "logout"
                                      /\ net[s].stamp \in net[s].sent .. now

\* Types; no timer and no request is late.
TypeOK == now \in Time /\ TablesOK /\ PagesOK /\ RequestsOK

\* The request of slot s is a heartbeat of page p that is not in the table.
UnderWay(s, p) == net[s] # NoRequest /\ net[s].page = p /\ net[s].kind = "beat"

\* Who is in the lobby is listed, as soon as the heartbeat is through that
\* the page sent last: unless a sign out of the user has been dealt with since.
LobbyListed ==
  \A p \in Page :
    (mode[p] = "lobby" /\ ~lost[p]) =>
      \/ Owner[p] \in Listed
      \/ \E s \in Slot : UnderWay(s, p)
      \/ Owner[p] \in DOMAIN removed /\ due[p] <= removed[Owner[p]] + Beat

\* One heartbeat that gets through keeps its user listed for the window,
\* less the time of a request (an older timestamp may be written over a
\* newer one), whatever is lost later.
KeptListed ==
  \A u \in DOMAIN landed : now + Delay < landed[u] + Window => u \in Listed

\* Who is gone, with or without signing out, is not listed for longer than
\* the window: no late heartbeat or failing sign out lasts.
GoneUnlisted ==
  \A u \in Listed : u \in DOMAIN spoken /\ now < spoken[u] + Delay + Window
=============================================================================
