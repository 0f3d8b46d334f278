------------------------ MODULE OnlineServiceProofs ------------------------
(***************************************************************************)
(* Theorems about OnlineService, for any pages, users, intervals and any   *)
(* length of a run: types, and how long who is where is listed.            *)
(***************************************************************************)
EXTENDS OnlineService, TLAPS

\* A timestamp is not later than the last request of its user arrived, and
\* not older than the requests in the table by more than the time of one.
StampsOK ==
  /\ \A u \in DOMAIN stamp : /\ stamp[u] <= spoken[u] + Delay
                             /\ landed[u] <= stamp[u] + Delay
  /\ \A u \in DOMAIN landed \ DOMAIN stamp : landed[u] + Window < now + Delay

\* Requests under way are not newer than the last one that was sent, and
\* nobody awaits a heartbeat.
SentOK ==
  \A s \in Slot : net[s] # NoRequest =>
    /\ net[s].kind # "logout" => /\ Owner[net[s].page] \in DOMAIN spoken
                                 /\ net[s].sent <= spoken[Owner[net[s].page]]
    /\ net[s].kind = "beat" => ~net[s].awaited /\ net[s].stage # "done"

\* The beat of this interval is under way, or in the table, or removed.
Carried(p) ==
  \/ \E s \in Slot : UnderWay(s, p) /\ due[p] <= net[s].sent + Beat
  \/ Owner[p] \in DOMAIN landed /\ due[p] <= landed[Owner[p]] + Beat
  \/ Owner[p] \in DOMAIN removed /\ due[p] <= removed[Owner[p]] + Beat

BeatsOK == \A p \in Page : mode[p] \in {"lobby", "leaving"} /\ ~lost[p] => Carried(p)

Inv == TypeOK /\ StampsOK /\ SentOK /\ BeatsOK

-----------------------------------------------------------------------------
(* The operators.                                                          *)

LEMMA SentFields ==
  ASSUME NEW k \in Kind, NEW p \in Page
  PROVE  /\ Sent(k, p).kind = k /\ Sent(k, p).page = p /\ Sent(k, p).sent = now
         /\ Sent(k, p).stage = "sent" /\ (k = "beat" => ~Sent(k, p).awaited)
BY DEF Sent

LEMMA OwnerIsUser == \A p \in Page : Owner[p] \in User
BY OwnerAssumption

LEMMA Wanted ==
  ASSUME Inv
  PROVE  /\ KeptListed /\ GoneUnlisted /\ LobbyListed
<1> USE TimeAssumption
<1>0. now \in Nat /\ \A u \in DOMAIN stamp : stamp[u] \in Nat /\ u \in DOMAIN spoken
  BY DEF Inv, TypeOK, TablesOK, Time
<1>1. /\ \A u \in DOMAIN landed : landed[u] \in Nat
      /\ \A u \in DOMAIN spoken : spoken[u] \in Nat
  BY DEF Inv, TypeOK, TablesOK, Time
<1>2. KeptListed
  BY <1>0, <1>1 DEF KeptListed, Listed, Inv, StampsOK
<1>3. GoneUnlisted
  BY <1>0, <1>1 DEF GoneUnlisted, Listed, Inv, StampsOK
<1>4. LobbyListed
  <2> SUFFICES ASSUME NEW p \in Page, mode[p] = "lobby", ~lost[p],
                      ~\E s \in Slot : UnderWay(s, p),
                      ~(Owner[p] \in DOMAIN removed /\ due[p] <= removed[Owner[p]] + Beat)
               PROVE  Owner[p] \in Listed
    BY DEF LobbyListed
  <2>1. Owner[p] \in DOMAIN landed /\ due[p] <= landed[Owner[p]] + Beat
    BY DEF Inv, BeatsOK, Carried
  <2>2. due[p] \in now .. now + Beat
    BY DEF Inv, TypeOK, PagesOK
  <2>3. now + Delay < landed[Owner[p]] + Window
    BY <1>0, <1>1, <2>1, <2>2
  <2>4. QED
    BY <1>2, <2>1, <2>3 DEF KeptListed
<1>5. QED
  BY <1>2, <1>3, <1>4

LEMMA InitInv == Init => Inv
<1> SUFFICES ASSUME Init PROVE Inv
  OBVIOUS
<1> USE TimeAssumption DEF Init
<1>1. TypeOK
  BY DEF TypeOK, TablesOK, PagesOK, RequestsOK, Time, Mode
<1>2. StampsOK /\ SentOK /\ BeatsOK
  BY DEF StampsOK, SentOK, BeatsOK
<1>3. QED
  BY <1>1, <1>2 DEF Inv

-----------------------------------------------------------------------------
(* Pages.                                                                  *)

\* A page sends a request: k is the kind.
LEMMA Sends ==
  ASSUME Inv, NEW p \in Page, NEW s \in Slot, NEW k \in Kind, Send(s, k, p), now' = now
  PROVE  /\ net' \in [Slot -> Request \cup {NoRequest}] /\ RequestsOK'
         /\ net'[s] = Sent(k, p) /\ net'[s] # NoRequest /\ net[s] = NoRequest
         /\ \A t \in Slot \ {s} : net'[t] = net[t]
<1>1. Sent(k, p) \in Request
  <2>1. now \in Time /\ 0 \in Time
    BY TimeAssumption DEF Inv, TypeOK, Time
  <2>2. (k # "beat") \in BOOLEAN
    OBVIOUS
  <2>3. QED
    BY <2>1, <2>2 DEF Sent, Request
<1>2. /\ net \in [Slot -> Request \cup {NoRequest}]
      /\ net' = [net EXCEPT ![s] = Sent(k, p)] /\ net[s] = NoRequest
  BY DEF Send, Inv, TypeOK, RequestsOK
<1>3. /\ net' \in [Slot -> Request \cup {NoRequest}]
      /\ net'[s] = Sent(k, p) /\ net'[s] # NoRequest
      /\ \A t \in Slot \ {s} : net'[t] = net[t]
  BY <1>1, <1>2, NoRequestAssumption
<1>4. now \in now .. now + Delay
  BY TimeAssumption DEF Inv, TypeOK, Time
<1>5. RequestsOK'
  BY <1>3, <1>4 DEF RequestsOK, Sent, Inv, TypeOK
<1>6. QED
  BY <1>2, <1>3, <1>5

\* ... a login or a heartbeat.
LEMMA Speaks ==
  ASSUME Inv, NEW p \in Page, NEW s \in Slot, NEW k \in {"login", "beat"},
         Send(s, k, p), spoken' = Set(spoken, Owner[p], now),
         UNCHANGED <<now, stamp, landed, removed>>
  PROVE  TablesOK' /\ RequestsOK' /\ StampsOK' /\ SentOK'
<1> DEFINE u == Owner[p]
<1>0. u \in User
  BY OwnerIsUser
<1>1. /\ DOMAIN spoken' = DOMAIN spoken \cup {u} /\ spoken'[u] = now
      /\ \A v \in DOMAIN spoken \ {u} : spoken'[v] = spoken[v]
  BY DEF Set
<1>2. now \in Nat /\ \A v \in DOMAIN spoken : spoken[v] \in 0 .. now
  BY TimeAssumption DEF Inv, TypeOK, TablesOK, Time
<1>3. \A v \in DOMAIN spoken : v \in DOMAIN spoken' /\ spoken[v] <= spoken'[v]
  BY <1>1, <1>2
<1>4. DOMAIN spoken' \subseteq User /\ \A v \in DOMAIN spoken' : spoken'[v] \in 0 .. now
  BY <1>0, <1>1, <1>2 DEF Inv, TypeOK, TablesOK
<1> HIDE DEF u
<1>5. TablesOK'
  <2>1. \A f \in {stamp, landed, removed} :
          DOMAIN f \subseteq User /\ \A v \in DOMAIN f : f[v] \in 0 .. now
    BY DEF Inv, TypeOK, TablesOK
  <2>2. DOMAIN stamp \subseteq DOMAIN landed /\ DOMAIN landed \subseteq DOMAIN spoken
    BY DEF Inv, TypeOK, TablesOK
  <2>3. QED
    BY <1>3, <1>4, <2>1, <2>2 DEF TablesOK
<1>6. StampsOK'
  <2>1. \A v \in DOMAIN stamp : v \in DOMAIN spoken /\ stamp[v] \in Nat
    BY TimeAssumption DEF Inv, TypeOK, TablesOK, Time
  <2>2. \A v \in DOMAIN stamp : spoken[v] \in Nat /\ spoken'[v] \in Nat
    BY <1>2, <1>3, <1>4, <2>1
  <2>3. \A v \in DOMAIN stamp : stamp[v] <= spoken'[v] + Delay
    BY <1>3, <2>1, <2>2, TimeAssumption DEF Inv, StampsOK
  <2>4. QED
    BY <2>3 DEF Inv, StampsOK
<1>7. /\ net'[s] = Sent(k, p) /\ RequestsOK'
      /\ \A t \in Slot \ {s} : net'[t] = net[t]
  BY Sends DEF Kind
<1>8. SentOK'
  <2> SUFFICES ASSUME NEW t \in Slot, net'[t] # NoRequest
               PROVE  /\ net'[t].kind # "logout" =>
                           /\ Owner[net'[t].page] \in DOMAIN spoken'
                           /\ net'[t].sent <= spoken'[Owner[net'[t].page]]
                      /\ net'[t].kind = "beat" => ~net'[t].awaited /\ net'[t].stage # "done"
    BY DEF SentOK
  <2>1. CASE t = s
    <3>1. /\ net'[s].kind = k /\ net'[s].page = p /\ net'[s].sent = now
          /\ net'[s].stage = "sent" /\ (k = "beat" => ~net'[s].awaited)
      BY <1>7, SentFields DEF Kind
    <3>2. Owner[p] \in DOMAIN spoken' /\ now <= spoken'[Owner[p]]
      BY <1>1, <1>2 DEF u
    <3>3. QED
      BY <2>1, <3>1, <3>2
  <2>2. CASE t # s
    <3>1. net'[t] = net[t] /\ net[t] \in Request
      BY <1>7, <2>2 DEF Inv, TypeOK, RequestsOK
    <3>2. net[t].sent \in Nat
      BY <3>1, TimeAssumption DEF Request, Time
    <3>3. net[t].kind # "logout" => /\ Owner[net[t].page] \in DOMAIN spoken
                                    /\ net[t].sent <= spoken[Owner[net[t].page]]
      BY <3>1 DEF Inv, SentOK
    <3>4. net[t].kind = "beat" => ~net[t].awaited /\ net[t].stage # "done"
      BY <3>1 DEF Inv, SentOK
    <3>5. net[t].kind # "logout" => /\ Owner[net[t].page] \in DOMAIN spoken'
                                    /\ net[t].sent <= spoken'[Owner[net[t].page]]
      <4> HAVE net[t].kind # "logout"
      <4>1. spoken[Owner[net[t].page]] \in Nat /\ spoken'[Owner[net[t].page]] \in Nat
        BY <1>2, <1>3, <1>4, <3>3
      <4>2. QED
        BY <1>3, <3>2, <3>3, <4>1
    <3>6. QED
      BY <3>1, <3>4, <3>5
  <2>3. QED
    BY <2>1, <2>2
<1>9. QED
  BY <1>5, <1>6, <1>7, <1>8

\* What carried the beat of page q still does.
LEMMA Carries ==
  ASSUME NEW q \in Page, Carried(q), due'[q] = due[q], UNCHANGED <<landed, removed>>,
         \A t \in Slot : UnderWay(t, q) => /\ UnderWay(t, q)'
                                          /\ net'[t].sent = net[t].sent
  PROVE  Carried(q)'
BY DEF Carried

LEMMA SignInKeeps ==
  ASSUME Inv, NEW p \in Page, NEW s \in Slot, SignIn(p, s)
  PROVE  Inv'
<1>1. TablesOK' /\ RequestsOK' /\ StampsOK' /\ SentOK'
  BY Speaks DEF SignIn
<1>2. /\ mode \in [Page -> Mode] /\ mode' = [mode EXCEPT ![p] = "signing"]
      /\ UNCHANGED <<now, due, landed, removed, lost>>
  BY DEF SignIn, Inv, TypeOK, PagesOK
<1>3. now' \in Time /\ PagesOK'
  BY <1>2 DEF Inv, TypeOK, PagesOK, Mode
<1>4. \A t \in Slot \ {s} : net'[t] = net[t]
  BY Sends DEF SignIn, Kind
<1>5. BeatsOK'
  <2> SUFFICES ASSUME NEW q \in Page, mode'[q] \in {"lobby", "leaving"}, ~lost'[q]
               PROVE  Carried(q)'
    BY DEF BeatsOK
  <2>1. Carried(q)
    BY <1>2 DEF Inv, BeatsOK
  <2>2. net[s] = NoRequest
    BY DEF SignIn, Send
  <2>3. QED
    BY <1>2, <1>4, <2>1, <2>2, Carries DEF UnderWay
<1>6. QED
  BY <1>1, <1>3, <1>5 DEF Inv, TypeOK

\* A heartbeat of a page that is, or comes to be, in the lobby.
LEMMA HeartbeatKeeps ==
  ASSUME Inv, NEW p \in Page, NEW s \in Slot, Heartbeat(p, s),
         mode' = mode \/ mode' = [mode EXCEPT ![p] = "lobby"]
  PROVE  Inv'
<1>0. now \in Nat /\ Beat \in Nat /\ now \in Time
  BY TimeAssumption DEF Inv, TypeOK, Time
<1>1. /\ \A q \in Page : due'[q] = IF q = p THEN now + Beat ELSE due[q]
      /\ now' = now /\ due' = [due EXCEPT ![p] = now + Beat]
      /\ UNCHANGED <<stamp, landed, removed>>
      /\ \A q \in Page \ {p} : lost'[q] = lost[q]
      /\ mode \in [Page -> Mode] /\ lost' \in [Page -> BOOLEAN]
    BY DEF Heartbeat, Inv, TypeOK, PagesOK
<1>2. mode' \in [Page -> Mode] /\ \A q \in Page \ {p} : mode'[q] = mode[q]
  BY <1>1 DEF Mode
<1>3. PagesOK'
  <2>1. due' \in [Page -> 0 .. MaxClock + Beat]
    BY <1>0, <1>1, TimeAssumption DEF Inv, TypeOK, PagesOK, Time
  <2>2. ASSUME NEW q \in Page, mode'[q] \in {"lobby", "leaving"}
        PROVE  due'[q] \in now .. now + Beat
    BY <1>0, <1>1, <1>2, <2>2 DEF Inv, TypeOK, PagesOK
  <2>3. QED
    BY <1>1, <1>2, <2>1, <2>2 DEF PagesOK
<1>4. CASE Send(s, "beat", p) /\ spoken' = Set(spoken, Owner[p], now)
  <2>1. TablesOK' /\ RequestsOK' /\ StampsOK' /\ SentOK'
    BY <1>1, <1>4, Speaks
  <2>2. /\ net'[s] = Sent("beat", p) /\ net'[s] # NoRequest /\ net[s] = NoRequest
        /\ \A t \in Slot \ {s} : net'[t] = net[t]
    BY <1>1, <1>4, Sends DEF Kind
  <2>3. Carried(p)'
    <3>1. UnderWay(s, p)' /\ net'[s].sent = now
      BY <2>2, SentFields DEF UnderWay, Kind
    <3>2. due'[p] <= net'[s].sent + Beat
      BY <1>0, <1>1, <3>1
    <3>3. QED
      BY <3>1, <3>2 DEF Carried
  <2>4. ASSUME NEW q \in Page \ {p}, mode'[q] \in {"lobby", "leaving"}, ~lost'[q]
        PROVE  Carried(q)'
    <3>1. Carried(q) /\ due'[q] = due[q]
      BY <1>1, <1>2, <2>4 DEF Inv, BeatsOK
    <3>2. QED
      BY <1>1, <2>2, <3>1, Carries DEF UnderWay
  <2>5. QED
    BY <1>1, <1>3, <2>1, <2>3, <2>4 DEF Inv, TypeOK, BeatsOK
<1>5. CASE lost' = [lost EXCEPT ![p] = TRUE] /\ UNCHANGED <<net, spoken>>
  <2>1. TablesOK' /\ RequestsOK' /\ StampsOK' /\ SentOK'
    BY <1>1, <1>5 DEF Inv, TypeOK, TablesOK, RequestsOK, StampsOK, SentOK
  <2>2. lost'[p]
    BY <1>5 DEF Inv, TypeOK, PagesOK
  <2>3. ASSUME NEW q \in Page \ {p}, mode'[q] \in {"lobby", "leaving"}, ~lost'[q]
        PROVE  Carried(q)'
    <3>1. Carried(q) /\ due'[q] = due[q]
      BY <1>1, <1>2, <2>3 DEF Inv, BeatsOK
    <3>2. QED
      BY <1>1, <1>5, <3>1, Carries DEF UnderWay
  <2>4. QED
    BY <1>0, <1>1, <1>3, <2>1, <2>2, <2>3 DEF Inv, TypeOK, BeatsOK
<1>6. QED
  BY <1>4, <1>5 DEF Heartbeat

LEMMA SignOutKeeps ==
  ASSUME Inv, NEW p \in Page, NEW s \in Slot, SignOut(p, s)
  PROVE  Inv'
<1>1. /\ mode \in [Page -> Mode] /\ mode' = [mode EXCEPT ![p] = "leaving"]
      /\ UNCHANGED <<now, due, stamp, spoken, landed, removed, lost>>
      /\ mode[p] \in {"lobby", "leaving"}
  BY DEF SignOut, Inv, TypeOK, PagesOK, history
<1>2. now' \in Time /\ PagesOK' /\ TablesOK' /\ StampsOK'
  BY <1>1 DEF Inv, TypeOK, PagesOK, Mode, TablesOK, StampsOK
<1>3. /\ net'[s] = Sent("logout", p) /\ net[s] = NoRequest /\ RequestsOK'
      /\ \A t \in Slot \ {s} : net'[t] = net[t]
  BY Sends DEF SignOut, Kind
<1>4. SentOK'
  <2>1. net'[s].kind = "logout"
    BY <1>3, SentFields DEF Kind
  <2>2. QED
    BY <1>1, <1>3, <2>1 DEF Inv, SentOK
<1>5. BeatsOK'
  <2> SUFFICES ASSUME NEW q \in Page, mode'[q] \in {"lobby", "leaving"}, ~lost'[q]
               PROVE  Carried(q)'
    BY DEF BeatsOK
  <2>1. Carried(q)
    BY <1>1 DEF Inv, BeatsOK
  <2>2. QED
    BY <1>1, <1>3, <2>1, Carries DEF UnderWay
<1>6. QED
  BY <1>2, <1>3, <1>4, <1>5 DEF Inv, TypeOK

-----------------------------------------------------------------------------
(* Requests under way.                                                     *)

\* What may become of a request r on its way: q.
Edit(r, q) ==
  \/ q = NoRequest
  \/ /\ r # NoRequest /\ q \in Request
     /\ q.kind = r.kind /\ q.page = r.page /\ q.sent = r.sent
     /\ (q.awaited => r.awaited) /\ (q.stage = "done" => q.awaited)
     /\ q.stage = "stamped" => q.kind # "logout" /\ q.stamp \in q.sent .. now

LEMMA Edits ==
  ASSUME Inv, DOMAIN net' = Slot, net' = [t \in Slot |-> net'[t]],
         \A t \in Slot : Edit(net[t], net'[t]), UNCHANGED <<now, spoken>>
  PROVE  RequestsOK' /\ SentOK'
<1>1. net' \in [Slot -> Request \cup {NoRequest}]
  BY DEF Edit
<1>2. ASSUME NEW t \in Slot, net'[t] # NoRequest
      PROVE  /\ now' \in net'[t].sent .. net'[t].sent + Delay
             /\ net'[t].stage = "done" => net'[t].awaited
             /\ net'[t].stage = "stamped" => /\ net'[t].kind # "logout"
                                             /\ net'[t].stamp \in net'[t].sent .. now'
  BY <1>2 DEF Edit, Inv, TypeOK, RequestsOK
<1>3. ASSUME NEW t \in Slot, net'[t] # NoRequest
      PROVE  /\ net'[t].kind # "logout" => /\ Owner[net'[t].page] \in DOMAIN spoken'
                                           /\ net'[t].sent <= spoken'[Owner[net'[t].page]]
             /\ net'[t].kind = "beat" => ~net'[t].awaited /\ net'[t].stage # "done"
  BY <1>3 DEF Edit, Inv, SentOK
<1>4. RequestsOK'
  BY <1>1, <1>2 DEF RequestsOK
<1>5. SentOK'
  BY <1>3 DEF SentOK
<1>6. QED
  BY <1>4, <1>5

LEMMA Same ==
  ASSUME Inv, NEW t \in Slot
  PROVE  Edit(net[t], net[t])
BY DEF Edit, Inv, TypeOK, RequestsOK

LEMMA Forgets ==
  ASSUME Inv, NEW p \in Page, net' = Forget(p), UNCHANGED <<now, spoken>>
  PROVE  /\ RequestsOK' /\ SentOK'
         /\ \A t \in Slot, q \in Page :
              UnderWay(t, q) => UnderWay(t, q)' /\ net'[t].sent = net[t].sent
<1>1. ASSUME NEW t \in Slot, net[t] # NoRequest, net[t].stage # "done"
      PROVE  /\ Unheard(net[t]) \in Request /\ Unheard(net[t]) # NoRequest
             /\ Unheard(net[t]).kind = net[t].kind /\ Unheard(net[t]).page = net[t].page
             /\ Unheard(net[t]).sent = net[t].sent /\ Unheard(net[t]).stage = net[t].stage
             /\ Unheard(net[t]).stamp = net[t].stamp /\ Unheard(net[t]).awaited = FALSE
  <2>1. net[t] \in Request
    BY <1>1 DEF Inv, TypeOK, RequestsOK
  <2>2. Unheard(net[t]) = [net[t] EXCEPT !.awaited = FALSE]
    BY <1>1 DEF Unheard
  <2>3. QED
    BY <2>1, <2>2, NoRequestAssumption DEF Request
<1>2. ASSUME NEW t \in Slot
      PROVE  Edit(net[t], net'[t])
  <2>1. CASE net'[t] = net[t]
    BY <2>1, Same
  <2>2. CASE net[t] # NoRequest /\ net'[t] = Unheard(net[t])
    <3>1. CASE net[t].stage = "done"
      BY <2>2, <3>1 DEF Unheard, Edit
    <3>2. CASE net[t].stage # "done"
      <4>1. net[t].stage = "stamped" => /\ net[t].kind # "logout"
                                        /\ net[t].stamp \in net[t].sent .. now
        BY <2>2 DEF Inv, TypeOK, RequestsOK
      <4>2. QED
        BY <1>1, <2>2, <3>2, <4>1 DEF Edit
    <3>3. QED
      BY <3>1, <3>2
  <2>3. QED
    BY <2>1, <2>2 DEF Forget
<1>3. DOMAIN net' = Slot /\ net' = [t \in Slot |-> net'[t]]
  BY DEF Forget
<1>4. ASSUME NEW t \in Slot, NEW q \in Page, UnderWay(t, q)
      PROVE  UnderWay(t, q)' /\ net'[t].sent = net[t].sent
  <2>1. net[t].stage # "done"
    BY <1>4 DEF UnderWay, Inv, SentOK
  <2>2. net'[t] = Unheard(net[t]) \/ net'[t] = net[t]
    BY DEF Forget
  <2>3. QED
    BY <1>1, <1>4, <2>1, <2>2 DEF UnderWay
<1>5. QED
  BY <1>2, <1>3, <1>4, Edits

\* The answer that is heard is gone.
LEMMA Hears ==
  ASSUME Inv, NEW s \in Slot, net[s] # NoRequest, net[s].stage = "done",
         net' = [net EXCEPT ![s] = NoRequest], UNCHANGED <<now, spoken>>
  PROVE  /\ RequestsOK' /\ SentOK'
         /\ \A t \in Slot, q \in Page :
              UnderWay(t, q) => UnderWay(t, q)' /\ net'[t].sent = net[t].sent
<1>1. /\ DOMAIN net' = Slot /\ net' = [t \in Slot |-> net'[t]]
      /\ net'[s] = NoRequest /\ \A t \in Slot \ {s} : net'[t] = net[t]
  BY DEF Inv, TypeOK, RequestsOK
<1>2. ASSUME NEW t \in Slot
      PROVE  Edit(net[t], net'[t])
  <2>1. CASE t = s
    BY <1>1, <2>1 DEF Edit
  <2>2. CASE t # s
    BY <1>1, <2>2, Same
  <2>3. QED
    BY <2>1, <2>2
<1>3. ASSUME NEW t \in Slot, NEW q \in Page, UnderWay(t, q)
      PROVE  UnderWay(t, q)' /\ net'[t].sent = net[t].sent
  <2>1. t # s
    BY <1>3 DEF UnderWay, Inv, SentOK
  <2>2. QED
    BY <1>1, <1>3, <2>1 DEF UnderWay
<1>4. QED
  BY <1>1, <1>2, <1>3, Edits

\* A page that is not in the lobby any more: GoPlay, Close, Hear.
LEMMA ShowKeeps ==
  ASSUME Inv, NEW p \in Page, NEW m \in {"in", "out"}, Show(p, m) \/ UNCHANGED pages,
         \/ net' = net \/ net' = Forget(p)
         \/ \E s \in Slot : /\ net[s] # NoRequest /\ net[s].stage = "done"
                            /\ net' = [net EXCEPT ![s] = NoRequest],
         UNCHANGED <<now, stamp, history>>
  PROVE  Inv'
<1>1. /\ mode' \in [Page -> Mode]
      /\ \A q \in Page : \/ mode'[q] = mode[q] /\ due'[q] = due[q]
                         \/ mode'[q] \in {"in", "out"}
      /\ UNCHANGED <<now, stamp, spoken, landed, removed, lost>>
  BY DEF Show, Inv, TypeOK, PagesOK, Mode, history, pages
<1>2. due' \in [Page -> 0 .. MaxClock + Beat]
  BY TimeAssumption DEF Show, Inv, TypeOK, PagesOK, pages
<1>3. TablesOK' /\ StampsOK' /\ now' \in Time
  BY <1>1 DEF Inv, TypeOK, TablesOK, StampsOK
<1>4. PagesOK'
  BY <1>1, <1>2 DEF Inv, TypeOK, PagesOK
<1>5. /\ RequestsOK' /\ SentOK'
      /\ \A t \in Slot, q \in Page :
           UnderWay(t, q) => UnderWay(t, q)' /\ net'[t].sent = net[t].sent
  <2>1. CASE net' = net
    BY <1>1, <2>1 DEF Inv, TypeOK, RequestsOK, SentOK, UnderWay
  <2>2. CASE net' = Forget(p)
    BY <1>1, <2>2, Forgets
  <2>3. CASE \E s \in Slot : /\ net[s] # NoRequest /\ net[s].stage = "done"
                            /\ net' = [net EXCEPT ![s] = NoRequest]
    BY <1>1, <2>3, Hears
  <2>4. QED
    BY <2>1, <2>2, <2>3
<1>6. BeatsOK'
  <2> SUFFICES ASSUME NEW q \in Page, mode'[q] \in {"lobby", "leaving"}, ~lost'[q]
               PROVE  Carried(q)'
    BY DEF BeatsOK
  <2>1. Carried(q) /\ due'[q] = due[q]
    BY <1>1 DEF Inv, BeatsOK
  <2>2. QED
    BY <1>1, <1>5, <2>1, Carries
<1>7. QED
  BY <1>3, <1>4, <1>5, <1>6 DEF Inv, TypeOK

-----------------------------------------------------------------------------
(* The server, and time.                                                   *)

LEMMA StampKeeps ==
  ASSUME Inv, NEW s \in Slot, Stamp(s)
  PROVE  Inv'
<1> DEFINE r == [net[s] EXCEPT !.stage = "stamped", !.stamp = now]
<1>1. /\ net[s] # NoRequest /\ net[s].kind # "logout" /\ net' = [net EXCEPT ![s] = r]
      /\ net[s] \in Request /\ now \in net[s].sent .. now /\ now \in Time
      /\ UNCHANGED <<now, stamp, mode, due, spoken, landed, removed, lost>>
  BY TimeAssumption DEF Stamp, Inv, TypeOK, RequestsOK, Request, Time, pages, history
<1>2. /\ r \in Request /\ r.kind = net[s].kind /\ r.page = net[s].page
      /\ r.sent = net[s].sent /\ r.awaited = net[s].awaited
      /\ r.stage = "stamped" /\ r.stamp = now
  BY <1>1 DEF Request
<1> HIDE DEF r
<1>3. /\ DOMAIN net' = Slot /\ net' = [t \in Slot |-> net'[t]] /\ net'[s] = r
      /\ \A t \in Slot \ {s} : net'[t] = net[t]
  BY <1>1 DEF Inv, TypeOK, RequestsOK
<1>4. \A t \in Slot : Edit(net[t], net'[t])
  <2>1. Edit(net[s], r)
    BY <1>1, <1>2 DEF Edit
  <2>2. QED
    BY <1>3, <2>1, Same
<1>5. RequestsOK' /\ SentOK'
  BY <1>1, <1>3, <1>4, Edits
<1>6. BeatsOK'
  <2> SUFFICES ASSUME NEW q \in Page, mode'[q] \in {"lobby", "leaving"}, ~lost'[q]
               PROVE  Carried(q)'
    BY DEF BeatsOK
  <2>1. Carried(q)
    BY <1>1 DEF Inv, BeatsOK
  <2>2. r # NoRequest
    BY <1>2, NoRequestAssumption
  <2>3. QED
    BY <1>1, <1>2, <1>3, <2>1, <2>2, Carries DEF UnderWay
<1>7. TypeOK' /\ StampsOK'
  BY <1>1, <1>5 DEF Inv, TypeOK, TablesOK, PagesOK, StampsOK
<1>8. QED
  BY <1>5, <1>6, <1>7 DEF Inv

LEMMA Finishes ==
  ASSUME Inv, NEW s \in Slot, net[s] # NoRequest, Finish(s), UNCHANGED <<now, spoken>>
  PROVE  /\ RequestsOK' /\ SentOK'
         /\ \A t \in Slot \ {s} : net'[t] = net[t]
<1> DEFINE r == IF net[s].awaited THEN [net[s] EXCEPT !.stage = "done"] ELSE NoRequest
<1>1. net[s] \in Request /\ net' = [net EXCEPT ![s] = r]
  BY DEF Finish, Inv, TypeOK, RequestsOK
<1>2. Edit(net[s], r)
  <2>1. CASE net[s].awaited
    <3>1. /\ r \in Request /\ r.kind = net[s].kind /\ r.page = net[s].page
          /\ r.sent = net[s].sent /\ r.awaited = net[s].awaited /\ r.stage = "done"
      BY <1>1, <2>1 DEF Request
    <3>2. QED
      BY <2>1, <3>1 DEF Edit
  <2>2. CASE ~net[s].awaited
    BY <2>2 DEF Edit
  <2>3. QED
    BY <2>1, <2>2
<1> HIDE DEF r
<1>3. /\ DOMAIN net' = Slot /\ net' = [t \in Slot |-> net'[t]] /\ net'[s] = r
      /\ \A t \in Slot \ {s} : net'[t] = net[t]
  BY <1>1 DEF Inv, TypeOK, RequestsOK
<1>4. \A t \in Slot : Edit(net[t], net'[t])
  BY <1>2, <1>3, Same
<1>5. QED
  BY <1>3, <1>4, Edits

LEMMA PutKeeps ==
  ASSUME Inv, NEW s \in Slot, Put(s)
  PROVE  Inv'
<1> DEFINE u == Owner[net[s].page]
           a == net[s].sent
           b == net[s].stamp
<1>1. /\ net[s] # NoRequest /\ Finish(s)
      /\ UNCHANGED <<now, mode, due, spoken, removed>>
  BY DEF Put, pages
<1>2. /\ net[s] \in Request /\ net[s].page \in Page /\ net[s].kind # "logout"
      /\ a \in Nat /\ b \in a .. now /\ now \in a .. a + Delay /\ now \in Nat
  BY TimeAssumption DEF Put, Inv, TypeOK, RequestsOK, Request, Time
<1>3. u \in User /\ u \in DOMAIN spoken /\ a <= spoken[u] /\ spoken[u] \in 0 .. now
  BY <1>1, <1>2, OwnerIsUser DEF Inv, SentOK, TypeOK, TablesOK
<1>4. /\ RequestsOK' /\ SentOK' /\ \A t \in Slot \ {s} : net'[t] = net[t]
  BY <1>1, Finishes
<1>5. \A t \in Slot, q \in Page :
        (UnderWay(t, q) /\ t # s) => UnderWay(t, q)' /\ net'[t].sent = net[t].sent
  BY <1>4 DEF UnderWay
<1>6. \A q \in Page : mode[q] \in {"lobby", "leaving"} /\ ~lost[q] => Carried(q)
  BY DEF Inv, BeatsOK
<1>7. CASE /\ stamp' = Set(stamp, u, b) /\ UNCHANGED lost
           /\ landed' = Set(landed, u, IF u \in DOMAIN landed THEN Latest(landed[u], a)
                                                              ELSE a)
  <2>1. /\ DOMAIN stamp' = DOMAIN stamp \cup {u} /\ stamp'[u] = b
        /\ \A v \in DOMAIN stamp \ {u} : stamp'[v] = stamp[v]
    BY <1>7 DEF Set
  <2>2. \A v \in DOMAIN landed : landed[v] \in 0 .. now
    BY DEF Inv, TypeOK, TablesOK
  <2>3. /\ DOMAIN landed' = DOMAIN landed \cup {u}
        /\ \A v \in DOMAIN landed \ {u} : landed'[v] = landed[v]
        /\ landed'[u] \in a .. now /\ landed'[u] <= b + Delay
        /\ \A v \in DOMAIN landed : landed[v] <= landed'[v]
    <3>1. /\ DOMAIN landed' = DOMAIN landed \cup {u}
          /\ \A v \in DOMAIN landed \ {u} : landed'[v] = landed[v]
      BY <1>7 DEF Set
    <3>2. landed'[u] = IF u \in DOMAIN landed THEN Latest(landed[u], a) ELSE a
      BY <1>7 DEF Set
    <3>3. landed'[u] \in a .. now /\ (u \in DOMAIN landed => landed[u] <= landed'[u])
      BY <1>2, <2>2, <3>2 DEF Latest
    <3>4. QED
      BY <1>2, <2>2, <3>1, <3>3, TimeAssumption
  <2>4. TablesOK'
    <3>1. /\ DOMAIN stamp \subseteq DOMAIN landed /\ DOMAIN landed \subseteq DOMAIN spoken
          /\ \A f \in {stamp, spoken, landed, removed} :
               DOMAIN f \subseteq User /\ \A v \in DOMAIN f : f[v] \in 0 .. now
      BY DEF Inv, TypeOK, TablesOK
    <3>2. DOMAIN stamp' \subseteq User /\ \A v \in DOMAIN stamp' : stamp'[v] \in 0 .. now
      BY <1>2, <1>3, <2>1, <3>1
    <3>3. DOMAIN landed' \subseteq User /\ \A v \in DOMAIN landed' : landed'[v] \in 0 .. now
      BY <1>2, <1>3, <2>3, <3>1
    <3>4. \A f \in {spoken', removed'} :
            DOMAIN f \subseteq User /\ \A v \in DOMAIN f : f[v] \in 0 .. now
      BY <1>1, <3>1
    <3>5. DOMAIN stamp' \subseteq DOMAIN landed' /\ DOMAIN landed' \subseteq DOMAIN spoken'
      BY <1>1, <1>3, <2>1, <2>3, <3>1
    <3>6. QED
      BY <1>1, <3>2, <3>3, <3>4, <3>5 DEF TablesOK
  <2>5. StampsOK'
    <3>1. stamp'[u] <= spoken'[u] + Delay /\ landed'[u] <= stamp'[u] + Delay
      BY <1>1, <1>2, <1>3, <2>1, <2>3, TimeAssumption
    <3>2. DOMAIN stamp \subseteq DOMAIN landed
      BY DEF Inv, TypeOK, TablesOK
    <3>3. ASSUME NEW v \in DOMAIN stamp'
          PROVE  stamp'[v] <= spoken'[v] + Delay /\ landed'[v] <= stamp'[v] + Delay
      <4>1. CASE v = u
        BY <3>1, <4>1
      <4>2. CASE v # u
        <5>1. v \in DOMAIN stamp /\ v \in DOMAIN landed
          BY <2>1, <3>2, <4>2
        <5>2. stamp'[v] = stamp[v] /\ landed'[v] = landed[v] /\ spoken'[v] = spoken[v]
          BY <1>1, <2>1, <2>3, <4>2, <5>1
        <5>3. QED
          BY <5>1, <5>2 DEF Inv, StampsOK
      <4>3. QED
        BY <4>1, <4>2
    <3>4. ASSUME NEW v \in DOMAIN landed' \ DOMAIN stamp'
          PROVE  landed'[v] + Window < now' + Delay
      <4>1. v \in DOMAIN landed \ DOMAIN stamp /\ landed'[v] = landed[v]
        BY <2>1, <2>3
      <4>2. QED
        BY <1>1, <4>1 DEF Inv, StampsOK
    <3>5. QED
      BY <3>3, <3>4 DEF StampsOK
  <2>6. BeatsOK'
    <3> SUFFICES ASSUME NEW q \in Page, mode'[q] \in {"lobby", "leaving"}, ~lost'[q]
                 PROVE  Carried(q)'
      BY DEF BeatsOK
    <3>1. Carried(q) /\ due'[q] = due[q] /\ due[q] \in Nat
      BY <1>1, <1>6, <1>7, TimeAssumption DEF Inv, TypeOK, PagesOK
    <3>2. CASE UnderWay(s, q) /\ due[q] <= net[s].sent + Beat
      <4>1. Owner[q] = u
        BY <3>2 DEF UnderWay
      <4>2. due'[q] <= landed'[u] + Beat
        BY <1>2, <2>3, <3>1, <3>2, TimeAssumption
      <4>3. QED
        BY <2>3, <4>1, <4>2 DEF Carried
    <3>3. CASE \E t \in Slot \ {s} : UnderWay(t, q) /\ due[q] <= net[t].sent + Beat
      BY <1>5, <3>1, <3>3 DEF Carried
    <3>4. CASE Owner[q] \in DOMAIN landed /\ due[q] <= landed[Owner[q]] + Beat
      <4>1. due'[q] <= landed'[Owner[q]] + Beat
        <5>1. landed[Owner[q]] \in Nat /\ landed'[Owner[q]] \in Nat
          BY <1>2, <2>2, <2>3, <3>4
        <5>2. landed[Owner[q]] <= landed'[Owner[q]]
          BY <2>3, <3>4
        <5>3. QED
          BY <3>1, <3>4, <5>1, <5>2, TimeAssumption
      <4>2. QED
        BY <2>3, <3>4, <4>1 DEF Carried
    <3>5. CASE Owner[q] \in DOMAIN removed /\ due[q] <= removed[Owner[q]] + Beat
      BY <1>1, <3>1, <3>5 DEF Carried
    <3>6. QED
      BY <3>1, <3>2, <3>3, <3>4, <3>5 DEF Carried
  <2>7. now' \in Time /\ PagesOK'
    BY <1>1, <1>7 DEF Inv, TypeOK, PagesOK
  <2>8. QED
    BY <1>4, <2>4, <2>5, <2>6, <2>7 DEF Inv, TypeOK
<1>8. CASE lost' = [lost EXCEPT ![net[s].page] = TRUE] /\ UNCHANGED <<stamp, landed>>
  <2>1. lost' \in [Page -> BOOLEAN] /\ \A q \in Page : ~lost'[q] => ~lost[q] /\ q # net[s].page
    BY <1>2, <1>8 DEF Inv, TypeOK, PagesOK
  <2>2. BeatsOK'
    <3> SUFFICES ASSUME NEW q \in Page, mode'[q] \in {"lobby", "leaving"}, ~lost'[q]
                 PROVE  Carried(q)'
      BY DEF BeatsOK
    <3>1. Carried(q) /\ ~UnderWay(s, q)
      BY <1>1, <1>6, <2>1 DEF UnderWay
    <3>2. \A t \in Slot : UnderWay(t, q) => UnderWay(t, q)' /\ net'[t].sent = net[t].sent
      BY <1>5, <3>1
    <3>3. QED
      BY <1>1, <1>8, <3>1, <3>2, Carries
  <2>3. TablesOK' /\ StampsOK' /\ now' \in Time /\ PagesOK'
    BY <1>1, <1>8, <2>1 DEF Inv, TypeOK, TablesOK, PagesOK, StampsOK
  <2>4. QED
    BY <1>4, <2>2, <2>3 DEF Inv, TypeOK
<1>9. QED
  BY <1>7, <1>8 DEF Put

LEMMA DeleteKeeps ==
  ASSUME Inv, NEW s \in Slot, Delete(s)
  PROVE  Inv'
<1> DEFINE u == Owner[net[s].page]
<1>1. /\ net[s] # NoRequest /\ Finish(s) /\ net[s].kind = "logout"
      /\ UNCHANGED <<now, mode, due, spoken, lost>>
  BY DEF Delete, pages
<1>2. u \in User /\ now \in Nat
  BY <1>1, OwnerIsUser, TimeAssumption DEF Inv, TypeOK, RequestsOK, Request, Time
<1>3. /\ RequestsOK' /\ SentOK' /\ \A t \in Slot \ {s} : net'[t] = net[t]
  BY <1>1, Finishes
<1>4. \A t \in Slot, q \in Page :
        UnderWay(t, q) => UnderWay(t, q)' /\ net'[t].sent = net[t].sent
  BY <1>1, <1>3 DEF UnderWay
<1>5. now' \in Time /\ PagesOK'
  BY <1>1 DEF Inv, TypeOK, PagesOK
<1>6. CASE UNCHANGED <<stamp, landed, removed>>
  <2>1. BeatsOK'
    <3> SUFFICES ASSUME NEW q \in Page, mode'[q] \in {"lobby", "leaving"}, ~lost'[q]
                 PROVE  Carried(q)'
      BY DEF BeatsOK
    <3>1. QED
      BY <1>1, <1>4, <1>6, Carries DEF Inv, BeatsOK
  <2>2. TablesOK' /\ StampsOK'
    BY <1>1, <1>6 DEF Inv, TypeOK, TablesOK, StampsOK
  <2>3. QED
    BY <1>3, <1>5, <2>1, <2>2 DEF Inv, TypeOK
<1>7. CASE /\ stamp' = Drop(stamp, u) /\ landed' = Drop(landed, u)
           /\ removed' = Set(removed, u, now)
  <2>1. /\ DOMAIN stamp' = DOMAIN stamp \ {u} /\ DOMAIN landed' = DOMAIN landed \ {u}
        /\ \A v \in DOMAIN stamp' : stamp'[v] = stamp[v]
        /\ \A v \in DOMAIN landed' : landed'[v] = landed[v]
    BY <1>7 DEF Drop
  <2>2. /\ DOMAIN removed' = DOMAIN removed \cup {u} /\ removed'[u] = now
        /\ \A v \in DOMAIN removed \ {u} : removed'[v] = removed[v]
    BY <1>7 DEF Set
  <2>3. TablesOK'
    <3>1. /\ DOMAIN stamp \subseteq DOMAIN landed /\ DOMAIN landed \subseteq DOMAIN spoken
          /\ \A f \in {stamp, spoken, landed, removed} :
               DOMAIN f \subseteq User /\ \A v \in DOMAIN f : f[v] \in 0 .. now
      BY DEF Inv, TypeOK, TablesOK
    <3>2. \A f \in {stamp', spoken', landed'} :
            DOMAIN f \subseteq User /\ \A v \in DOMAIN f : f[v] \in 0 .. now
      BY <1>1, <2>1, <3>1
    <3>3. DOMAIN removed' \subseteq User /\ \A v \in DOMAIN removed' : removed'[v] \in 0 .. now
      BY <1>2, <2>2, <3>1
    <3>4. QED
      BY <1>1, <2>1, <3>1, <3>2, <3>3 DEF TablesOK
  <2>4. StampsOK'
    <3>1. DOMAIN stamp \subseteq DOMAIN landed
      BY DEF Inv, TypeOK, TablesOK
    <3>2. ASSUME NEW v \in DOMAIN stamp'
          PROVE  stamp'[v] <= spoken'[v] + Delay /\ landed'[v] <= stamp'[v] + Delay
      <4>1. v \in DOMAIN stamp /\ v \in DOMAIN landed'
        BY <2>1, <3>1
      <4>2. stamp'[v] = stamp[v] /\ landed'[v] = landed[v] /\ spoken'[v] = spoken[v]
        BY <1>1, <2>1, <4>1
      <4>3. QED
        BY <4>1, <4>2 DEF Inv, StampsOK
    <3>3. ASSUME NEW v \in DOMAIN landed' \ DOMAIN stamp'
          PROVE  landed'[v] + Window < now' + Delay
      BY <1>1, <2>1 DEF Inv, StampsOK
    <3>4. QED
      BY <3>2, <3>3 DEF StampsOK
  <2>5. BeatsOK'
    <3> SUFFICES ASSUME NEW q \in Page, mode'[q] \in {"lobby", "leaving"}, ~lost'[q]
                 PROVE  Carried(q)'
      BY DEF BeatsOK
    <3>1. Carried(q) /\ due'[q] = due[q] /\ due[q] <= now + Beat
      BY <1>1, <1>2, TimeAssumption DEF Inv, BeatsOK, TypeOK, PagesOK
    <3>2. CASE Owner[q] = u
      BY <2>2, <3>1, <3>2 DEF Carried
    <3>3. CASE Owner[q] # u
      BY <1>4, <2>1, <2>2, <3>1, <3>3 DEF Carried
    <3>4. QED
      BY <3>2, <3>3
  <2>6. QED
    BY <1>3, <1>5, <2>3, <2>4, <2>5 DEF Inv, TypeOK
<1>8. QED
  BY <1>6, <1>7 DEF Delete

LEMMA ExpireKeeps ==
  ASSUME Inv, NEW u \in User, Expire(u)
  PROVE  Inv'
<1>1. /\ u \in DOMAIN stamp /\ stamp[u] + Window < now
      /\ UNCHANGED <<now, mode, due, net, spoken, landed, removed, lost>>
  BY DEF Expire, pages, history
<1>2. /\ DOMAIN stamp' = DOMAIN stamp \ {u}
      /\ \A v \in DOMAIN stamp' : stamp'[v] = stamp[v]
  BY DEF Expire, Drop
<1>3. TypeOK'
  <2>1. TablesOK'
    BY <1>1, <1>2 DEF Inv, TypeOK, TablesOK
  <2>2. QED
    BY <1>1, <2>1 DEF Inv, TypeOK, PagesOK, RequestsOK
<1>4. StampsOK'
  <2>1. landed[u] \in Nat /\ stamp[u] \in Nat /\ now \in Nat
    BY <1>1, TimeAssumption DEF Inv, TypeOK, TablesOK, Time
  <2>2. landed[u] + Window < now + Delay
    BY <1>1, <2>1, TimeAssumption DEF Inv, StampsOK
  <2>3. QED
    BY <1>1, <1>2, <2>2 DEF Inv, StampsOK
<1>5. SentOK' /\ BeatsOK'
  BY <1>1 DEF Inv, SentOK, BeatsOK, Carried, UnderWay
<1>6. QED
  BY <1>3, <1>4, <1>5 DEF Inv

LEMMA TickKeeps ==
  ASSUME Inv, Tick
  PROVE  Inv'
<1>1. /\ now' = now + 1 /\ now' \in Time /\ now \in Nat
      /\ UNCHANGED <<stamp, mode, due, net, spoken, landed, removed, lost>>
  BY TimeAssumption DEF Tick, pages, history, Inv, TypeOK, Time
<1>2. TablesOK'
  <2>1. \A f \in {stamp, spoken, landed, removed} :
          DOMAIN f \subseteq User /\ \A u \in DOMAIN f : f[u] \in 0 .. now
    BY DEF Inv, TypeOK, TablesOK
  <2>2. \A t \in 0 .. now : t \in 0 .. now'
    BY <1>1
  <2>3. QED
    BY <1>1, <2>1, <2>2 DEF Inv, TypeOK, TablesOK
<1>3. PagesOK'
  <2>1. ASSUME NEW p \in Page, mode[p] \in {"lobby", "leaving"}
        PROVE  due[p] \in now' .. now' + Beat
    BY <1>1, <2>1, TimeAssumption DEF Tick, Inv, TypeOK, PagesOK
  <2>2. QED
    BY <1>1, <2>1 DEF Inv, TypeOK, PagesOK
<1>4. RequestsOK'
  <2>1. ASSUME NEW s \in Slot, net[s] # NoRequest
        PROVE  /\ now' \in net[s].sent .. net[s].sent + Delay
               /\ net[s].stage = "stamped" => /\ net[s].kind # "logout"
                                              /\ net[s].stamp \in net[s].sent .. now'
    <3>1. /\ net[s] \in Request /\ now \in net[s].sent .. net[s].sent + Delay
          /\ net[s].stage = "stamped" => /\ net[s].kind # "logout"
                                         /\ net[s].stamp \in net[s].sent .. now
          /\ now < net[s].sent + Delay
      BY <2>1 DEF Inv, TypeOK, RequestsOK, Tick
    <3>2. net[s].sent \in Nat /\ net[s].stamp \in Nat
      BY <3>1, TimeAssumption DEF Request, Time
    <3>3. QED
      BY <1>1, <3>1, <3>2, TimeAssumption
  <2>2. QED
    BY <1>1, <2>1 DEF Inv, TypeOK, RequestsOK
<1>5. StampsOK'
  <2>1. \A u \in DOMAIN landed : landed[u] \in Nat
    BY TimeAssumption DEF Inv, TypeOK, TablesOK
  <2>2. \A u \in DOMAIN landed \ DOMAIN stamp : landed[u] + Window < now' + Delay
    BY <1>1, <2>1, TimeAssumption DEF Inv, StampsOK
  <2>3. \A u \in DOMAIN stamp : stamp[u] <= spoken[u] + Delay /\ landed[u] <= stamp[u] + Delay
    BY DEF Inv, StampsOK
  <2>4. UNCHANGED <<stamp, spoken, landed>>
    BY <1>1
  <2>5. QED
    BY <2>2, <2>3, <2>4, Zenon DEF StampsOK
<1>6. SentOK' /\ BeatsOK'
  BY <1>1 DEF Inv, SentOK, BeatsOK, Carried, UnderWay
<1>7. QED
  BY <1>1, <1>2, <1>3, <1>4, <1>5, <1>6 DEF Inv, TypeOK

-----------------------------------------------------------------------------
LEMMA InvKept == Inv /\ [Next]_vars => Inv'
<1> SUFFICES ASSUME Inv, [Next]_vars PROVE Inv'
  OBVIOUS
<1>1. ASSUME NEW p \in Page, NEW s \in Slot, SignIn(p, s)
      PROVE  Inv'
  BY <1>1, SignInKeeps
<1>2. ASSUME NEW p \in Page, NEW s \in Slot, Enter(p, s) \/ BeatDue(p, s)
      PROVE  Inv'
  BY <1>2, HeartbeatKeeps DEF Enter, BeatDue
<1>3. ASSUME NEW p \in Page, NEW s \in Slot, SignOut(p, s)
      PROVE  Inv'
  BY <1>3, SignOutKeeps
<1>4. ASSUME NEW p \in Page, NEW s \in Slot, Hear(p, s)
      PROVE  Inv'
  BY <1>4, ShowKeeps DEF Hear
<1>5. ASSUME NEW p \in Page, GoPlay(p) \/ Close(p)
      PROVE  Inv'
  BY <1>5, ShowKeeps DEF GoPlay, Close
<1>6. ASSUME NEW s \in Slot, Stamp(s) \/ Put(s) \/ Delete(s)
      PROVE  Inv'
  BY <1>6, StampKeeps, PutKeeps, DeleteKeeps
<1>7. CASE (\E u \in User : Expire(u)) \/ Tick
  BY <1>7, ExpireKeeps, TickKeeps
<1>8. CASE UNCHANGED vars
  BY <1>8 DEF vars, Inv, TypeOK, TablesOK, PagesOK, RequestsOK, StampsOK, SentOK,
              BeatsOK, Carried, UnderWay
<1>9. QED
  BY <1>1, <1>2, <1>3, <1>4, <1>5, <1>6, <1>7, <1>8 DEF Next

\* Types; no timer and no request is late.
THEOREM TypeCorrect == Spec => []TypeOK
<1>1. Inv => TypeOK
  BY DEF Inv
<1>2. QED
  BY <1>1, InitInv, InvKept, PTL DEF Spec

\* Who is in the lobby is listed once his page's last heartbeat is through,
\* unless a sign out of his has been dealt with since.
THEOREM LobbySafe == Spec => []LobbyListed
<1>1. Inv => LobbyListed
  BY Wanted
<1>2. QED
  BY <1>1, InitInv, InvKept, PTL DEF Spec

\* One heartbeat that gets through lasts for the window, less the time of a
\* request, in spite of older ones that are written after it.
THEOREM KeptSafe == Spec => []KeptListed
<1>1. Inv => KeptListed
  BY Wanted
<1>2. QED
  BY <1>1, InitInv, InvKept, PTL DEF Spec

\* Whoever stopped sending is off the list after the window and the time of
\* a request, whether the sign out worked or not.
THEOREM GoneSafe == Spec => []GoneUnlisted
<1>1. Inv => GoneUnlisted
  BY Wanted
<1>2. QED
  BY <1>1, InitInv, InvKept, PTL DEF Spec
=============================================================================
