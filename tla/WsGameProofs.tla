---------------------------- MODULE WsGameProofs ----------------------------
(***************************************************************************)
(* Theorems about WsGame, for any connections, sessions and environment.   *)
(***************************************************************************)
EXTENDS WsGame, SequenceTheorems, TLAPS

-----------------------------------------------------------------------------
(* The registry and the two ways it changes.                               *)

\* A connection that is bound to a session has not been deleted.
Alive == \A c \in Conn : userdata[c] # NoSession => life[c] = "open"

Inv == TypeOK /\ RegistryExact /\ Alive

LEMMA MembersOf ==
  ASSUME RoomsOK, RegistryExact, NEW s \in Session
  PROVE  Members(s) = {c \in Conn : userdata[c] = s}
BY DEF Members, RegistryExact

LEMMA RegisterKeeps ==
  ASSUME RoomsOK, RegistryExact, NEW c \in Conn, userdata[c] = NoSession, Register(c)
  PROVE  RoomsOK' /\ RegistryExact' /\ userdata' = [userdata EXCEPT ![c] = Room[c]]
<1>1. Room[c] \in Session /\ Room[c] # NoSession
  BY RoomAssumption, NullAssumption
<1>2. userdata' = [userdata EXCEPT ![c] = Room[c]]
  BY DEF Register
<1>3. \A d \in Conn : userdata'[d] = IF d = c THEN Room[c] ELSE userdata[d]
  BY <1>2 DEF RoomsOK
<1>4. /\ DOMAIN registry' = DOMAIN registry \cup {Room[c]}
      /\ \A s \in DOMAIN registry' :
           registry'[s] = IF s = Room[c] THEN Members(Room[c]) \cup {c} ELSE registry[s]
  BY DEF Register, Entry
<1>5. \A s \in Session : Members(s) = {d \in Conn : userdata[d] = s}
  BY MembersOf
<1>6. RegistryExact'
  <2>1. DOMAIN registry' = {s \in Session : \E d \in Conn : userdata'[d] = s}
    BY <1>1, <1>3, <1>4, NullAssumption DEF RegistryExact
  <2>2. \A s \in DOMAIN registry' : registry'[s] = {d \in Conn : userdata'[d] = s}
    BY <1>1, <1>3, <1>4, <1>5, NullAssumption DEF RegistryExact
  <2>3. QED
    BY <2>1, <2>2 DEF RegistryExact
<1>7. RoomsOK'
  BY <1>1, <1>2, <1>3, <1>6 DEF RoomsOK, RegistryExact
<1>8. QED
  BY <1>2, <1>6, <1>7

LEMMA UnregisterKeeps ==
  ASSUME RoomsOK, RegistryExact, NEW c \in Conn, Unregister(c)
  PROVE  RoomsOK' /\ RegistryExact' /\ userdata' = [userdata EXCEPT ![c] = NoSession]
<1>2. userdata' = [userdata EXCEPT ![c] = NoSession]
  BY DEF Unregister
<1>3. \A d \in Conn : userdata'[d] = IF d = c THEN NoSession ELSE userdata[d]
  BY <1>2 DEF RoomsOK
<1>6. RegistryExact'
  <2>1. CASE userdata[c] = NoSession
    <3>1. registry' = registry /\ \A d \in Conn : userdata'[d] = userdata[d]
      BY <1>3, <2>1 DEF Unregister
    <3>2. QED
      BY <3>1 DEF RegistryExact
  <2>2. CASE userdata[c] # NoSession
    <3> DEFINE s == userdata[c]
    <3>1. s \in Session /\ Members(s) = {d \in Conn : userdata[d] = s}
      BY <2>2, MembersOf DEF RoomsOK
    <3>2. CASE Members(s) = {c}
      <4>1. /\ DOMAIN registry' = DOMAIN registry \ {s}
            /\ \A r \in DOMAIN registry' : registry'[r] = registry[r]
        BY <2>2, <3>2 DEF Unregister
      <4>2. QED
        BY <1>3, <3>1, <3>2, <4>1, NullAssumption DEF RegistryExact
    <3>3. CASE Members(s) # {c}
      <4>1. /\ DOMAIN registry' = DOMAIN registry \cup {s}
            /\ \A r \in DOMAIN registry' :
                 registry'[r] = IF r = s THEN Members(s) \ {c} ELSE registry[r]
        BY <2>2, <3>3 DEF Unregister, Entry
      <4>2. PICK d \in Conn : d # c /\ userdata[d] = s
        BY <3>1, <3>3
      <4>3. DOMAIN registry' = {r \in Session : \E e \in Conn : userdata'[e] = r}
        BY <1>3, <3>1, <4>1, <4>2, NullAssumption DEF RegistryExact
      <4>4. \A r \in DOMAIN registry' : registry'[r] = {e \in Conn : userdata'[e] = r}
        <5>1. registry'[s] = {e \in Conn : userdata'[e] = s}
          BY <1>3, <2>2, <3>1, <4>1
        <5>2. \A r \in DOMAIN registry' : r # s =>
                registry'[r] = {e \in Conn : userdata'[e] = r}
          <6>1. SUFFICES ASSUME NEW r \in DOMAIN registry', r # s
                         PROVE  registry'[r] = {e \in Conn : userdata'[e] = r}
            OBVIOUS
          <6>2. r \in DOMAIN registry /\ r \in Session /\ registry'[r] = registry[r]
            BY <3>1, <4>1, <4>3, <6>1
          <6>3. registry[r] = {e \in Conn : userdata[e] = r} /\ r # NoSession
            BY <6>2, NullAssumption DEF RegistryExact
          <6>4. \A e \in Conn : userdata'[e] = r <=> userdata[e] = r
            BY <1>3, <6>1, <6>3
          <6>5. QED
            BY <6>2, <6>3, <6>4
        <5>3. QED
          BY <5>1, <5>2
      <4>5. QED
        BY <4>3, <4>4 DEF RegistryExact
    <3>4. QED
      BY <3>2, <3>3
  <2>3. QED
    BY <2>1, <2>2
<1>7. RoomsOK'
  BY <1>2, <1>3, <1>6 DEF RoomsOK, RegistryExact
<1>8. QED
  BY <1>2, <1>6, <1>7

\* operator[] in the broadcast adds nothing: the sender's session has an entry.
LEMMA BroadcastKeeps ==
  ASSUME RoomsOK, RegistryExact, NEW c \in Conn, userdata[c] \in Session,
         registry' = Entry(userdata[c], Members(userdata[c])), userdata' = userdata
  PROVE  RoomsOK' /\ RegistryExact'
<1>1. userdata[c] \in DOMAIN registry
  BY DEF RegistryExact
<1>2. DOMAIN registry' = DOMAIN registry /\ \A s \in DOMAIN registry : registry'[s] = registry[s]
  BY <1>1 DEF Entry, Members
<1>3. QED
  BY <1>2 DEF RoomsOK, RegistryExact

-----------------------------------------------------------------------------
(* Steps.                                                                  *)

LEMMA NoneUnbound ==
  ASSUME Inv, NEW c \in Conn, life[c] = "none"
  PROVE  userdata[c] = NoSession
BY DEF Inv, Alive

LEMMA InitInv == Init => Inv
<1> SUFFICES ASSUME Init PROVE Inv
  OBVIOUS
<1> USE DEF Init
<1>1. TableOK
  BY BoundAssumption DEF TableOK
<1>2. RoomsOK /\ RegistryExact
  BY NullAssumption DEF RoomsOK, RegistryExact
<1>3. SocketOK
  BY DEF SocketOK
<1>4. ClientOK
  BY BoundAssumption DEF ClientOK
<1>5. HandlersOK /\ Alive
  BY DEF HandlersOK, Alive
<1>6. QED
  BY <1>1, <1>2, <1>3, <1>4, <1>5 DEF Inv, TypeOK

LEMMA IgnoreStep ==
  ASSUME Inv, NEW c \in Conn, Ignore(c)
  PROVE  Inv'
<1> USE DEF table, rooms, socket, client, Ignore, Take
<1>0. Tail(inbox[c]) \in Seq(Texts \cup {"close"})
  BY DEF Inv, TypeOK, SocketOK
<1>1. TableOK'
  BY DEF Inv, TypeOK, TableOK
<1>2. RoomsOK' /\ RegistryExact'
  BY DEF Inv, TypeOK, RoomsOK, RegistryExact
<1>3. SocketOK'
  BY <1>0 DEF Inv, TypeOK, SocketOK
<1>4. ClientOK'
  BY DEF Inv, TypeOK, ClientOK
<1>5. HandlersOK'
  BY DEF Inv, TypeOK, HandlersOK
<1>6. Alive'
  BY DEF Inv, TypeOK, Alive
<1>7. QED
  BY <1>1, <1>2, <1>3, <1>4, <1>5, <1>6 DEF Inv, TypeOK

LEMMA HelloStep ==
  ASSUME Inv, NEW c \in Conn, Hello(c)
  PROVE  Inv'
<1> USE DEF table, rooms, socket, client, Hello, Take, Idle, Goto
<1>0. Tail(inbox[c]) \in Seq(Texts \cup {"close"})
  BY DEF Inv, TypeOK, SocketOK
<1>r. userdata[c] = NoSession /\ Register(c)
  OBVIOUS
<1>s. RoomsOK' /\ RegistryExact' /\ userdata' = [userdata EXCEPT ![c] = Room[c]]
  BY <1>r, RegisterKeeps DEF Inv, TypeOK
<1>1. TableOK'
  BY DEF Inv, TypeOK, TableOK
<1>2. RoomsOK' /\ RegistryExact'
  BY <1>s
<1>3. SocketOK'
  BY <1>0 DEF Inv, TypeOK, SocketOK
<1>4. ClientOK'
  BY DEF Inv, TypeOK, ClientOK
<1>5. HandlersOK'
  BY <1>s DEF Inv, TypeOK, HandlersOK, RoomsOK, SocketOK
<1>6. Alive'
  BY <1>s DEF Inv, TypeOK, Alive, RoomsOK
<1>7. QED
  BY <1>1, <1>2, <1>3, <1>4, <1>5, <1>6 DEF Inv, TypeOK

LEMMA MoveStep ==
  ASSUME Inv, NEW c \in Conn, Move(c)
  PROVE  Inv'
<1> USE DEF table, rooms, socket, client, Move, Take, Idle, Goto
<1>0. Tail(inbox[c]) \in Seq(Texts \cup {"close"})
  BY DEF Inv, TypeOK, SocketOK
<1>1. TableOK'
  BY DEF Inv, TypeOK, TableOK
<1>2. RoomsOK' /\ RegistryExact'
  BY DEF Inv, TypeOK, RoomsOK, RegistryExact
<1>3. SocketOK'
  BY <1>0 DEF Inv, TypeOK, SocketOK
<1>4. ClientOK'
  BY DEF Inv, TypeOK, ClientOK
<1>5. HandlersOK'
  BY DEF Inv, TypeOK, HandlersOK, RoomsOK, SocketOK
<1>6. Alive'
  BY DEF Inv, TypeOK, Alive
<1>7. QED
  BY <1>1, <1>2, <1>3, <1>4, <1>5, <1>6 DEF Inv, TypeOK

LEMMA SaveStep ==
  ASSUME Inv, NEW c \in Conn, Save(c)
  PROVE  Inv'
<1> USE DEF table, rooms, socket, client, Save, Goto, Fault
<1>1. TableOK'
  BY BoundAssumption DEF Inv, TypeOK, TableOK
<1>2. RoomsOK' /\ RegistryExact'
  BY DEF Inv, TypeOK, RoomsOK, RegistryExact
<1>3. SocketOK'
  BY DEF Inv, TypeOK, SocketOK
<1>4. ClientOK'
  BY DEF Inv, TypeOK, ClientOK
<1>5. HandlersOK'
  BY DEF Inv, TypeOK, HandlersOK
<1>6. Alive'
  BY DEF Inv, TypeOK, Alive
<1>7. QED
  BY <1>1, <1>2, <1>3, <1>4, <1>5, <1>6 DEF Inv, TypeOK

LEMMA OpenStep ==
  ASSUME Inv, NEW c \in Conn, Open(c)
  PROVE  Inv'
<1> USE DEF table, rooms, socket, client, Open
<1>1. TableOK'
  BY DEF Inv, TypeOK, TableOK
<1>2. RoomsOK' /\ RegistryExact'
  BY DEF Inv, TypeOK, RoomsOK, RegistryExact
<1>3. SocketOK'
  BY DEF Inv, TypeOK, SocketOK
<1>4. ClientOK'
  BY DEF Inv, TypeOK, ClientOK
<1>5. HandlersOK'
  BY DEF Inv, TypeOK, HandlersOK, SocketOK
<1>6. Alive'
  BY DEF Inv, TypeOK, Alive, SocketOK
<1>7. QED
  BY <1>1, <1>2, <1>3, <1>4, <1>5, <1>6 DEF Inv, TypeOK

\* The outcomes of a fetch.
LEMMA FetchedTyped ==
  ASSUME TableOK, NEW s \in Session, NEW v \in 0 .. 2, Fetched(s, v)
  PROVE  faults' \in 0 .. MaxFaults
BY BoundAssumption DEF TableOK, Fetched, Fault

LEMMA ThrowKeeps ==
  ASSUME Inv, NEW c \in Conn, Throw(c)
  PROVE  RoomsOK' /\ RegistryExact' /\ SocketOK' /\ HandlersOK' /\ Alive'
<1> USE DEF Throw, Goto, rooms
<1>1. RoomsOK' /\ RegistryExact'
  BY DEF Inv, TypeOK, RoomsOK, RegistryExact
<1>2. SocketOK'
  BY DEF Inv, TypeOK, SocketOK
<1>3. HandlersOK' /\ Alive'
  BY DEF Inv, TypeOK, HandlersOK, Alive
<1>4. QED
  BY <1>1, <1>2, <1>3

LEMMA DieKeeps ==
  ASSUME Inv, Die
  PROVE  RoomsOK' /\ RegistryExact' /\ SocketOK' /\ HandlersOK' /\ Alive'
<1> USE DEF Die
<1>1. RoomsOK' /\ RegistryExact'
  BY NullAssumption DEF Inv, TypeOK, RoomsOK, RegistryExact
<1>2. SocketOK'
  BY DEF Inv, TypeOK, SocketOK
<1>3. HandlersOK' /\ Alive'
  BY DEF Inv, TypeOK, HandlersOK, Alive
<1>4. QED
  BY <1>1, <1>2, <1>3

LEMMA PostTyped ==
  ASSUME SocketOK, NEW c \in Conn, NEW m \in Messages, Post(c, m)
  PROVE  outbox' \in [Conn -> Seq(Messages)]
BY DEF SocketOK, Post

LEMMA AnswerHelloStep ==
  ASSUME Inv, NEW c \in Conn, AnswerHello(c)
  PROVE  Inv'
<1>1. PICK v \in 0 .. 2 :
        /\ Fetched(Room[c], v)
        /\ \/ /\ Post(c, IF v = 0 THEN "waiting" ELSE "state")
              /\ Goto(c, "idle")
              /\ UNCHANGED <<rooms, socket, inbox>>
           \/ Throw(c) \/ Die
  BY DEF AnswerHello
<1>2. UNCHANGED <<table, client>> /\ Room[c] \in Session
  BY RoomAssumption DEF AnswerHello
<1>3. TableOK' /\ ClientOK'
  BY <1>1, <1>2, FetchedTyped DEF Inv, TypeOK, TableOK, ClientOK, table, client
<1>4. RoomsOK' /\ RegistryExact' /\ SocketOK' /\ HandlersOK' /\ Alive'
  <2>1. CASE Throw(c) \/ Die
    BY <2>1, ThrowKeeps, DieKeeps
  <2>2. CASE Post(c, IF v = 0 THEN "waiting" ELSE "state") /\ Goto(c, "idle")
             /\ UNCHANGED <<rooms, socket, inbox>>
    <3>1. outbox' \in [Conn -> Seq(Messages)]
      <4>1. (IF v = 0 THEN "waiting" ELSE "state") \in Messages
        BY DEF Messages
      <4>2. QED
        BY <2>2, <4>1, PostTyped DEF Inv, TypeOK
    <3>2. SocketOK'
      BY <2>2, <3>1 DEF Inv, TypeOK, SocketOK, socket
    <3>3. RoomsOK' /\ RegistryExact'
      BY <2>2 DEF Inv, TypeOK, RoomsOK, RegistryExact, rooms
    <3>4. HandlersOK' /\ Alive'
      BY <2>2 DEF Inv, TypeOK, HandlersOK, Alive, Goto, rooms, socket
    <3>5. QED
      BY <3>2, <3>3, <3>4
  <2>3. QED
    BY <1>1, <2>1, <2>2
<1>5. QED
  BY <1>3, <1>4 DEF Inv, TypeOK

LEMMA ApplyStep ==
  ASSUME Inv, NEW c \in Conn, Apply(c)
  PROVE  Inv'
<1>1. PICK v \in 0 .. 2 :
        /\ Fetched(userdata[c], v)
        /\ \/ /\ Goto(c, IF v = 0 THEN "idle" ELSE "save")
              /\ UNCHANGED <<rooms, socket, inbox, outbox>>
           \/ Throw(c) \/ Die
  BY DEF Apply
<1>2. UNCHANGED <<table, client>> /\ userdata[c] = Room[c] /\ life[c] = "open"
  BY DEF Apply, Inv, TypeOK, HandlersOK
<1>3. TableOK' /\ ClientOK'
  BY <1>1, <1>2, FetchedTyped, RoomAssumption
     DEF Inv, TypeOK, TableOK, ClientOK, table, client
<1>4. RoomsOK' /\ RegistryExact' /\ SocketOK' /\ HandlersOK' /\ Alive'
  <2>1. CASE Throw(c) \/ Die
    BY <2>1, ThrowKeeps, DieKeeps
  <2>2. CASE Goto(c, IF v = 0 THEN "idle" ELSE "save")
             /\ UNCHANGED <<rooms, socket, inbox, outbox>>
    <3>2. SocketOK'
      BY <2>2 DEF Inv, TypeOK, SocketOK, socket
    <3>3. RoomsOK' /\ RegistryExact'
      BY <2>2 DEF Inv, TypeOK, RoomsOK, RegistryExact, rooms
    <3>4. HandlersOK' /\ Alive'
      BY <1>2, <2>2 DEF Inv, TypeOK, HandlersOK, Alive, Goto, rooms, socket
    <3>5. QED
      BY <3>2, <3>3, <3>4
  <2>3. QED
    BY <1>1, <2>1, <2>2
<1>5. QED
  BY <1>3, <1>4 DEF Inv, TypeOK

LEMMA BroadcastStep ==
  ASSUME Inv, NEW c \in Conn, Broadcast(c)
  PROVE  Inv'
<1> USE DEF table, rooms, socket, client, Broadcast, Goto
<1>s. userdata[c] \in Session
  BY RoomAssumption DEF Inv, TypeOK, HandlersOK
<1>1. TableOK'
  BY DEF Inv, TypeOK, TableOK
<1>2. RoomsOK' /\ RegistryExact'
  BY <1>s, BroadcastKeeps DEF Inv, TypeOK
<1>3. SocketOK'
  <2>1. \A d \in Conn : Append(outbox[d], "update") \in Seq(Messages)
    BY DEF Inv, TypeOK, SocketOK, Messages
  <2>2. QED
    BY <2>1 DEF Inv, TypeOK, SocketOK
<1>4. ClientOK'
  BY DEF Inv, TypeOK, ClientOK
<1>5. HandlersOK'
  BY DEF Inv, TypeOK, HandlersOK
<1>6. Alive'
  BY DEF Inv, TypeOK, Alive
<1>7. QED
  BY <1>1, <1>2, <1>3, <1>4, <1>5, <1>6 DEF Inv, TypeOK

LEMMA RecvCloseStep ==
  ASSUME Inv, NEW c \in Conn, RecvClose(c)
  PROVE  Inv'
<1> USE DEF table, rooms, socket, client, RecvClose, Take, Idle
<1>0. Tail(inbox[c]) \in Seq(Texts \cup {"close"})
  BY DEF Inv, TypeOK, SocketOK
<1>r. RoomsOK' /\ RegistryExact' /\ userdata' = [userdata EXCEPT ![c] = NoSession]
  BY UnregisterKeeps DEF Inv, TypeOK
<1>1. TableOK'
  BY DEF Inv, TypeOK, TableOK
<1>2. RoomsOK' /\ RegistryExact'
  BY <1>r
<1>3. SocketOK'
  BY <1>0, PostTyped DEF Inv, TypeOK, SocketOK, Messages
<1>4. ClientOK'
  BY DEF Inv, TypeOK, ClientOK
<1>5. HandlersOK'
  BY <1>r DEF Inv, TypeOK, HandlersOK, RoomsOK
<1>6. Alive'
  BY <1>r DEF Inv, TypeOK, Alive, RoomsOK
<1>7. QED
  BY <1>1, <1>2, <1>3, <1>4, <1>5, <1>6 DEF Inv, TypeOK

LEMMA WrittenStep ==
  ASSUME Inv, NEW c \in Conn, Written(c)
  PROVE  Inv'
<1> USE DEF table, rooms, socket, client, Written
<1>0. Head(outbox[c]) \in Messages /\ Tail(outbox[c]) \in Seq(Messages)
  BY DEF Inv, TypeOK, SocketOK
<1>1. TableOK'
  BY DEF Inv, TypeOK, TableOK
<1>2. RoomsOK' /\ RegistryExact'
  BY DEF Inv, TypeOK, RoomsOK, RegistryExact
<1>3. SocketOK'
  BY <1>0 DEF Inv, TypeOK, SocketOK
<1>4. ClientOK'
  BY <1>0 DEF Inv, TypeOK, ClientOK
<1>5. HandlersOK'
  BY DEF Inv, TypeOK, HandlersOK
<1>6. Alive'
  BY DEF Inv, TypeOK, Alive
<1>7. QED
  BY <1>1, <1>2, <1>3, <1>4, <1>5, <1>6 DEF Inv, TypeOK

LEMMA WriteFailsStep ==
  ASSUME Inv, NEW c \in Conn, WriteFails(c)
  PROVE  Inv'
<1> USE DEF table, rooms, socket, client, WriteFails, Destroy, Idle
<1>r. RoomsOK' /\ RegistryExact' /\ userdata' = [userdata EXCEPT ![c] = NoSession]
  BY UnregisterKeeps DEF Inv, TypeOK
<1>1. TableOK'
  BY DEF Inv, TypeOK, TableOK
<1>2. RoomsOK' /\ RegistryExact'
  BY <1>r
<1>3. SocketOK'
  <2>1. PICK k \in 1 .. Len(outbox[c]) :
          outbox' = [outbox EXCEPT ![c] = SubSeq(@, k + 1, Len(@))]
    OBVIOUS
  <2>2. outbox[c] \in Seq(Messages)
    BY DEF Inv, TypeOK, SocketOK
  <2>3. SubSeq(outbox[c], k + 1, Len(outbox[c])) \in Seq(Messages)
    BY <2>2, SubSeqProperties
  <2>4. QED
    BY <2>1, <2>3 DEF Inv, TypeOK, SocketOK
<1>4. ClientOK'
  BY DEF Inv, TypeOK, ClientOK
<1>5. HandlersOK'
  BY <1>r DEF Inv, TypeOK, HandlersOK, RoomsOK, SocketOK
<1>6. Alive'
  BY <1>r DEF Inv, TypeOK, Alive, RoomsOK, SocketOK
<1>7. QED
  BY <1>1, <1>2, <1>3, <1>4, <1>5, <1>6 DEF Inv, TypeOK

LEMMA ReadFailsStep ==
  ASSUME Inv, NEW c \in Conn, ReadFails(c)
  PROVE  Inv'
<1> USE DEF table, rooms, socket, client, ReadFails, Idle
<1>r. RoomsOK' /\ RegistryExact' /\ userdata' = [userdata EXCEPT ![c] = NoSession]
  BY UnregisterKeeps DEF Inv, TypeOK
<1>l. PICK l \in {"gone", "open"} : life' = [life EXCEPT ![c] = l]
  OBVIOUS
<1>1. TableOK'
  BY DEF Inv, TypeOK, TableOK
<1>2. RoomsOK' /\ RegistryExact'
  BY <1>r
<1>3. SocketOK'
  BY <1>l DEF Inv, TypeOK, SocketOK
<1>4. ClientOK'
  BY DEF Inv, TypeOK, ClientOK
<1>5. HandlersOK'
  BY <1>r, <1>l DEF Inv, TypeOK, HandlersOK, RoomsOK, SocketOK
<1>6. Alive'
  BY <1>r, <1>l DEF Inv, TypeOK, Alive, RoomsOK, SocketOK
<1>7. QED
  BY <1>1, <1>2, <1>3, <1>4, <1>5, <1>6 DEF Inv, TypeOK

LEMMA ClientStep ==
  ASSUME Inv, NEW c \in Conn,
         (\E text \in Texts : Send(c, text)) \/ Leave(c) \/ Vanish(c)
  PROVE  Inv'
<1>0. UNCHANGED <<table, rooms, pc, socket, outbox, told>>
  BY DEF Send, Leave, Vanish, table, rooms, socket
<1>a. \/ faults' = faults
      \/ faults < MaxFaults /\ faults' = faults + 1
  BY DEF Send, Leave, Vanish, Fault
<1>b. \/ inbox' = inbox
      \/ \E m \in Texts \cup {"close"} : inbox' = [inbox EXCEPT ![c] = Append(@, m)]
  BY DEF Send, Leave, Vanish
<1>c. \/ peer' = peer
      \/ peer' = [peer EXCEPT ![c] = "left"]
      \/ peer' = [peer EXCEPT ![c] = "lost"]
  BY DEF Send, Leave, Vanish
<1>d. \/ sent' = sent
      \/ sent[c] < MaxFrames /\ sent' = [sent EXCEPT ![c] = @ + 1]
  BY DEF Send, Leave, Vanish
<1>1. TableOK'
  <2>1. faults \in 0 .. MaxFaults
    BY DEF Inv, TypeOK, TableOK
  <2>2. faults' \in 0 .. MaxFaults
    BY <1>a, <2>1, BoundAssumption
  <2>3. QED
    BY <1>0, <2>2 DEF Inv, TypeOK, TableOK, table
<1>2. RoomsOK' /\ RegistryExact'
  BY <1>0 DEF Inv, TypeOK, RoomsOK, RegistryExact, rooms
<1>3. SocketOK'
  <2>1. \A m \in Texts \cup {"close"} : Append(inbox[c], m) \in Seq(Texts \cup {"close"})
    BY DEF Inv, TypeOK, SocketOK
  <2>2. inbox' \in [Conn -> Seq(Texts \cup {"close"})]
    BY <1>b, <2>1 DEF Inv, TypeOK, SocketOK
  <2>3. QED
    BY <1>0, <2>2 DEF Inv, TypeOK, SocketOK, socket
<1>4. ClientOK'
  <2>1. peer' \in [Conn -> {"up", "left", "lost"}]
    BY <1>c DEF Inv, TypeOK, ClientOK
  <2>2. sent' \in [Conn -> 0 .. MaxFrames]
    <3>1. sent \in [Conn -> 0 .. MaxFrames]
      BY DEF Inv, TypeOK, ClientOK
    <3>2. sent[c] < MaxFrames => sent[c] + 1 \in 0 .. MaxFrames
      BY <3>1, BoundAssumption
    <3>3. QED
      BY <1>d, <3>1, <3>2
  <2>3. QED
    BY <1>0, <2>1, <2>2 DEF Inv, TypeOK, ClientOK
<1>5. HandlersOK'
  BY <1>0 DEF Inv, TypeOK, HandlersOK, rooms, socket
<1>6. Alive'
  BY <1>0 DEF Inv, Alive, rooms, socket
<1>7. QED
  BY <1>1, <1>2, <1>3, <1>4, <1>5, <1>6 DEF Inv, TypeOK

LEMMA MatchStep ==
  ASSUME Inv, NEW s \in Session, Match(s)
  PROVE  Inv'
<1> USE DEF rooms, socket, client, Match
<1>1. TableOK'
  BY DEF Inv, TypeOK, TableOK
<1>2. RoomsOK' /\ RegistryExact'
  BY DEF Inv, TypeOK, RoomsOK, RegistryExact
<1>3. SocketOK' /\ ClientOK'
  BY DEF Inv, TypeOK, SocketOK, ClientOK
<1>4. HandlersOK' /\ Alive'
  BY DEF Inv, TypeOK, HandlersOK, Alive
<1>5. QED
  BY <1>1, <1>2, <1>3, <1>4 DEF Inv, TypeOK

LEMMA InvKept == Inv /\ [Next]_vars => Inv'
<1> SUFFICES ASSUME Inv, [Next]_vars PROVE Inv'
  OBVIOUS
<1>1. ASSUME NEW c \in Conn,
             Open(c) \/ Serve(c) \/ WriteFails(c) \/ ReadFails(c)
      PROVE  Inv'
  BY <1>1, OpenStep, IgnoreStep, HelloStep, AnswerHelloStep, MoveStep, ApplyStep, SaveStep,
     BroadcastStep, RecvCloseStep, WrittenStep, WriteFailsStep, ReadFailsStep DEF Serve
<1>2. ASSUME NEW c \in Conn,
             (\E text \in Texts : Send(c, text)) \/ Leave(c) \/ Vanish(c)
      PROVE  Inv'
  BY <1>2, ClientStep
<1>3. ASSUME NEW s \in Session, Match(s) PROVE Inv'
  BY <1>3, MatchStep
<1>4. CASE UNCHANGED vars
  <2>1. TableOK' /\ SocketOK' /\ ClientOK'
    BY <1>4 DEF vars, Inv, TypeOK, TableOK, SocketOK, ClientOK
  <2>2. RoomsOK' /\ RegistryExact'
    BY <1>4 DEF vars, Inv, TypeOK, RoomsOK, RegistryExact
  <2>3. HandlersOK' /\ Alive'
    BY <1>4 DEF vars, Inv, TypeOK, HandlersOK, Alive
  <2>4. QED
    BY <2>1, <2>2, <2>3 DEF Inv, TypeOK
<1>5. QED
  BY <1>1, <1>2, <1>3, <1>4 DEF Next

\* Every reachable state is well typed, whatever the clients send, whichever
\* requests fail and however connections end.
THEOREM TypeCorrect == Spec => []TypeOK
<1>1. Inv => TypeOK
  BY DEF Inv
<1>2. QED
  BY <1>1, InitInv, InvKept, PTL DEF Spec

\* session_conns lists exactly the connections that are bound to a session.
THEOREM RegistrySafe == Spec => []RegistryExact
<1>1. Inv => RegistryExact
  BY DEF Inv
<1>2. QED
  BY <1>1, InitInv, InvKept, PTL DEF Spec

\* No broadcast meets a deleted connection.
THEOREM NeverDangling == Spec => []NoDangling
<1>1. Inv => NoDangling
  BY NullAssumption DEF Inv, RegistryExact, Alive, NoDangling
<1>2. QED
  BY <1>1, InitInv, InvKept, PTL DEF Spec

-----------------------------------------------------------------------------
(* What clients are shown is stored.                                       *)

Update(q) == \E i \in DOMAIN q : q[i] = "update"
Shown(c)  == pc[c] = "broadcast" \/ "update" \in told[c] \/ Update(outbox[c])
Saved     == \A c \in Conn : (faults = 0 /\ Shown(c)) => version[Room[c]] = 2

LEMMA UpdateAppended ==
  ASSUME NEW q \in Seq(Messages), NEW m \in Messages, Update(Append(q, m))
  PROVE  m = "update" \/ Update(q)
BY DEF Update

LEMMA UpdateKept ==
  ASSUME NEW q \in Seq(Messages), q # <<>>
  PROVE  /\ Head(q) = "update" => Update(q)
         /\ Update(Tail(q)) => Update(q)
         /\ \A k \in 1 .. Len(q) : Update(SubSeq(q, k + 1, Len(q))) => Update(q)
<1>1. Head(q) = "update" => Update(q)
  BY DEF Update
<1>2. Update(Tail(q)) => Update(q)
  <2>1. SUFFICES ASSUME NEW i \in DOMAIN Tail(q), Tail(q)[i] = "update" PROVE Update(q)
    BY DEF Update
  <2>2. i + 1 \in DOMAIN q /\ q[i + 1] = "update"
    BY <2>1
  <2>3. QED
    BY <2>2 DEF Update
<1>3. ASSUME NEW k \in 1 .. Len(q), Update(SubSeq(q, k + 1, Len(q))) PROVE Update(q)
  <2> DEFINE r == SubSeq(q, k + 1, Len(q))
  <2>1. PICK i \in DOMAIN r : r[i] = "update"
    BY <1>3 DEF Update
  <2>2. /\ Len(r) = Len(q) - k
        /\ \A j \in 1 .. Len(q) - k : r[j] = q[k + j]
        /\ r \in Seq(Messages)
    BY SubSeqProperties
  <2>3. i \in 1 .. Len(q) - k
    BY <2>1, <2>2
  <2>4. k + i \in DOMAIN q /\ q[k + i] = "update"
    BY <2>1, <2>2, <2>3
  <2>5. QED
    BY <2>4 DEF Update
<1>4. QED
  BY <1>1, <1>2, <1>3

\* Steps that neither save nor broadcast show nothing new and take nothing back.
LEMMA Quiet ==
  ASSUME Inv, Saved, faults \in Nat, faults' \in {faults, faults + 1},
         \A c \in Conn : Shown(c)' => Shown(c),
         \A s \in Session : version[s] = 2 => version'[s] = 2
  PROVE  Saved'
<1>1. faults' = 0 => faults = 0
  OBVIOUS
<1>2. QED
  BY <1>1, RoomAssumption DEF Saved


LEMMA FaultsCount ==
  ASSUME Inv, [Next]_vars
  PROVE  faults \in Nat /\ faults' \in {faults, faults + 1}
<1>1. faults \in Nat
  BY BoundAssumption DEF Inv, TypeOK, TableOK
<1>2. ASSUME NEW c \in Conn, AnswerHello(c) \/ Apply(c) PROVE faults' \in {faults, faults + 1}
  BY <1>2 DEF AnswerHello, Apply, Fetched, Fault
<1>3. ASSUME NEW c \in Conn,
             \/ Open(c) \/ Ignore(c) \/ Hello(c) \/ Move(c) \/ Save(c) \/ Broadcast(c)
             \/ RecvClose(c) \/ Written(c) \/ WriteFails(c) \/ ReadFails(c)
             \/ \E text \in Texts : Send(c, text)
             \/ Leave(c) \/ Vanish(c)
      PROVE  faults' \in {faults, faults + 1}
  BY <1>3 DEF Open, Ignore, Hello, Move, Save, Broadcast, RecvClose, Written, WriteFails,
              ReadFails, Send, Leave, Vanish, Fault
<1>4. ASSUME NEW s \in Session, Match(s) PROVE faults' \in {faults, faults + 1}
  BY <1>4 DEF Match
<1>5. CASE UNCHANGED vars
  BY <1>1, <1>5 DEF vars
<1>6. QED
  BY <1>1, <1>2, <1>3, <1>4, <1>5 DEF Next, Serve

LEMMA VersionKept ==
  ASSUME Inv, [Next]_vars, NEW s \in Session, version[s] = 2
  PROVE  version'[s] = 2
<1>1. ASSUME NEW c \in Conn, Save(c) PROVE version'[s] = 2
  BY <1>1 DEF Save, Inv, TypeOK, TableOK
<1>2. ASSUME NEW c \in Conn,
             \/ Open(c) \/ Ignore(c) \/ Hello(c) \/ AnswerHello(c) \/ Move(c) \/ Apply(c)
             \/ Broadcast(c) \/ RecvClose(c) \/ Written(c) \/ WriteFails(c) \/ ReadFails(c)
             \/ \E text \in Texts : Send(c, text)
             \/ Leave(c) \/ Vanish(c)
      PROVE  version' = version
  BY <1>2 DEF Open, Ignore, Hello, AnswerHello, Move, Apply, Broadcast, RecvClose, Written,
              WriteFails, ReadFails, Send, Leave, Vanish, table
<1>3. ASSUME NEW r \in Session, Match(r) PROVE version'[s] = 2
  BY <1>3 DEF Match, Inv, TypeOK, TableOK
<1>4. CASE UNCHANGED vars
  BY <1>4 DEF vars
<1>5. QED
  BY <1>1, <1>2, <1>3, <1>4 DEF Next, Serve

LEMMA SaveSaved ==
  ASSUME Inv, [Next]_vars, Saved, NEW c \in Conn, Save(c)
  PROVE  Saved'
<1>1. SUFFICES ASSUME NEW d \in Conn, faults' = 0, Shown(d)' PROVE version'[Room[d]] = 2
  BY DEF Saved
<1>2. faults = 0 /\ version' = [version EXCEPT ![userdata[c]] = 2]
  BY <1>1, FaultsCount DEF Save, Fault
<1>3. userdata[c] = Room[c] /\ Room[c] \in Session /\ Room[d] \in Session
  BY RoomAssumption DEF Save, Inv, TypeOK, HandlersOK
<1>4. CASE d = c
  BY <1>2, <1>3, <1>4 DEF Inv, TypeOK, TableOK
<1>5. CASE d # c
  <2>1. Shown(d)
    BY <1>1, <1>5 DEF Shown, Save, Goto, Inv, TypeOK, HandlersOK, client
  <2>2. QED
    BY <1>2, <1>3, <2>1, VersionKept DEF Saved
<1>6. QED
  BY <1>4, <1>5

LEMMA BroadcastSaved ==
  ASSUME Inv, [Next]_vars, Saved, NEW c \in Conn, Broadcast(c)
  PROVE  Saved'
<1>1. SUFFICES ASSUME NEW d \in Conn, faults' = 0, Shown(d)' PROVE version'[Room[d]] = 2
  BY DEF Saved
<1>2. faults = 0 /\ Room[c] \in Session /\ Room[d] \in Session
  BY <1>1, RoomAssumption DEF Broadcast
<1>3. userdata[c] = Room[c]
  BY DEF Broadcast, Inv, TypeOK, HandlersOK
<1>4. CASE d \in Members(Room[c])
  <2>1. userdata[d] = Room[c] /\ Room[c] # NoSession
    BY <1>2, <1>4, MembersOf, NullAssumption DEF Inv, TypeOK
  <2>2. Room[d] = Room[c]
    BY <2>1 DEF Inv, TypeOK, RoomsOK
  <2>3. version[Room[c]] = 2
    BY <1>2 DEF Saved, Shown, Broadcast
  <2>4. QED
    BY <1>2, <2>2, <2>3, VersionKept
<1>5. CASE d \notin Members(Room[c])
  <2>1. outbox'[d] = outbox[d] /\ told' = told
    BY <1>3, <1>5 DEF Broadcast, client
  <2>2. pc'[d] = "broadcast" => pc[d] = "broadcast"
    BY DEF Broadcast, Goto, Inv, TypeOK, HandlersOK
  <2>3. Shown(d)
    BY <1>1, <2>1, <2>2 DEF Shown
  <2>4. QED
    BY <1>2, <2>3, VersionKept DEF Saved
<1>6. QED
  BY <1>4, <1>5

\* Every other step.
LEMMA ShownBefore ==
  ASSUME Inv, NEW c \in Conn, NEW d \in Conn, Shown(d)',
         \/ Open(c) \/ Ignore(c) \/ Hello(c) \/ AnswerHello(c) \/ Move(c) \/ Apply(c)
         \/ RecvClose(c) \/ Written(c) \/ WriteFails(c) \/ ReadFails(c)
         \/ \E text \in Texts : Send(c, text)
         \/ Leave(c) \/ Vanish(c)
  PROVE  Shown(d)
<1> USE DEF client, socket, rooms, table
<1>t. /\ pc \in [Conn -> {"idle", "hello", "move", "save", "broadcast"}]
      /\ \A e \in Conn : outbox[e] \in Seq(Messages)
      /\ outbox \in [Conn -> Seq(Messages)] /\ told \in [Conn -> SUBSET Messages]
  BY DEF Inv, TypeOK, HandlersOK, SocketOK, ClientOK
<1>1. pc'[d] = "broadcast" => pc[d] = "broadcast"
  <2>1. CASE AnswerHello(c) \/ Apply(c)
    <3>1. (\E v \in 0 .. 2 : Goto(c, IF v = 0 THEN "idle" ELSE "save")) \/ Goto(c, "idle") \/ Die
      BY <2>1 DEF AnswerHello, Apply, Throw
    <3>2. QED
      BY <1>t, <3>1 DEF Goto, Die
  <2>2. CASE Hello(c) \/ Move(c)
    BY <1>t, <2>2 DEF Hello, Move, Goto
  <2>3. CASE ~(AnswerHello(c) \/ Apply(c) \/ Hello(c) \/ Move(c))
    BY <2>3 DEF Open, Ignore, RecvClose, Written, WriteFails, ReadFails, Send, Leave, Vanish
  <2>4. QED
    BY <2>1, <2>2, <2>3
<1>2. CASE Written(c)
  <2>1. Head(outbox[c]) = "update" => Update(outbox[c])
    BY <1>t, <1>2, UpdateKept DEF Written
  <2>2. Update(Tail(outbox[c])) => Update(outbox[c])
    BY <1>t, <1>2, UpdateKept DEF Written
  <2>3. /\ told' = [told EXCEPT ![c] = @ \cup {Head(outbox[c])}]
        /\ outbox' = [outbox EXCEPT ![c] = Tail(@)]
    BY <1>2 DEF Written
  <2>4. CASE d = c
    BY <1>t, <1>1, <2>1, <2>2, <2>3, <2>4 DEF Shown
  <2>5. CASE d # c
    BY <1>t, <1>1, <2>3, <2>5 DEF Shown
  <2>6. QED
    BY <2>4, <2>5
<1>3. CASE ~Written(c)
  <2>1. told' = told
    BY <1>3 DEF Open, Ignore, Hello, AnswerHello, Move, Apply, RecvClose, WriteFails,
                ReadFails, Send, Leave, Vanish
  <2>2. Update(outbox'[d]) => Update(outbox[d])
    <3>1. CASE outbox' = outbox
      BY <3>1
    <3>2. CASE \E m \in {"waiting", "state", "bye"} : Post(c, m)
      <4>1. PICK m \in {"waiting", "state", "bye"} : Post(c, m)
        BY <3>2
      <4>2. m \in Messages /\ m # "update"
        BY <4>1 DEF Messages
      <4>3. outbox'[d] = IF d = c THEN Append(outbox[c], m) ELSE outbox[d]
        BY <1>t, <4>1 DEF Post
      <4>4. QED
        BY <1>t, <4>2, <4>3, UpdateAppended
    <3>3. CASE Die
      BY <3>3 DEF Die, Update
    <3>4. CASE WriteFails(c)
      <4>1. PICK k \in 1 .. Len(outbox[c]) :
              outbox' = [outbox EXCEPT ![c] = SubSeq(@, k + 1, Len(@))]
        BY <3>4 DEF WriteFails
      <4>2. outbox[c] # <<>>
        BY <3>4 DEF WriteFails
      <4>3. QED
        BY <1>t, <4>1, <4>2, UpdateKept
    <3>5. outbox' = outbox \/ (\E m \in {"waiting", "state", "bye"} : Post(c, m))
            \/ Die \/ WriteFails(c)
      <4>1. CASE AnswerHello(c)
        BY <4>1 DEF AnswerHello, Throw
      <4>2. CASE Apply(c)
        BY <4>2 DEF Apply, Throw
      <4>3. CASE RecvClose(c)
        BY <4>3 DEF RecvClose
      <4>4. CASE ~AnswerHello(c) /\ ~Apply(c) /\ ~RecvClose(c) /\ ~WriteFails(c)
        BY <1>3, <4>4 DEF Open, Ignore, Hello, Move, ReadFails, Send, Leave, Vanish
      <4>5. QED
        BY <4>1, <4>2, <4>3, <4>4
    <3>6. QED
      BY <3>1, <3>2, <3>3, <3>4, <3>5
  <2>3. QED
    BY <1>1, <2>1, <2>2 DEF Shown
<1>4. QED
  BY <1>2, <1>3

LEMMA SavedKept == Inv /\ Saved /\ [Next]_vars => Saved'
<1> SUFFICES ASSUME Inv, Saved, [Next]_vars PROVE Saved'
  OBVIOUS
<1>1. ASSUME NEW c \in Conn, Save(c) \/ Broadcast(c) PROVE Saved'
  BY <1>1, SaveSaved, BroadcastSaved
<1>2. ASSUME \A d \in Conn : Shown(d)' => Shown(d) PROVE Saved'
  BY <1>2, FaultsCount, VersionKept, Quiet
<1>3. ASSUME NEW c \in Conn,
             \/ Open(c) \/ Ignore(c) \/ Hello(c) \/ AnswerHello(c) \/ Move(c) \/ Apply(c)
             \/ RecvClose(c) \/ Written(c) \/ WriteFails(c) \/ ReadFails(c)
             \/ \E text \in Texts : Send(c, text)
             \/ Leave(c) \/ Vanish(c)
      PROVE  Saved'
  BY <1>2, <1>3, ShownBefore
<1>4. ASSUME NEW s \in Session, Match(s) PROVE Saved'
  <2>1. pc' = pc /\ told' = told /\ outbox' = outbox
    BY <1>4 DEF Match, client
  <2>2. QED
    BY <1>2, <2>1 DEF Shown
<1>5. CASE UNCHANGED vars
  BY <1>2, <1>5 DEF vars, Shown
<1>6. QED
  BY <1>1, <1>3, <1>4, <1>5 DEF Next, Serve

\* Unless a request failed or a client vanished, nobody is shown a move that
\* is not stored, on however many threads the moves of a session run.
THEOREM SavedSafe == Spec => []ShownIsSaved
<1>1. Init => Saved
  BY DEF Init, Saved, Shown, Update
<1>2. Saved => ShownIsSaved
  BY DEF Saved, Shown, Update, ShownIsSaved
<1>3. QED
  BY <1>1, <1>2, InitInv, InvKept, SavedKept, PTL DEF Spec

=============================================================================
