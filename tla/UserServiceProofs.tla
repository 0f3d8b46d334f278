-------------------------- MODULE UserServiceProofs --------------------------
(***************************************************************************)
(* Theorems about UserService, for any threads, names, passwords and       *)
(* failures: types, and that it implements Registry.                       *)
(***************************************************************************)
EXTENDS UserService, TLAPS

Answered == [call : Call, status : Status, reason : Grades]
Query    == {"checking", "inserting", "selecting"}

\* What the labels say of the requests.
CallsOK ==
  \A w \in Worker :
    /\ pc[w] \in {"report", "check", "checking", "insert", "inserting"}
         => call[w].kind = "signup" /\ Key(w) \in ValidName
    /\ pc[w] \in {"select", "selecting"} => call[w].kind = "login"
    /\ pc[w] = "present" => Key(w) \in DOMAIN accounts

Inv == TypeOK /\ CallsOK

LEMMA InitInv == Init => Inv
<1> SUFFICES ASSUME Init PROVE Inv
  OBVIOUS
<1> USE DEF Init
<1>1. TableOK
  BY DEF TableOK
<1>2. ThreadsOK
  BY NullAssumption DEF ThreadsOK, Labels
<1>3. TypeOK
  BY <1>1, <1>2, BoundAssumption DEF TypeOK, Grades
<1>4. CallsOK
  BY DEF CallsOK
<1>5. QED
  BY <1>3, <1>4 DEF Inv

\* A thread that is in a request moves on within it.
LEMMA Moved ==
  ASSUME Inv, NEW w \in Worker, NEW l \in Labels \ {"idle"}, pc[w] # "idle",
         Proceed(w, l),
         \/ txn' = txn /\ pc[w] \notin Query /\ l \notin Query
         \/ txn = NoWorker /\ txn' = w /\ l \in Query
         \/ txn' = NoWorker /\ pc[w] \in Query /\ l \notin Query
  PROVE  ThreadsOK' /\ txn' \in Worker \cup {NoWorker}
<1>1. pc' = [pc EXCEPT ![w] = l] /\ call' = call /\ answer' = answer
  BY DEF Proceed, Goto
<1>2. ThreadsOK /\ txn \in Worker \cup {NoWorker}
  BY DEF Inv, TypeOK
<1>3. \A v \in Worker : txn' = v <=> pc'[v] \in Query
  BY <1>1, <1>2, NullAssumption DEF ThreadsOK, Query
<1>4. QED
  BY <1>1, <1>2, <1>3 DEF ThreadsOK, Query

\* A thread gives its answer.
LEMMA Closed ==
  ASSUME Inv, NEW w \in Worker, pc[w] # "idle", NEW s \in Status, NEW r \in Grades,
         Answer(w, s, r),
         \/ txn' = txn /\ pc[w] \notin Query
         \/ txn' = NoWorker /\ pc[w] \in Query
  PROVE  ThreadsOK' /\ txn' \in Worker \cup {NoWorker}
<1>1. /\ pc' = [pc EXCEPT ![w] = "idle"]
      /\ call' = [call EXCEPT ![w] = NoCall]
      /\ answer' = [answer EXCEPT ![w] = [call |-> call[w], status |-> s, reason |-> r]]
  BY DEF Answer, Goto, Respond
<1>2. ThreadsOK /\ txn \in Worker \cup {NoWorker}
  BY DEF Inv, TypeOK
<1>3. call[w] \in Call
  BY <1>2 DEF ThreadsOK
<1>4. \A v \in Worker : txn' = v <=> pc'[v] \in Query
  BY <1>1, <1>2, NullAssumption DEF ThreadsOK, Query
<1>5. QED
  BY <1>1, <1>2, <1>3, <1>4 DEF ThreadsOK, Query, Labels

\* The table and what the labels say, after a step of one thread that leaves
\* the table alone or adds to it.
LEMMA Labelled ==
  ASSUME Inv, NEW w \in Worker, NEW l \in Labels,
         pc' = [pc EXCEPT ![w] = l],
         \A v \in Worker \ {w} : call'[v] = call[v],
         DOMAIN accounts \subseteq DOMAIN accounts',
         l \in {"report", "check", "checking", "insert", "inserting"}
           => call'[w].kind = "signup" /\ Key(w)' \in ValidName,
         l \in {"select", "selecting"} => call'[w].kind = "login",
         l = "present" => Key(w)' \in DOMAIN accounts'
  PROVE  CallsOK'
<1>1. \A v \in Worker : pc'[v] = IF v = w THEN l ELSE pc[v]
  BY DEF Inv, TypeOK, ThreadsOK
<1>2. \A v \in Worker \ {w} : Key(v)' = Key(v)
  BY DEF Key
<1>3. QED
  BY <1>1, <1>2 DEF Inv, CallsOK

LEMMA FaultTyped ==
  ASSUME faults \in 0 .. MaxFaults, NEW k, Fault(k)
  PROVE  faults' \in 0 .. MaxFaults
BY BoundAssumption DEF Fault

LEMMA SignupStep ==
  ASSUME Inv, NEW w \in Worker, NEW u \in Typed, NEW p \in Password, Signup(w, u, p)
  PROVE  Inv'
<1> DEFINE c == [kind |-> "signup", user |-> u, password |-> p]
<1>1. c \in Call /\ pc[w] = "idle" /\ UNCHANGED <<db, faults>>
  BY DEF Call, Signup
<1>2. ThreadsOK /\ TableOK /\ lastPasswordError \in Grades
  BY DEF Inv, TypeOK
<1>3. Strength[p] \in Grades
  BY StrengthAssumption
<1>4. CASE Lower[u] \notin ValidName
  <2>1. /\ answer' = [answer EXCEPT ![w] = [call |-> c, status |-> 400, reason |-> "Valid"]]
        /\ UNCHANGED <<lastPasswordError, pc, call>>
    BY <1>4 DEF Signup, Respond
  <2>2. ThreadsOK'
    BY <1>1, <1>2, <2>1 DEF ThreadsOK, Status, Grades, db
  <2>3. TypeOK'
    BY <1>1, <1>2, <2>1, <2>2 DEF Inv, TypeOK, TableOK, db
  <2>4. CallsOK'
    BY <1>1, <2>1 DEF Inv, CallsOK, Key, db
  <2>5. QED
    BY <2>3, <2>4 DEF Inv
<1>5. CASE Lower[u] \in ValidName
  <2>1. PICK l \in {"check", "report"} : pc' = [pc EXCEPT ![w] = l]
    BY <1>5 DEF Signup, Goto
  <2>2. /\ call' = [call EXCEPT ![w] = c]
        /\ answer' = [answer EXCEPT ![w] = NoAnswer]
        /\ lastPasswordError' \in Grades
    BY <1>2, <1>3, <1>5 DEF Signup
  <2>3. ThreadsOK'
    BY <1>1, <1>2, <2>1, <2>2 DEF ThreadsOK, Labels, db
  <2>4. TypeOK'
    BY <1>1, <1>2, <2>2, <2>3 DEF Inv, TypeOK, TableOK, db
  <2>5. call'[w] = c /\ Key(w)' = Lower[u]
    BY <1>2, <2>2 DEF ThreadsOK, Key
  <2>6. CallsOK'
    BY <1>1, <1>2, <1>5, <2>1, <2>2, <2>5, Labelled DEF db, Labels, ThreadsOK
  <2>7. QED
    BY <2>4, <2>6 DEF Inv
<1>6. QED
  BY <1>4, <1>5

LEMMA LoginStep ==
  ASSUME Inv, NEW w \in Worker, NEW u \in Typed, NEW p \in Password, Login(w, u, p)
  PROVE  Inv'
<1> DEFINE c == [kind |-> "login", user |-> u, password |-> p]
<1>1. c \in Call /\ pc[w] = "idle" /\ UNCHANGED <<db, lastPasswordError, faults>>
  BY DEF Call, Login
<1>2. ThreadsOK /\ TableOK
  BY DEF Inv, TypeOK
<1>3. /\ pc' = [pc EXCEPT ![w] = "select"]
      /\ call' = [call EXCEPT ![w] = c]
      /\ answer' = [answer EXCEPT ![w] = NoAnswer]
  BY DEF Login, Goto
<1>4. ThreadsOK'
  BY <1>1, <1>2, <1>3 DEF ThreadsOK, Labels, db
<1>5. TypeOK'
  BY <1>1, <1>2, <1>4 DEF Inv, TypeOK, TableOK, db
<1>6. call'[w] = c
  BY <1>2, <1>3 DEF ThreadsOK
<1>7. CallsOK'
  BY <1>1, <1>3, <1>6, Labelled DEF db, Labels, ThreadsOK, Inv, TypeOK
<1>8. QED
  BY <1>5, <1>7 DEF Inv

LEMMA ProceedInv ==
  ASSUME Inv, NEW w \in Worker, NEW l \in Labels \ {"idle"}, pc[w] # "idle",
         Proceed(w, l),
         \/ txn' = txn /\ pc[w] \notin Query /\ l \notin Query
         \/ txn = NoWorker /\ txn' = w /\ l \in Query
         \/ txn' = NoWorker /\ pc[w] \in Query /\ l \notin Query,
         TableOK', DOMAIN accounts \subseteq DOMAIN accounts',
         UNCHANGED <<linked, lastPasswordError>>, faults' \in 0 .. MaxFaults,
         l \in {"report", "check", "checking", "insert", "inserting"}
           => pc[w] \in {"report", "check", "checking", "insert", "inserting"},
         l \in {"select", "selecting"} => pc[w] \in {"select", "selecting"},
         l = "present" => Key(w) \in DOMAIN accounts'
  PROVE  Inv'
<1>1. ThreadsOK' /\ txn' \in Worker \cup {NoWorker}
  BY Moved
<1>2. pc' = [pc EXCEPT ![w] = l] /\ call' = call /\ Key(w)' = Key(w)
  BY DEF Proceed, Goto, Key
<1>3. CallsOK'
  BY <1>2, Labelled DEF Inv, CallsOK
<1>4. QED
  BY <1>1, <1>3 DEF Inv, TypeOK

LEMMA AnswerInv ==
  ASSUME Inv, NEW w \in Worker, pc[w] # "idle", NEW s \in Status, NEW r \in Grades,
         Answer(w, s, r),
         \/ txn' = txn /\ pc[w] \notin Query
         \/ txn' = NoWorker /\ pc[w] \in Query,
         TableOK', DOMAIN accounts \subseteq DOMAIN accounts',
         UNCHANGED <<linked, lastPasswordError>>, faults' \in 0 .. MaxFaults
  PROVE  Inv'
<1>1. ThreadsOK' /\ txn' \in Worker \cup {NoWorker}
  BY Closed
<1>2. pc' = [pc EXCEPT ![w] = "idle"] /\ \A v \in Worker \ {w} : call'[v] = call[v]
  BY DEF Answer, Goto, Inv, TypeOK, ThreadsOK
<1>3. CallsOK'
  BY <1>2, Labelled DEF Labels
<1>4. QED
  BY <1>1, <1>3 DEF Inv, TypeOK

LEMMA ServeStep ==
  ASSUME Inv, NEW w \in Worker, Serve(w)
  PROVE  Inv'
<1> USE DEF Labels, Query, Begin, CanBegin
<1>1. /\ TableOK /\ faults \in 0 .. MaxFaults /\ lastPasswordError \in Grades
      /\ 200 \in Status /\ 400 \in Status /\ 409 \in Status /\ 500 \in Status
      /\ "Valid" \in Grades
  BY DEF Inv, TypeOK, Status, Grades
<1>2. accounts' = accounts => TableOK'
  BY <1>1 DEF TableOK
<1>3. CASE Report(w)
  BY <1>1, <1>2, <1>3, AnswerInv DEF Report, db
<1>4. CASE Present(w)
  BY <1>1, <1>2, <1>4, AnswerInv DEF Present, db
<1>5. CASE Check(w)
  BY <1>1, <1>2, <1>5, ProceedInv DEF Check
<1>6. CASE Checked(w)
  <2>1. faults' \in 0 .. MaxFaults
    BY <1>1, <1>6, FaultTyped DEF Checked, QueryFails
  <2>2. CASE Answer(w, 409, "Valid")
    BY <1>1, <1>2, <1>6, <2>1, <2>2, AnswerInv DEF Checked
  <2>3. CASE Proceed(w, "insert")
    BY <1>1, <1>2, <1>6, <2>1, <2>3, ProceedInv DEF Checked
  <2>4. QED
    BY <1>6, <2>2, <2>3 DEF Checked
<1>7. CASE Insert(w)
  <2>2. CASE Answer(w, 500, "Valid") /\ txn' = txn
    BY <1>1, <1>2, <1>7, <2>2, AnswerInv DEF Insert
  <2>3. CASE Begin(w) /\ Proceed(w, "inserting")
    BY <1>1, <1>2, <1>7, <2>3, ProceedInv DEF Insert
  <2>4. QED
    BY <1>7, <2>2, <2>3 DEF Insert
<1>8. CASE Inserted(w)
  <2>1. faults' \in 0 .. MaxFaults
    BY <1>1, <1>8, FaultTyped DEF Inserted, QueryFails
  <2>2. Key(w) \in ValidName /\ call[w].password \in Password
    BY <1>8 DEF Inserted, Inv, CallsOK, TypeOK, ThreadsOK, Call
  <2>3. CASE Store(w)
    <3>1. TableOK' /\ DOMAIN accounts \subseteq DOMAIN accounts' /\ Key(w) \in DOMAIN accounts'
      BY <1>1, <2>2, <2>3 DEF Store, TableOK
    <3>2. CASE Answer(w, 500, "Valid")
      BY <1>1, <1>8, <2>1, <3>1, <3>2, AnswerInv DEF Inserted
    <3>3. CASE Proceed(w, "present")
      BY <1>1, <1>8, <2>1, <3>1, <3>3, ProceedInv DEF Inserted
    <3>4. QED
      BY <1>8, <2>3, <3>2, <3>3 DEF Inserted
  <2>4. CASE accounts' = accounts /\ Answer(w, 500, "Valid")
    BY <1>1, <1>2, <1>8, <2>1, <2>4, AnswerInv DEF Inserted
  <2>5. QED
    BY <1>8, <2>3, <2>4 DEF Inserted
<1>9. CASE Select(w)
  <2>2. CASE Answer(w, 409, "Valid") /\ txn' = txn
    BY <1>1, <1>2, <1>9, <2>2, AnswerInv DEF Select
  <2>3. CASE Begin(w) /\ Proceed(w, "selecting")
    BY <1>1, <1>2, <1>9, <2>3, ProceedInv DEF Select
  <2>4. QED
    BY <1>9, <2>2, <2>3 DEF Select
<1>10. CASE Selected(w)
  <2>1. faults' \in 0 .. MaxFaults
    BY <1>1, <1>10, FaultTyped DEF Selected, QueryFails
  <2>2. CASE Answer(w, 409, "Valid")
    BY <1>1, <1>2, <1>10, <2>1, <2>2, AnswerInv DEF Selected
  <2>3. CASE Key(w) \in DOMAIN accounts /\ Proceed(w, "present")
    BY <1>1, <1>2, <1>10, <2>1, <2>3, ProceedInv DEF Selected
  <2>4. QED
    BY <1>10, <2>2, <2>3 DEF Selected
<1>11. QED
  BY <1>3, <1>4, <1>5, <1>6, <1>7, <1>8, <1>9, <1>10 DEF Serve

LEMMA EnvironmentStep ==
  ASSUME Inv, Cut \/ Restart
  PROVE  Inv'
<1>1. faults \in 0 .. MaxFaults
  BY DEF Inv, TypeOK
<1>2. CASE Cut
  <2>1. faults' \in 0 .. MaxFaults /\ UNCHANGED <<accounts, txn, lastPasswordError, pc, call, answer>>
    BY <1>1, <1>2, FaultTyped DEF Cut, server
  <2>2. QED
    BY <1>2, <2>1 DEF Cut, Inv, TypeOK, TableOK, ThreadsOK, CallsOK, Key
<1>3. CASE Restart
  <2>1. faults' \in 0 .. MaxFaults
    BY <1>1, <1>3, FaultTyped DEF Restart
  <2>2. ThreadsOK'
    BY <1>3, NullAssumption DEF Restart, Inv, TypeOK, ThreadsOK, Labels
  <2>3. TableOK' /\ CallsOK'
    BY <1>3 DEF Restart, Inv, TypeOK, TableOK, CallsOK
  <2>4. QED
    BY <1>3, <2>1, <2>2, <2>3 DEF Restart, Inv, TypeOK, Grades
<1>4. QED
  BY <1>2, <1>3

LEMMA InvKept == Inv /\ [Next]_vars => Inv'
<1> SUFFICES ASSUME Inv, [Next]_vars PROVE Inv'
  OBVIOUS
<1>1. CASE Next
  BY <1>1, SignupStep, LoginStep, ServeStep, EnvironmentStep DEF Next
<1>2. CASE UNCHANGED vars
  BY <1>2 DEF vars, Inv, TypeOK, TableOK, ThreadsOK, CallsOK, Key
<1>3. QED
  BY <1>1, <1>2

\* Every reachable state is well typed; no two threads are ever in a
\* transaction on the one connection.
THEOREM TypeCorrect == Spec => []TypeOK
<1>1. Inv => TypeOK
  BY DEF Inv
<1>2. QED
  BY <1>1, InitInv, InvKept, PTL DEF Spec

-----------------------------------------------------------------------------
(* Every step is a step of Registry, or none.                              *)

\* A thread that moves on, but not to or from its announcement, owes and has
\* told what it did before.
LEMMA Silent ==
  ASSUME Inv, NEW w \in Worker, NEW l \in Labels, pc[w] # "present", l # "present",
         pc' = [pc EXCEPT ![w] = l],
         \A v \in Worker \ {w} : call'[v] = call[v]
  PROVE  Due' = Due
<1>1. \A v \in Worker : pc'[v] = IF v = w THEN l ELSE pc[v]
  BY DEF Inv, TypeOK, ThreadsOK
<1>2. \A v \in Worker \ {w} : Key(v)' = Key(v)
  BY DEF Key
<1>3. QED
  BY <1>1, <1>2 DEF Due

LEMMA Refusal ==
  ASSUME Inv, NEW w \in Worker, pc[w] \notin {"idle", "present"},
         NEW s \in Status \ {200}, NEW r \in Grades, Answer(w, s, r)
  PROVE  Due' = Due /\ Told' = Told
<1>1. /\ pc' = [pc EXCEPT ![w] = "idle"]
      /\ call' = [call EXCEPT ![w] = NoCall]
      /\ answer' = [answer EXCEPT ![w] = [call |-> call[w], status |-> s, reason |-> r]]
      /\ answer[w] = NoAnswer /\ DOMAIN answer = Worker /\ DOMAIN call = Worker
  BY DEF Answer, Goto, Respond, Inv, TypeOK, ThreadsOK
<1>2. answer'[w].status # 200 /\ \A v \in Worker \ {w} : answer'[v] = answer[v]
  BY <1>1
<1>3. Told' = Told
  BY <1>1, <1>2 DEF Told
<1>4. QED
  BY <1>1, <1>3, Silent DEF Labels

LEMMA Progress ==
  ASSUME Inv, NEW w \in Worker, pc[w] \notin {"idle", "present"},
         NEW l \in Labels \ {"present"}, Proceed(w, l)
  PROVE  Due' = Due /\ Told' = Told
<1>1. pc' = [pc EXCEPT ![w] = l] /\ call' = call /\ answer' = answer
  BY DEF Proceed, Goto
<1>2. Due' = Due
  <2>1. pc[w] # "present" /\ l # "present" /\ l \in Labels
    OBVIOUS
  <2>2. \A v \in Worker \ {w} : call'[v] = call[v]
    BY <1>1
  <2>3. QED
    BY <1>1, <2>1, <2>2, Silent
<1>3. Told' = Told
  BY <1>1 DEF Told
<1>4. QED
  BY <1>2, <1>3

\* A thread decides on success: it had nothing to announce before.
LEMMA Decided ==
  ASSUME Inv, NEW w \in Worker, pc[w] \notin {"idle", "present"}, Proceed(w, "present")
  PROVE  /\ Due[w] = NoAnswer /\ Told' = Told
         /\ Due' = [Due EXCEPT ![w] = [kind |-> call[w].kind, name |-> Key(w),
                                       password |-> call[w].password]]
<1>1. /\ \A v \in Worker : pc'[v] = IF v = w THEN "present" ELSE pc[v]
      /\ call' = call /\ answer' = answer
  BY DEF Proceed, Goto, Inv, TypeOK, ThreadsOK
<1>2. \A v \in Worker : Key(v)' = Key(v)
  BY <1>1 DEF Key
<1>3. QED
  BY <1>1, <1>2 DEF Due, Told

LEMMA AskedAgain ==
  ASSUME Inv, NEW w \in Worker, pc[w] = "idle", UNCHANGED accounts, Due' = Due,
         DOMAIN answer' = Worker, \A v \in Worker \ {w} : answer'[v] = answer[v],
         answer'[w] = NoAnswer \/ answer'[w].status # 200
  PROVE  Accounts!Ask(w) \/ UNCHANGED <<accounts, Due, Told>>
<1>1. \A v \in Worker : Told'[v] = IF v = w THEN NoAnswer ELSE Told[v]
  BY DEF Told
<1>2. Told' = [v \in Worker |-> IF v = w THEN NoAnswer ELSE Told[v]]
  <2>1. Told' = [v \in Worker |-> Told'[v]]
    BY DEF Told
  <2>2. QED
    BY <1>1, <2>1
<1>3. DOMAIN Told = Worker /\ Told = [v \in Worker |-> Told[v]]
  BY DEF Told
<1>4. Told' = [Told EXCEPT ![w] = NoAnswer]
  BY <1>2, <1>3
<1>5. Told[w] = NoAnswer => Told' = Told
  BY <1>2, <1>3
<1>6. QED
  BY <1>4, <1>5 DEF Accounts!Ask

LEMMA Named ==
  ASSUME Inv, NEW w \in Worker, pc[w] # "idle"
  PROVE  /\ Key(w) \in Name /\ call[w].password \in Password
         /\ call[w] \in Call /\ answer[w] = NoAnswer
BY DEF Inv, TypeOK, ThreadsOK, Call, Key, Name

LEMMA Implements == Inv /\ [Next]_vars => [Accounts!Next]_<<accounts, Due, Told>>
<1> SUFFICES ASSUME Inv, [Next]_vars
             PROVE  Accounts!Next \/ UNCHANGED <<accounts, Due, Told>>
  OBVIOUS
<1>0. DOMAIN answer = Worker /\ DOMAIN call = Worker /\ DOMAIN pc = Worker
  BY DEF Inv, TypeOK, ThreadsOK
<1>1. ASSUME NEW w \in Worker, NEW u \in Typed, NEW p \in Password, Signup(w, u, p)
      PROVE  Accounts!Next \/ UNCHANGED <<accounts, Due, Told>>
  <2>1. \E l \in Labels : l # "present" /\ pc' = [pc EXCEPT ![w] = l]
    <3>1. pc = [pc EXCEPT ![w] = "idle"]
      BY <1>1 DEF Signup, Inv, TypeOK, ThreadsOK
    <3>2. pc' = pc \/ \E l \in {"check", "report"} : pc' = [pc EXCEPT ![w] = l]
      BY <1>1 DEF Signup, Goto
    <3>3. QED
      BY <3>1, <3>2 DEF Labels
  <2>2. /\ pc[w] = "idle" /\ accounts' = accounts
        /\ \A v \in Worker \ {w} : call'[v] = call[v] /\ answer'[v] = answer[v]
        /\ DOMAIN answer' = Worker
        /\ answer'[w] = NoAnswer \/ answer'[w].status # 200
    BY <1>0, <1>1 DEF Signup, db, Respond
  <2>3. Due' = Due
    BY <2>1, <2>2, Silent
  <2>4. QED
    BY <2>2, <2>3, AskedAgain DEF Accounts!Next
<1>2. ASSUME NEW w \in Worker, NEW u \in Typed, NEW p \in Password, Login(w, u, p)
      PROVE  Accounts!Next \/ UNCHANGED <<accounts, Due, Told>>
  <2>1. \E l \in Labels : l # "present" /\ pc' = [pc EXCEPT ![w] = l]
    BY <1>2 DEF Login, Goto, Labels
  <2>2. /\ pc[w] = "idle" /\ accounts' = accounts
        /\ \A v \in Worker \ {w} : call'[v] = call[v] /\ answer'[v] = answer[v]
        /\ DOMAIN answer' = Worker
        /\ answer'[w] = NoAnswer
    BY <1>0, <1>2 DEF Login, db
  <2>3. Due' = Due
    BY <2>1, <2>2, Silent
  <2>4. QED
    BY <2>2, <2>3, AskedAgain DEF Accounts!Next
<1>3. ASSUME NEW w \in Worker,
             Report(w) \/ Check(w) \/ Checked(w) \/ Insert(w) \/ Select(w)
      PROVE  UNCHANGED <<accounts, Due, Told>>
  <2>1. accounts' = accounts /\ pc[w] \notin {"idle", "present"}
    BY <1>3 DEF Report, Check, Checked, Insert, Select, db
  <2>2. \/ \E s \in {400, 409, 500}, r \in Grades : Answer(w, s, r)
        \/ \E l \in {"checking", "insert", "inserting", "selecting"} : Proceed(w, l)
    BY <1>3 DEF Report, Check, Checked, Insert, Select, Inv, TypeOK, Grades
  <2>3. QED
    BY <2>1, <2>2, Refusal, Progress DEF Status, Labels
<1>4. ASSUME NEW w \in Worker, Inserted(w)
      PROVE  Accounts!Next \/ UNCHANGED <<accounts, Due, Told>>
  <2>1. pc[w] = "inserting" /\ call[w].kind = "signup"
    BY <1>4 DEF Inserted, Inv, CallsOK
  <2>2. CASE accounts' = accounts /\ Answer(w, 500, "Valid")
    BY <2>1, <2>2, Refusal DEF Status, Grades
  <2>3. CASE Key(w) \notin DOMAIN accounts /\ Store(w)
             /\ (Proceed(w, "present") \/ Answer(w, 500, "Valid"))
    <3>1. Key(w) \in Name /\ call[w].password \in Password
      BY <2>1, Named
    <3>2. Accounts!Create(w, Key(w), call[w].password)
      <4>1. CASE Proceed(w, "present")
        BY <2>1, <2>3, <4>1, Decided DEF Accounts!Create, Accounts!Owe, Store
      <4>2. CASE Answer(w, 500, "Valid")
        BY <2>1, <2>3, <4>2, Refusal DEF Accounts!Create, Store, Status, Grades
      <4>3. QED
        BY <2>3, <4>1, <4>2
    <3>3. QED
      BY <3>1, <3>2 DEF Accounts!Next
  <2>4. QED
    BY <1>4, <2>2, <2>3 DEF Inserted
<1>5. ASSUME NEW w \in Worker, Selected(w)
      PROVE  Accounts!Next \/ UNCHANGED <<accounts, Due, Told>>
  <2>1. pc[w] = "selecting" /\ call[w].kind = "login" /\ accounts' = accounts
    BY <1>5 DEF Selected, Inv, CallsOK
  <2>2. CASE Answer(w, 409, "Valid")
    BY <2>1, <2>2, Refusal DEF Status, Grades
  <2>3. CASE Key(w) \in DOMAIN accounts /\ accounts[Key(w)] = call[w].password
             /\ Proceed(w, "present")
    <3>1. Key(w) \in Name /\ call[w].password \in Password
      BY <2>1, Named
    <3>2. Accounts!Verify(w, Key(w), call[w].password)
      BY <2>1, <2>3, Decided DEF Accounts!Verify, Accounts!Owe
    <3>3. QED
      BY <3>1, <3>2 DEF Accounts!Next
  <2>4. QED
    BY <1>5, <2>2, <2>3 DEF Selected
<1>6. ASSUME NEW w \in Worker, Present(w)
      PROVE  Accounts!Next
  <2>1. /\ pc[w] = "present" /\ accounts' = accounts
        /\ pc' = [pc EXCEPT ![w] = "idle"]
        /\ call' = [call EXCEPT ![w] = NoCall]
        /\ answer' = [answer EXCEPT ![w] = [call |-> call[w], status |-> 200, reason |-> "Valid"]]
    BY <1>6 DEF Present, Answer, Goto, Respond, db
  <2>2. call[w] \in Call /\ Key(w) \in Name /\ call[w].password \in Password
    BY <2>1, Named
  <2>3. /\ answer'[w] # NoAnswer /\ answer'[w].status = 200 /\ answer'[w].call = call[w]
        /\ \A v \in Worker \ {w} : answer'[v] = answer[v]
    <3>1. answer'[w] = [call |-> call[w], status |-> 200, reason |-> "Valid"]
      BY <1>0, <2>1
    <3>2. answer'[w] \in Answered
      BY <2>2, <3>1 DEF Answered, Status, Grades
    <3>3. QED
      BY <1>0, <2>1, <3>1, <3>2, NullAssumption DEF Answered
  <2>4. Due[w] = [kind |-> call[w].kind, name |-> Key(w), password |-> call[w].password]
    BY <2>1 DEF Due
  <2>5. Due[w] # NoAnswer
    BY <2>2, <2>4, NullAssumption DEF Call
  <2>6. Told' = [Told EXCEPT ![w] = Due[w]]
    <3>1. Told'[w] = Due[w]
      BY <2>3, <2>4 DEF Told, Key
    <3>2. \A v \in Worker \ {w} : Told'[v] = Told[v]
      BY <2>3 DEF Told
    <3>3. DOMAIN Told = Worker /\ Told' = [v \in Worker |-> Told'[v]]
      BY DEF Told
    <3>4. Told' = [v \in Worker |-> IF v = w THEN Due[w] ELSE Told[v]]
      BY <3>1, <3>2, <3>3
    <3>5. Told = [v \in Worker |-> Told[v]]
      BY DEF Told
    <3>6. QED
      BY <3>4, <3>5
  <2>7. Due' = [Due EXCEPT ![w] = NoAnswer]
    <3>1. \A v \in Worker \ {w} : pc'[v] = pc[v] /\ call'[v] = call[v] /\ Key(v)' = Key(v)
      BY <1>0, <2>1 DEF Key
    <3>2. pc'[w] = "idle"
      BY <1>0, <2>1
    <3>3. QED
      BY <3>1, <3>2 DEF Due
  <2>8. Accounts!Announce(w)
    BY <2>1, <2>5, <2>6, <2>7 DEF Accounts!Announce
  <2>9. QED
    BY <2>8 DEF Accounts!Next
<1>7. CASE Cut
  BY <1>7 DEF Cut, server, Due, Told, Key
<1>8. CASE Restart
  <2>1. accounts' = accounts /\ Told' = Told /\ Due' = [w \in Worker |-> NoAnswer]
    BY <1>8 DEF Restart, Told, Due
  <2>2. QED
    BY <2>1 DEF Accounts!Next, Accounts!Crash
<1>9. CASE UNCHANGED vars
  BY <1>9 DEF vars, Due, Told, Key
<1>10. QED
  BY <1>1, <1>2, <1>3, <1>4, <1>5, <1>6, <1>7, <1>8, <1>9 DEF Next, Serve

\* The service keeps the promises of Registry, for any number of threads and
\* whatever fails: a name is given away once, with one password.
THEOREM Refinement == Spec => ImplementsRegistry
<1>1. Init => Accounts!Init
  BY DEF Init, Accounts!Init, Due, Told
<1>2. QED
  BY <1>1, InitInv, InvKept, Implements, PTL DEF Spec, ImplementsRegistry, Accounts!Spec

-----------------------------------------------------------------------------
(* What a refusal says is true.                                            *)

\* A refusal is not yet given only to who has a reason coming.
ReasonDue == \A w \in Worker : pc[w] = "report" => lastPasswordError # "Valid"

\* The two properties, of one answer r.
Taken(r)  == (r # NoAnswer /\ r.call.kind = "signup" /\ r.status = 409)
               => Lower[r.call.user] \in DOMAIN accounts
Reason(r) == (r # NoAnswer /\ r.status = 400 /\ Lower[r.call.user] \in ValidName)
               => r.reason # "Valid"

TruthInv == ReasonDue /\ RefusedIsTaken /\ ReasonNamed

\* An answer a thread gives, or has given up, and nobody else's changes.
LEMMA OneAnswer ==
  ASSUME Inv, TruthInv, NEW w \in Worker, DOMAIN accounts \subseteq DOMAIN accounts',
         \A v \in Worker \ {w} : answer'[v] = answer[v],
         \/ answer'[w] \in {answer[w], NoAnswer}
         \/ answer'[w].status \in {200, 500}
         \/ answer'[w].status = 409 /\ answer'[w].call.kind = "login"
         \/ /\ answer'[w].status = 409
            /\ Lower[answer'[w].call.user] \in DOMAIN accounts
         \/ answer'[w].status = 400 /\ answer'[w].reason # "Valid"
         \/ answer'[w].status = 400 /\ Lower[answer'[w].call.user] \notin ValidName
  PROVE  RefusedIsTaken' /\ ReasonNamed'
<1>1. \A v \in Worker : Taken(answer[v]) /\ Reason(answer[v])
  BY DEF Taken, Reason, TruthInv, RefusedIsTaken, ReasonNamed
<1>2. \A v \in Worker \ {w} : Taken(answer[v])' /\ Reason(answer[v])'
  BY <1>1 DEF Taken, Reason
<1>3. Taken(answer[w])' /\ Reason(answer[w])'
  BY <1>1 DEF Taken, Reason
<1>4. QED
  BY <1>2, <1>3 DEF Taken, Reason, RefusedIsTaken, ReasonNamed

LEMMA Truth == Inv /\ TruthInv /\ [Next]_vars => TruthInv'
<1> SUFFICES ASSUME Inv, TruthInv, [Next]_vars PROVE TruthInv'
  OBVIOUS
<1>0. DOMAIN answer = Worker /\ DOMAIN pc = Worker
  BY DEF Inv, TypeOK, ThreadsOK
<1>1. ASSUME NEW w \in Worker, NEW u \in Typed, NEW p \in Password, Signup(w, u, p)
      PROVE  TruthInv'
  <2>1. /\ accounts' = accounts
        /\ \A v \in Worker \ {w} : answer'[v] = answer[v]
        /\ \/ answer'[w] = NoAnswer
           \/ answer'[w].status = 400 /\ Lower[answer'[w].call.user] \notin ValidName
    BY <1>0, <1>1 DEF Signup, db, Respond
  <2>2. ReasonDue'
    BY <1>0, <1>1 DEF Signup, Goto, TruthInv, ReasonDue
  <2>3. QED
    BY <2>1, <2>2, OneAnswer DEF TruthInv
<1>2. ASSUME NEW w \in Worker, NEW u \in Typed, NEW p \in Password, Login(w, u, p)
      PROVE  TruthInv'
  <2>1. /\ accounts' = accounts
        /\ \A v \in Worker \ {w} : answer'[v] = answer[v]
        /\ answer'[w] = NoAnswer
    BY <1>0, <1>2 DEF Login, db
  <2>2. ReasonDue'
    BY <1>0, <1>2 DEF Login, Goto, TruthInv, ReasonDue
  <2>3. QED
    BY <2>1, <2>2, OneAnswer DEF TruthInv
<1>3. ASSUME NEW w \in Worker, Serve(w)
      PROVE  TruthInv'
  <2>1. lastPasswordError' = lastPasswordError
    BY <1>3 DEF Serve, Report, Check, Checked, Insert, Inserted, Select, Selected, Present
  <2>2. \E l \in Labels \ {"report"} : pc' = [pc EXCEPT ![w] = l]
    BY <1>3 DEF Serve, Report, Check, Checked, Insert, Inserted, Select, Selected,
                Present, Answer, Proceed, Goto, Labels
  <2>3. ReasonDue'
    BY <1>0, <2>1, <2>2 DEF TruthInv, ReasonDue
  <2>4. DOMAIN accounts \subseteq DOMAIN accounts'
    BY <1>3 DEF Serve, Report, Check, Checked, Insert, Inserted, Select, Selected,
                Present, db, Store
  <2>5. \A v \in Worker \ {w} : answer'[v] = answer[v]
    BY <1>0, <1>3 DEF Serve, Report, Check, Checked, Insert, Inserted, Select, Selected,
                      Present, Answer, Respond, Proceed
  <2>6. \/ answer'[w] = answer[w]
        \/ answer'[w].status \in {200, 500}
        \/ answer'[w].status = 409 /\ answer'[w].call.kind = "login"
        \/ answer'[w].status = 409 /\ Lower[answer'[w].call.user] \in DOMAIN accounts
        \/ answer'[w].status = 400 /\ answer'[w].reason # "Valid"
    <3>1. CASE Report(w)
      BY <1>0, <3>1 DEF Report, Answer, Respond, TruthInv, ReasonDue
    <3>2. CASE Check(w) \/ Insert(w) \/ Inserted(w) \/ Present(w)
      BY <1>0, <3>2 DEF Check, Insert, Inserted, Present, Answer, Respond, Proceed
    <3>3. CASE Checked(w)
      BY <1>0, <3>3 DEF Checked, Answer, Respond, Proceed, Key
    <3>4. CASE Select(w) \/ Selected(w)
      <4>1. call[w].kind = "login"
        BY <3>4 DEF Select, Selected, Inv, CallsOK
      <4>2. QED
        BY <1>0, <3>4, <4>1 DEF Select, Selected, Answer, Respond, Proceed
    <3>5. QED
      BY <1>3, <3>1, <3>2, <3>3, <3>4 DEF Serve
  <2>7. QED
    BY <2>3, <2>4, <2>5, <2>6, OneAnswer DEF TruthInv
<1>4. CASE Cut
  BY <1>4 DEF Cut, server, TruthInv, ReasonDue, RefusedIsTaken, ReasonNamed
<1>5. CASE Restart
  BY <1>5 DEF Restart, TruthInv, ReasonDue, RefusedIsTaken, ReasonNamed
<1>6. CASE UNCHANGED vars
  BY <1>6 DEF vars, TruthInv, ReasonDue, RefusedIsTaken, ReasonNamed
<1>7. QED
  BY <1>1, <1>2, <1>3, <1>4, <1>5, <1>6 DEF Next

LEMMA InitTruth == Init => TruthInv
BY DEF Init, TruthInv, ReasonDue, RefusedIsTaken, ReasonNamed

\* "Username already exists" (auth_routes.cpp:57) is never said of a free
\* name, although a failing test counts as "does not exist".
THEOREM TakenWhenRefused == Spec => []RefusedIsTaken
<1>1. TruthInv => RefusedIsTaken
  BY DEF TruthInv
<1>2. QED
  BY <1>1, InitInv, InvKept, InitTruth, Truth, PTL DEF Spec

\* A refusal of a weak password names some weakness, whoever's it is.
THEOREM ReasonGiven == Spec => []ReasonNamed
<1>1. TruthInv => ReasonNamed
  BY DEF TruthInv
<1>2. QED
  BY <1>1, InitInv, InvKept, InitTruth, Truth, PTL DEF Spec
=============================================================================
