----------------------------- MODULE UserService -----------------------------
(***************************************************************************)
(* Accounts: UserService (backend/src/services/user_services.cpp) under    *)
(* the signup and login handlers of backend/src/api/auth_routes.cpp.       *)
(*                                                                         *)
(* All threads share one UserService, with one database connection and one *)
(* lastPasswordError, and nothing locks them.  A transaction is two steps, *)
(* begin (which throws when another one is active on the connection, or    *)
(* when the connection is broken) and query with commit.  A signup is two  *)
(* transactions, the test and the insertion, with the slow hash between.   *)
(***************************************************************************)
EXTENDS Naturals

CONSTANTS
  Worker,     \* threads of the server
  Typed,      \* user names as they are typed
  Lower,      \* typed name -> the name in small letters
  ValidName,  \* names that isValidUsername accepts
  Password,
  Strength,   \* password -> its PasswordStrength
  NoWorker, NoCall, NoAnswer,
  Event,      \* what may fail, a subset of Events
  MaxFaults   \* bound: failures in a run

Events == {"failQuery", "inDoubt", "cut", "restart"}
Grades == {"Valid", "TooShort", "CommonPassword", "MissingUpper",
           "MissingLower", "MissingDigit", "MissingSpecial"}
Name   == {Lower[u] : u \in Typed}
Call   == [kind : {"signup", "login"}, user : Typed, password : Password]
Status == {200, 400, 409, 500}
Labels == {"idle", "report", "check", "checking", "insert", "inserting",
           "select", "selecting", "present"}

ASSUME LowerAssumption == DOMAIN Lower = Typed
ASSUME StrengthAssumption == Strength \in [Password -> Grades]
ASSUME NullAssumption ==
  /\ NoWorker \notin Worker
  /\ NoAnswer \notin [call : Call, status : Status, reason : Grades]
  /\ NoAnswer \notin [kind : {"signup", "login"}, name : Name, password : Password]
ASSUME BoundAssumption == MaxFaults \in Nat

VARIABLES
  accounts,           \* table users: partial function name -> password
  txn,                \* the thread with a transaction on db_conn
  linked,             \* db_conn is not broken
  lastPasswordError,
  pc,                 \* next step of each thread
  call,               \* its request
  answer,             \* its last response
  faults              \* how many failures have happened (bound only)

db     == <<accounts, txn, linked>>
server == <<pc, call, answer>>
vars   == <<accounts, txn, linked, lastPasswordError, pc, call, answer, faults>>

Init ==
  /\ accounts = <<>>
  /\ txn = NoWorker
  /\ linked = TRUE
  /\ lastPasswordError = "Valid"
  /\ pc = [w \in Worker |-> "idle"]
  /\ call = [w \in Worker |-> NoCall]
  /\ answer = [w \in Worker |-> NoAnswer]
  /\ faults = 0

Fault(kind) ==
  /\ kind \in Event
  /\ faults < MaxFaults
  /\ faults' = faults + 1

Goto(w, label) == pc' = [pc EXCEPT ![w] = label]
Key(w)         == Lower[call[w].user]

\* The response; reason is the grade a refused password is given.
Respond(w, c, status, reason) ==
  answer' = [answer EXCEPT ![w] = [call |-> c, status |-> status, reason |-> reason]]

Answer(w, status, reason) ==
  /\ Goto(w, "idle")
  /\ Respond(w, call[w], status, reason)
  /\ call' = [call EXCEPT ![w] = NoCall]

Proceed(w, label) == Goto(w, label) /\ UNCHANGED <<call, answer>>

-----------------------------------------------------------------------------
(* Transactions on db_conn.                                                *)

\* pqxx::work: one transaction at a time, or an exception.
CanBegin == txn = NoWorker /\ linked
Begin(w) == CanBegin /\ txn' = w

\* The query fails, or the connection has broken under it.
QueryFails == \/ ~linked /\ UNCHANGED faults
              \/ Fault("failQuery")

-----------------------------------------------------------------------------
(* Signup.                                                                 *)

\* Mutant: every signup leaves its grade in the service.
SignupGrading(w, u, p) ==
  /\ pc[w] = "idle"
  /\ Lower[u] \in ValidName
  /\ call' = [call EXCEPT ![w] = [kind |-> "signup", user |-> u, password |-> p]]
  /\ answer' = [answer EXCEPT ![w] = NoAnswer]
  /\ Goto(w, IF Strength[p] = "Valid" THEN "check" ELSE "report")
  /\ lastPasswordError' = Strength[p]
  /\ UNCHANGED <<db, faults>>

\* An invalid name is refused at once; the grade of a weak password is left
\* in the service, where the handler looks it up in its next step.
Signup(w, u, p) ==
  /\ pc[w] = "idle"
  /\ LET c == [kind |-> "signup", user |-> u, password |-> p]
     IN \/ /\ Lower[u] \notin ValidName
           /\ Respond(w, c, 400, "Valid")
           /\ UNCHANGED <<lastPasswordError, pc, call>>
        \/ /\ Lower[u] \in ValidName
           /\ call' = [call EXCEPT ![w] = c]
           /\ answer' = [answer EXCEPT ![w] = NoAnswer]
           /\ Goto(w, IF Strength[p] = "Valid" THEN "check" ELSE "report")
           /\ lastPasswordError' = IF Strength[p] = "Valid" THEN lastPasswordError
                                   ELSE Strength[p]
  /\ UNCHANGED <<db, faults>>

Report(w) ==
  /\ pc[w] = "report"
  /\ Answer(w, 400, lastPasswordError)
  /\ UNCHANGED <<db, lastPasswordError, faults>>

\* Mutant: a second transaction is begun on the connection.
CheckAnyway(w) ==
  /\ pc[w] = "check"
  /\ txn' = w
  /\ Proceed(w, "checking")
  /\ UNCHANGED <<accounts, linked, lastPasswordError, faults>>

\* exists: an exception counts as "does not exist".
Check(w) ==
  /\ pc[w] = "check"
  /\ \/ Begin(w) /\ Proceed(w, "checking")
     \/ ~CanBegin /\ UNCHANGED txn /\ Proceed(w, "insert")
  /\ UNCHANGED <<accounts, linked, lastPasswordError, faults>>

\* Mutant: an exception counts as "exists".
CheckedFailing(w) ==
  /\ pc[w] = "checking"
  /\ txn' = NoWorker
  /\ QueryFails
  /\ Answer(w, 409, "Valid")
  /\ UNCHANGED <<accounts, linked, lastPasswordError>>

Checked(w) ==
  /\ pc[w] = "checking"
  /\ txn' = NoWorker
  /\ \/ linked /\ Key(w) \in DOMAIN accounts /\ Answer(w, 409, "Valid") /\ UNCHANGED faults
     \/ linked /\ Key(w) \notin DOMAIN accounts /\ Proceed(w, "insert") /\ UNCHANGED faults
     \/ QueryFails /\ Proceed(w, "insert")
  /\ UNCHANGED <<accounts, linked, lastPasswordError>>

Insert(w) ==
  /\ pc[w] = "insert"
  /\ \/ Begin(w) /\ Proceed(w, "inserting")
     \/ ~CanBegin /\ UNCHANGED txn /\ Answer(w, 500, "Valid")
  /\ UNCHANGED <<accounts, linked, lastPasswordError, faults>>

Store(w) ==
  accounts' = [n \in DOMAIN accounts \cup {Key(w)} |->
                 IF n = Key(w) THEN call[w].password ELSE accounts[n]]

\* Mutant: ON CONFLICT DO UPDATE.
InsertedOver(w) ==
  /\ pc[w] = "inserting"
  /\ txn' = NoWorker
  /\ linked /\ Store(w) /\ Proceed(w, "present")
  /\ UNCHANGED <<linked, lastPasswordError, faults>>

\* INSERT ... ON CONFLICT DO NOTHING RETURNING: an empty result means that
\* the name is taken.  A commit whose outcome is unknown throws, too.
Inserted(w) ==
  /\ pc[w] = "inserting"
  /\ txn' = NoWorker
  /\ \/ /\ linked /\ Key(w) \notin DOMAIN accounts
        /\ Store(w)
        /\ \/ Proceed(w, "present") /\ UNCHANGED faults
           \/ Fault("inDoubt") /\ Answer(w, 500, "Valid")
     \/ /\ \/ linked /\ Key(w) \in DOMAIN accounts /\ UNCHANGED faults
           \/ QueryFails
        /\ Answer(w, 500, "Valid")
        /\ UNCHANGED accounts
  /\ UNCHANGED <<linked, lastPasswordError>>

-----------------------------------------------------------------------------
(* Login.                                                                  *)

Login(w, u, p) ==
  /\ pc[w] = "idle"
  /\ call' = [call EXCEPT ![w] = [kind |-> "login", user |-> u, password |-> p]]
  /\ answer' = [answer EXCEPT ![w] = NoAnswer]
  /\ Goto(w, "select")
  /\ UNCHANGED <<db, lastPasswordError, faults>>

\* Every exception is answered with "Invalid credentials".
Select(w) ==
  /\ pc[w] = "select"
  /\ \/ Begin(w) /\ Proceed(w, "selecting")
     \/ ~CanBegin /\ UNCHANGED txn /\ Answer(w, 409, "Valid")
  /\ UNCHANGED <<accounts, linked, lastPasswordError, faults>>

Selected(w) ==
  /\ pc[w] = "selecting"
  /\ txn' = NoWorker
  /\ LET right == Key(w) \in DOMAIN accounts /\ accounts[Key(w)] = call[w].password
     IN \/ linked /\ right /\ Proceed(w, "present") /\ UNCHANGED faults
        \/ linked /\ ~right /\ Answer(w, 409, "Valid") /\ UNCHANGED faults
        \/ QueryFails /\ Answer(w, 409, "Valid")
  /\ UNCHANGED <<accounts, linked, lastPasswordError>>

\* onlineService.add, whose outcome is ignored, then the answer.
Present(w) ==
  /\ pc[w] = "present"
  /\ Answer(w, 200, "Valid")
  /\ UNCHANGED <<db, lastPasswordError, faults>>

-----------------------------------------------------------------------------
(* The environment.                                                        *)

\* The connection breaks; nothing opens it again.
Cut ==
  /\ Fault("cut")
  /\ linked' = FALSE
  /\ UNCHANGED <<accounts, txn, lastPasswordError, server>>

\* The process dies and starts again; an open transaction is rolled back.
Restart ==
  /\ Fault("restart")
  /\ txn' = NoWorker /\ linked' = TRUE /\ lastPasswordError' = "Valid"
  /\ pc' = [w \in Worker |-> "idle"]
  /\ call' = [w \in Worker |-> NoCall]
  /\ UNCHANGED <<accounts, answer>>

-----------------------------------------------------------------------------
Serve(w) ==
  \/ Report(w) \/ Check(w)  \/ Checked(w)  \/ Insert(w) \/ Inserted(w)
  \/ Select(w) \/ Selected(w) \/ Present(w)

Next ==
  \/ \E w \in Worker, u \in Typed, p \in Password : Signup(w, u, p) \/ Login(w, u, p)
  \/ \E w \in Worker : Serve(w)
  \/ Cut \/ Restart

Spec == Init /\ [][Next]_vars

-----------------------------------------------------------------------------
(* Properties.                                                             *)

TableOK ==
  /\ DOMAIN accounts \subseteq ValidName
  /\ \A n \in DOMAIN accounts : accounts[n] \in Password

ThreadsOK ==
  /\ pc \in [Worker -> Labels]
  /\ DOMAIN call = Worker /\ DOMAIN answer = Worker
  /\ \A w \in Worker :
       /\ call[w] \in IF pc[w] = "idle" THEN {NoCall} ELSE Call
       /\ answer[w] \in [call : Call, status : Status, reason : Grades] \cup {NoAnswer}
       /\ pc[w] # "idle" => answer[w] = NoAnswer
       /\ txn = w <=> pc[w] \in {"checking", "inserting", "selecting"}

\* Types; the connection has a transaction of exactly the thread that is
\* waiting for the result of its query.
TypeOK ==
  /\ TableOK /\ ThreadsOK
  /\ txn \in Worker \cup {NoWorker} /\ linked \in BOOLEAN
  /\ lastPasswordError \in Grades /\ faults \in 0 .. MaxFaults

\* "Username already exists" is true, whatever failed in the test before.
RefusedIsTaken ==
  \A w \in Worker :
    (answer[w] # NoAnswer /\ answer[w].call.kind = "signup" /\ answer[w].status = 409)
      => Lower[answer[w].call.user] \in DOMAIN accounts

\* Who is refused for his password is told of some weakness: the member that
\* carries the grade to the handler may hold another signup's, but never none.
ReasonNamed ==
  \A w \in Worker :
    (answer[w] # NoAnswer /\ answer[w].status = 400
       /\ Lower[answer[w].call.user] \in ValidName) => answer[w].reason # "Valid"

\* The success a thread has decided on, and the one it has announced.
Due == [w \in Worker |->
          IF pc[w] = "present"
          THEN [kind |-> call[w].kind, name |-> Key(w), password |-> call[w].password]
          ELSE NoAnswer]
Told == [w \in Worker |->
           IF answer[w] # NoAnswer /\ answer[w].status = 200
           THEN [kind |-> answer[w].call.kind, name |-> Lower[answer[w].call.user],
                 password |-> answer[w].call.password]
           ELSE NoAnswer]

\* Although the test and the insertion are two transactions with other
\* threads between, a name is given away once and its password stays.
Accounts == INSTANCE Registry WITH
  Asker <- Worker, Nothing <- NoAnswer, due <- Due, told <- Told

ImplementsRegistry == Accounts!Spec

\* Refuted.  "Invalid credentials" (auth_routes.cpp:87) is only said to who
\* does not know the password at that moment.
RightPasswordAccepted ==
  [][\A w \in Worker :
       (call[w] # NoCall /\ call[w].kind = "login"
          /\ answer'[w] # answer[w] /\ answer'[w].status = 409)
         => ~(Key(w) \in DOMAIN accounts /\ accounts[Key(w)] = call[w].password)]_vars
=============================================================================
