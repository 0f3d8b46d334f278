------------------------------ MODULE Registry ------------------------------
(***************************************************************************)
(* What the account service promises: a name is given away once, to one    *)
(* asker, with one password that never changes; only he is told that he    *)
(* signed up, once, and only who knows the password is let in.             *)
(***************************************************************************)
CONSTANTS Asker, Name, Password, Nothing

VARIABLES
  accounts,  \* partial function: name -> password
  due,       \* asker -> the success he has not been told yet
  told       \* asker -> the success he was told last

Success == [kind : {"signup", "login"}, name : Name, password : Password]

Init ==
  /\ accounts = <<>>
  /\ due = [a \in Asker |-> Nothing]
  /\ told = [a \in Asker |-> Nothing]

Owe(a, kind, n, p) ==
  /\ due[a] = Nothing
  /\ due' = [due EXCEPT ![a] = [kind |-> kind, name |-> n, password |-> p]]

\* A free name is taken.  The asker may never hear of it.
Create(a, n, p) ==
  /\ n \notin DOMAIN accounts
  /\ accounts' = [m \in DOMAIN accounts \cup {n} |->
                    IF m = n THEN p ELSE accounts[m]]
  /\ Owe(a, "signup", n, p) \/ UNCHANGED due
  /\ UNCHANGED told

Verify(a, n, p) ==
  /\ n \in DOMAIN accounts /\ accounts[n] = p
  /\ Owe(a, "login", n, p)
  /\ UNCHANGED <<accounts, told>>

Announce(a) ==
  /\ due[a] # Nothing
  /\ told' = [told EXCEPT ![a] = due[a]]
  /\ due' = [due EXCEPT ![a] = Nothing]
  /\ UNCHANGED accounts

\* The asker asks again.
Ask(a) ==
  /\ told[a] # Nothing
  /\ told' = [told EXCEPT ![a] = Nothing]
  /\ UNCHANGED <<accounts, due>>

\* Answers that were not given yet are lost with the process.
Crash ==
  /\ due' = [a \in Asker |-> Nothing]
  /\ UNCHANGED <<accounts, told>>

Next ==
  \/ \E a \in Asker, n \in Name, p \in Password : Create(a, n, p) \/ Verify(a, n, p)
  \/ \E a \in Asker : Announce(a) \/ Ask(a)
  \/ Crash

Spec == Init /\ [][Next]_<<accounts, due, told>>
=============================================================================
