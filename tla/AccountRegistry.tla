--------------------------- MODULE AccountRegistry ---------------------------
(***************************************************************************)
(* What sign-up promises, without its requests, tables and locks: a code   *)
(* is sent to an email address, and an account is opened for that address  *)
(* by spending a code that was sent to it, the two in one step.  An email  *)
(* has one account, which nothing closes or replaces.                      *)
(***************************************************************************)
CONSTANTS Emails, Tokens, EmailOf

VARIABLES
  sent,      \* the tokens whose code has been sent
  spent,     \* the tokens that cannot be used again
  account    \* account[e]: the token that opened the account of e, if any

Init ==
  /\ sent = {}
  /\ spent = {}
  /\ account = [e \in Emails |-> {}]

Send(a) ==
  /\ sent' = sent \cup {a}
  /\ UNCHANGED <<spent, account>>

Open(a) ==
  /\ a \in sent \ spent
  /\ account[EmailOf[a]] = {}
  /\ spent' = spent \cup {a}
  /\ account' = [account EXCEPT ![EmailOf[a]] = {a}]
  /\ UNCHANGED sent

Next == \E a \in Tokens : Send(a) \/ Open(a)

Spec == Init /\ [][Next]_<<sent, spent, account>>
=============================================================================
