---------------------------- MODULE SignInProofs ----------------------------
(***************************************************************************)
(* For any number of emails, tokens and verifications: the inductive       *)
(* invariant of SignIn, and with it the safety of sign-up: one account per *)
(* email, made with a code that was sent to it, and a token that is spent  *)
(* exactly by the account it makes; the waits for locks; and the           *)
(* refinement of AccountRegistry.                                          *)
(***************************************************************************)
EXTENDS SignInProps, TLAPS

Rest == /\ SignUpIsForGood
        /\ AccountProvesEmail
        /\ SignUpTokenSpentIffAccount

\* What a request for a code leaves alone.
LEMMA AskFrame ==
  ASSUME NEW a \in Asks,
         Ask(a) \/ SaveOtp(a) \/ SendCode(a) \/ AskThrows(a) \/ Expire(a)
  PROVE  UNCHANGED <<users, otp, vpc, deletes, inserts>>
BY DEF Ask, SaveOtp, SendCode, AskThrows, Expire

\* What a verification leaves alone.
LEMMA VerifyFrame ==
  ASSUME NEW v \in Verifies,
         FindOtp(v) \/ RefuseOtp(v) \/ VerifyStep(v) \/ VerifyThrows(v)
  PROVE  UNCHANGED <<expired, mailed, apc>>
BY DEF FindOtp, RefuseOtp, VerifyStep, FindUser, SetupWallet, DeleteOtp,
   InsertUser, InsertUserRejected, CommitVerify, VerifyThrows

\* Before its COMMIT a verification leaves the tables alone.
LEMMA VerifyTables ==
  ASSUME NEW v \in Verifies,
         \/ FindOtp(v) \/ RefuseOtp(v) \/ FindUser(v) \/ SetupWallet(v)
         \/ DeleteOtp(v) \/ InsertUser(v) \/ InsertUserRejected(v)
         \/ VerifyThrows(v)
  PROVE  UNCHANGED <<users, otp>>
BY DEF FindOtp, RefuseOtp, FindUser, SetupWallet, DeleteOtp, InsertUser,
   InsertUserRejected, VerifyThrows

-----------------------------------------------------------------------------
USE SignInAssumption DEF TypeOK, Ended, GotoA, GotoV, EndVerify, Email, OtpType

\* Every action keeps the types.
LEMMA TypeOKStep == TypeOK /\ [Next]_vars => TypeOK'
<1> SUFFICES ASSUME TypeOK, [Next]_vars PROVE TypeOK'
  OBVIOUS
<1> USE DEF AskPc, VerifyPc
<1>1. ASSUME NEW a \in Asks, Ask(a) \/ AskStep(a) \/ AskThrows(a) \/ Expire(a)
      PROVE  TypeOK'
  BY <1>1 DEF Ask, AskStep, SaveOtp, SendCode, CommitAsk, AskThrows, Expire
<1>2. ASSUME NEW v \in Verifies, FindOtp(v) \/ RefuseOtp(v) PROVE TypeOK'
  BY <1>2 DEF FindOtp, RefuseOtp
<1>3. ASSUME NEW v \in Verifies, FindUser(v) \/ SetupWallet(v) PROVE TypeOK'
  BY <1>3 DEF FindUser, SetupWallet
<1>4. ASSUME NEW v \in Verifies, DeleteOtp(v) PROVE TypeOK'
  BY <1>4 DEF DeleteOtp
<1>5. ASSUME NEW v \in Verifies, InsertUser(v) PROVE TypeOK'
  BY <1>5 DEF InsertUser
<1>6. ASSUME NEW v \in Verifies, InsertUserRejected(v) \/ VerifyThrows(v)
      PROVE  TypeOK'
  BY <1>6 DEF InsertUserRejected, VerifyThrows
<1>7. ASSUME NEW v \in Verifies, CommitVerify(v) PROVE TypeOK'
  BY <1>7 DEF CommitVerify
<1>8. ASSUME UNCHANGED vars PROVE TypeOK'
  BY <1>8 DEF vars
<1> QED
  BY <1>1, <1>2, <1>3, <1>4, <1>5, <1>6, <1>7, <1>8
     DEF Next, VerifyStep, Quiet

\* A token in the table belongs to a request that has been answered, and the
\* code of a sign-up was sent before.
LEMMA SentStep ==
  TypeOK /\ VerifyInv /\ SentInv /\ [Next]_vars => SentInv'
<1> SUFFICES ASSUME TypeOK, VerifyInv, SentInv, [Next]_vars PROVE SentInv'
  OBVIOUS
<1> USE DEF SentInv
<1>1. ASSUME NEW a \in Asks, Ask(a) \/ AskStep(a) \/ AskThrows(a) \/ Expire(a)
      PROVE  SentInv'
  BY <1>1 DEF Ask, AskStep, SaveOtp, SendCode, CommitAsk, AskThrows, Expire
<1>2. ASSUME NEW v \in Verifies, CommitVerify(v) PROVE SentInv'
  BY <1>2 DEF CommitVerify, VerifyInv
<1>3. ASSUME NEW v \in Verifies,
             \/ FindOtp(v) \/ RefuseOtp(v) \/ FindUser(v) \/ SetupWallet(v)
             \/ DeleteOtp(v) \/ InsertUser(v) \/ InsertUserRejected(v)
             \/ VerifyThrows(v)
      PROVE  SentInv'
  BY <1>3, VerifyTables, VerifyFrame DEF VerifyStep
<1>4. ASSUME UNCHANGED vars PROVE SentInv'
  BY <1>4 DEF vars
<1> QED
  BY <1>1, <1>2, <1>3, <1>4 DEF Next, VerifyStep, Quiet

-----------------------------------------------------------------------------
\* Row locks keep verifications of a token, and sign-ups of an email, apart.
LEMMA VerifyInvStep == IInv /\ [Next]_vars => VerifyInv'
<1> SUFFICES ASSUME IInv, [Next]_vars PROVE VerifyInv'
  OBVIOUS
<1> USE DEF IInv, VerifyInv
<1>1. ASSUME NEW a \in Asks,
             Ask(a) \/ SaveOtp(a) \/ SendCode(a) \/ AskThrows(a) \/ Expire(a)
      PROVE  VerifyInv'
  BY <1>1, AskFrame
<1>2. ASSUME NEW a \in Asks, CommitAsk(a) PROVE VerifyInv'
  BY <1>2 DEF CommitAsk, SentInv
<1>3. ASSUME NEW v \in Verifies, FindOtp(v) \/ RefuseOtp(v) PROVE VerifyInv'
  BY <1>3 DEF FindOtp, RefuseOtp, Valid
<1>4. ASSUME NEW v \in Verifies, FindUser(v) \/ SetupWallet(v)
      PROVE  VerifyInv'
  BY <1>4 DEF FindUser, SetupWallet
<1>5. ASSUME NEW v \in Verifies, DeleteOtp(v) PROVE VerifyInv'
  BY <1>5 DEF DeleteOtp, TokenBusy
<1>6. ASSUME NEW v \in Verifies, InsertUser(v) PROVE VerifyInv'
  BY <1>6 DEF InsertUser, EmailBusy, SignUpTokenSpentIffAccount
<1>7. ASSUME NEW v \in Verifies, InsertUserRejected(v) \/ VerifyThrows(v)
      PROVE  VerifyInv'
  BY <1>7 DEF InsertUserRejected, VerifyThrows
<1>8. ASSUME NEW v \in Verifies, CommitVerify(v) PROVE VerifyInv'
  BY <1>8 DEF CommitVerify
<1>9. ASSUME UNCHANGED vars PROVE VerifyInv'
  BY <1>9 DEF vars
<1> QED
  BY <1>1, <1>2, <1>3, <1>4, <1>5, <1>6, <1>7, <1>8, <1>9
     DEF Next, AskStep, VerifyStep, Quiet

\* Accounts, tokens and answers agree: only a COMMIT of a sign-up changes them.
LEMMA RestStep == IInv /\ [Next]_vars => Rest'
<1> SUFFICES ASSUME IInv, [Next]_vars PROVE Rest'
  OBVIOUS
<1> USE DEF IInv, Rest, SignUpIsForGood, AccountProvesEmail,
            SignUpTokenSpentIffAccount
<1>1. ASSUME NEW a \in Asks,
             Ask(a) \/ SaveOtp(a) \/ SendCode(a) \/ AskThrows(a) \/ Expire(a)
      PROVE  Rest'
  <2>1. mailed \subseteq mailed'
    BY <1>1 DEF Ask, SaveOtp, SendCode, AskThrows, Expire
  <2> QED
    BY <1>1, <2>1, AskFrame
<1>2. ASSUME NEW a \in Asks, CommitAsk(a) PROVE Rest'
  BY <1>2 DEF CommitAsk, SentInv
<1>3. ASSUME NEW v \in Verifies,
             \/ FindOtp(v) \/ RefuseOtp(v) \/ FindUser(v) \/ SetupWallet(v)
             \/ DeleteOtp(v) \/ InsertUser(v) \/ InsertUserRejected(v)
             \/ VerifyThrows(v)
      PROVE  Rest'
  <2>1. UNCHANGED <<users, otp, mailed>>
    BY <1>3, VerifyTables, VerifyFrame DEF VerifyStep
  <2>2. \A w \in Verifies : vpc'[w] = "done" => vpc[w] = "done"
    BY <1>3 DEF FindOtp, RefuseOtp, FindUser, SetupWallet, DeleteOtp,
                InsertUser, InsertUserRejected, VerifyThrows
  <2> QED
    BY <2>1, <2>2
<1>4. ASSUME NEW v \in Verifies, CommitVerify(v) PROVE Rest'
  <2>1. CASE ViaOf[v] = "login"
    <3>1. UNCHANGED <<users, otp, mailed>> /\ vpc' = [vpc EXCEPT ![v] = "done"]
      BY <1>4, <2>1 DEF CommitVerify, VerifyInv
    <3> QED
      BY <2>1, <3>1
  <2>2. CASE ViaOf[v] = "emailSignup"
    <3>1. /\ v \in inserts /\ v \in deletes
          /\ users[Email(v)] = NoUser
          /\ otp[TokenOf[v]] = "stored"
          /\ TypeOf[TokenOf[v]] = "emailSignup"
      BY <1>4, <2>2 DEF CommitVerify, VerifyInv
    <3>2. /\ otp' = [otp EXCEPT ![TokenOf[v]] = "deleted"]
          /\ users' = [users EXCEPT ![Email(v)] = v]
          /\ vpc' = [vpc EXCEPT ![v] = "done"]
          /\ mailed' = mailed
      BY <1>4, <3>1 DEF CommitVerify
    <3>3. SignUpIsForGood'
      BY <3>1, <3>2
    <3>4. AccountProvesEmail'
      BY <3>1, <3>2 DEF SentInv
    <3>5. SignUpTokenSpentIffAccount'
      <4> SUFFICES ASSUME NEW a \in Asks, TypeOf[a] = "emailSignup"
                   PROVE  otp'[a] = "deleted" <=>
                            \E w \in Verifies :
                              TokenOf[w] = a /\ users'[EmailOf[a]] = w
        OBVIOUS
      <4>1. CASE a = TokenOf[v]
        BY <3>2, <4>1
      <4>2. CASE a # TokenOf[v] /\ EmailOf[a] # Email(v)
        BY <3>2, <4>2
      <4>3. CASE a # TokenOf[v] /\ EmailOf[a] = Email(v)
        BY <3>1, <3>2, <4>3
      <4> QED
        BY <4>1, <4>2, <4>3
    <3> QED
      BY <3>3, <3>4, <3>5
  <2> QED
    BY <2>1, <2>2
<1>5. ASSUME UNCHANGED vars PROVE Rest'
  BY <1>5 DEF vars
<1> QED
  BY <1>1, <1>2, <1>3, <1>4, <1>5 DEF Next, AskStep, VerifyStep, Quiet

-----------------------------------------------------------------------------
\* Nothing has been asked for and nobody has an account.
LEMMA InitIInv == Init => IInv
BY DEF Init, IInv, AskPc, VerifyPc, VerifyInv, SentInv, SignUpIsForGood,
   AccountProvesEmail, SignUpTokenSpentIffAccount

\* The inductive invariant holds in every reachable state.
THEOREM Invariance == Spec => []IInv
<1>1. IInv /\ [Next]_vars => IInv'
  BY TypeOKStep, SentStep, VerifyInvStep, RestStep DEF IInv, Rest
<1> QED
  BY InitIInv, <1>1, PTL DEF Spec

\* A sign-up that ended well is never replaced, whatever else is verified
\* (VerifyEmailSignupUseCase).
THEOREM SignUpStays == Spec => []SignUpIsForGood
<1>1. IInv => SignUpIsForGood
  BY DEF IInv
<1> QED
  BY <1>1, Invariance, PTL

\* An account is made with a code that was sent to its email.
THEOREM AccountIsProved == Spec => []AccountProvesEmail
<1>1. IInv => AccountProvesEmail
  BY DEF IInv
<1> QED
  BY <1>1, Invariance, PTL

\* A sign-up token is spent exactly by the account it makes: the deletion of
\* the token and the insertion of the user are one.
THEOREM TokenIsSpentOnce == Spec => []SignUpTokenSpentIffAccount
<1>1. IInv => SignUpTokenSpentIffAccount
  BY DEF IInv
<1> QED
  BY <1>1, Invariance, PTL

\* Verifications wait for tokens before they wait for emails, so no circle of
\* them waits for each other.
THEOREM NoLockCircle == Spec => []WaitsAreShort
<1>1. IInv => WaitsAreShort
  <2> SUFFICES ASSUME TypeOK, VerifyInv PROVE WaitsAreShort
    BY DEF IInv
  <2>1. \A v \in Verifies : \A w \in WaitsFor(v) :
          \/ /\ vpc[v] = "delete" /\ w \in deletes
             /\ vpc[w] \in {"insert", "commit"}
          \/ vpc[v] = "insert" /\ w \in inserts /\ vpc[w] = "commit"
    BY DEF WaitsFor, VerifyInv
  <2>2. \A v \in Verifies : vpc[v] = "commit" => WaitsFor(v) = {}
    BY DEF WaitsFor
  <2> QED BY <2>1, <2>2 DEF WaitsAreShort
<1> QED
  BY <1>1, Invariance, PTL

-----------------------------------------------------------------------------
(* The refinement of AccountRegistry.                                       *)

\* The tokens and accounts of the registry.
Spent == {a \in Asks : otp[a] = "deleted"}
Accounts ==
  [e \in Emails |-> {TokenOf[v] : v \in {w \in Verifies : users[e] = w}}]

\* A step that leaves mails, tokens and accounts alone is none of the
\* registry's; one that stores a token is not either.
LEMMA RegistryStutters ==
  ASSUME UNCHANGED <<users, mailed>>,
         \A a \in Asks : otp'[a] = "deleted" <=> otp[a] = "deleted"
  PROVE  UNCHANGED <<mailed, Spent, Accounts>>
BY DEF Spent, Accounts

\* The COMMIT of a sign-up spends its token and opens its account at once; that
\* of a login does neither.
LEMMA CommitOpens ==
  ASSUME TypeOK, VerifyInv, SentInv, NEW v \in Verifies, CommitVerify(v)
  PROVE  Registry!Open(TokenOf[v]) \/ UNCHANGED <<mailed, Spent, Accounts>>
<1>1. CASE v \in inserts
  <2>1. /\ v \in deletes
        /\ users[Email(v)] = NoUser
        /\ otp[TokenOf[v]] = "stored"
        /\ TypeOf[TokenOf[v]] = "emailSignup"
    BY <1>1 DEF VerifyInv
  <2>2. TokenOf[v] \in mailed \ Spent
    BY <2>1 DEF SentInv, Spent
  <2>3. Accounts[Email(v)] = {}
    BY <2>1 DEF Accounts
  <2>4. Spent' = Spent \cup {TokenOf[v]}
    BY <1>1, <2>1 DEF CommitVerify, Spent
  <2>5. users' = [users EXCEPT ![Email(v)] = v] /\ UNCHANGED mailed
    BY <1>1 DEF CommitVerify
  <2>6. Accounts' = [Accounts EXCEPT ![Email(v)] = {TokenOf[v]}]
    <3>1. Accounts'[Email(v)] = {TokenOf[v]}
      BY <2>5 DEF Accounts
    <3>2. \A e \in Emails \ {Email(v)} : Accounts'[e] = Accounts[e]
      BY <2>5 DEF Accounts
    <3> QED BY <3>1, <3>2 DEF Accounts
  <2> QED BY <2>2, <2>3, <2>4, <2>5, <2>6 DEF Registry!Open, Spent, Accounts
<1>2. CASE v \notin inserts
  <2>1. ViaOf[v] = "login" /\ v \notin deletes
    BY <1>2 DEF CommitVerify, VerifyInv
  <2> QED BY <1>2, <2>1, RegistryStutters DEF CommitVerify
<1> QED BY <1>1, <1>2

\* A code that is sent is sent in the registry.
LEMMA CodeIsSent ==
  ASSUME NEW a \in Asks, SendCode(a)
  PROVE  Registry!Send(a) \/ UNCHANGED <<mailed, Spent, Accounts>>
BY DEF SendCode, Registry!Send, Spent, Accounts

\* Every step of sign-up and login is a step of the registry, or none.
LEMMA RegistryStep ==
  IInv /\ [Next]_vars => [Registry!Next]_<<mailed, Spent, Accounts>>
<1> SUFFICES ASSUME TypeOK, VerifyInv, SentInv, [Next]_vars
             PROVE  [Registry!Next]_<<mailed, Spent, Accounts>>
  BY DEF IInv
<1>1. ASSUME NEW a \in Asks, SendCode(a)
      PROVE  [Registry!Next]_<<mailed, Spent, Accounts>>
  BY <1>1, CodeIsSent DEF Registry!Next
<1>2. ASSUME NEW a \in Asks, Ask(a) \/ SaveOtp(a) \/ AskThrows(a) \/ Expire(a)
      PROVE  UNCHANGED <<mailed, Spent, Accounts>>
  <2>1. UNCHANGED <<users, otp, mailed>>
    BY <1>2 DEF Ask, SaveOtp, AskThrows, Expire
  <2> QED BY <2>1, RegistryStutters
<1>3. ASSUME NEW a \in Asks, CommitAsk(a)
      PROVE  UNCHANGED <<mailed, Spent, Accounts>>
  <2>1. otp[a] = "absent"
    BY <1>3 DEF CommitAsk, SentInv
  <2>2. UNCHANGED <<users, mailed>> /\ otp' = [otp EXCEPT ![a] = "stored"]
    BY <1>3 DEF CommitAsk
  <2> QED BY <2>1, <2>2, RegistryStutters
<1>4. ASSUME NEW v \in Verifies, CommitVerify(v)
      PROVE  [Registry!Next]_<<mailed, Spent, Accounts>>
  BY <1>4, CommitOpens DEF Registry!Next
<1>5. ASSUME NEW v \in Verifies,
             \/ FindOtp(v) \/ RefuseOtp(v) \/ FindUser(v) \/ SetupWallet(v)
             \/ DeleteOtp(v) \/ InsertUser(v) \/ InsertUserRejected(v)
             \/ VerifyThrows(v)
      PROVE  UNCHANGED <<mailed, Spent, Accounts>>
  <2>1. UNCHANGED <<users, otp>>
    BY <1>5, VerifyTables
  <2>2. UNCHANGED mailed
    BY <1>5, VerifyFrame DEF VerifyStep
  <2> QED BY <2>1, <2>2, RegistryStutters
<1>6. ASSUME UNCHANGED vars PROVE UNCHANGED <<mailed, Spent, Accounts>>
  BY <1>6, RegistryStutters DEF vars
<1> QED BY <1>1, <1>2, <1>3, <1>4, <1>5, <1>6
      DEF Next, AskStep, VerifyStep, Quiet

\* Sign-up and login implement the atomic registry: an account and the loss of
\* its token appear together, for a code that was sent, once for an email.
THEOREM RefinesRegistry == Spec => ImplementsRegistry
<1>1. Init => Registry!Init
  BY DEF Init, Registry!Init
<1>2. IInv /\ [Next]_vars =>
        [Registry!Next]_<<mailed, {a \in Asks : otp[a] = "deleted"},
          [e \in Emails |->
             {TokenOf[v] : v \in {w \in Verifies : users[e] = w}}]>>
  BY RegistryStep DEF Spent, Accounts
<1> QED
  BY <1>1, <1>2, Invariance, PTL DEF Spec, ImplementsRegistry, Registry!Spec
=============================================================================
