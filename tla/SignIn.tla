------------------------------- MODULE SignIn -------------------------------
(***************************************************************************)
(* Sign-up and login by a code sent to an email address.  A request for a  *)
(* code (POST /signup/email or /login) stores a token and its code in the  *)
(* table otps; a request to verify it (POST /signup/email/verify or        *)
(* /login/verify) checks the two and inserts the user, or finds it.  Each  *)
(* runs in a READ COMMITTED transaction of its own and answers before the  *)
(* COMMIT.                                                                 *)
(*                                                                         *)
(* A token is named by the request that draws it, an account by the        *)
(* request that inserts it.  Time is abstracted to the moment a token has  *)
(* outlived OTP_EXPIRY_SECONDS.  Every request is used once.  A crash of   *)
(* the process is the failure of every request in flight.                  *)
(***************************************************************************)
EXTENDS Naturals, FiniteSets

CONSTANTS
  Emails,
  Asks,       \* requests for a code, and the tokens they draw
  Verifies,   \* requests to verify a code, and the users they insert
  TypeOf,     \* TypeOf[a]: the OtpType of token a
  EmailOf,    \* EmailOf[a]: the email address in request a
  ViaOf,      \* ViaOf[v]: the OtpType the endpoint of request v looks for
  TokenOf,    \* TokenOf[v]: the token in request v
  NoUser

OtpType == {"emailSignup", "login"}

ASSUME SignInAssumption ==
  /\ TypeOf \in [Asks -> OtpType]
  /\ EmailOf \in [Asks -> Emails]
  /\ ViaOf \in [Verifies -> OtpType]
  /\ TokenOf \in [Verifies -> Asks]
  /\ NoUser \notin Verifies

VARIABLES
  users,     \* users[e]: the committed user with email e, or NoUser
  otp,       \* the committed row of a token: "absent", "stored", "deleted"
  expired,   \* tokens that have outlived their time
  mailed,    \* tokens whose code has been sent
  apc, vpc,
  deletes,   \* verifications that deleted their token and have not ended
  inserts    \* verifications that inserted their user and have not ended

vars == <<users, otp, expired, mailed, apc, vpc, deletes, inserts>>

Ended == {"done", "refused", "failed"}
AskPc == {"idle", "save", "send", "commit"} \cup Ended
VerifyPc == {"idle", "user", "wallet", "delete", "insert", "commit"}
              \cup Ended

TypeOK ==
  /\ users \in [Emails -> Verifies \cup {NoUser}]
  /\ otp \in [Asks -> {"absent", "stored", "deleted"}]
  /\ expired \in SUBSET Asks
  /\ mailed \in SUBSET Asks
  /\ apc \in [Asks -> AskPc]
  /\ vpc \in [Verifies -> VerifyPc]
  /\ deletes \in SUBSET Verifies
  /\ inserts \in SUBSET Verifies

Init ==
  /\ users = [e \in Emails |-> NoUser]
  /\ otp = [a \in Asks |-> "absent"]
  /\ expired = {}
  /\ mailed = {}
  /\ apc = [a \in Asks |-> "idle"]
  /\ vpc = [v \in Verifies |-> "idle"]
  /\ deletes = {}
  /\ inserts = {}

-----------------------------------------------------------------------------
(* The event bus.                                                           *)

\* SendVerifyOtpEvent.eventName.
PublishedName == "SendVerifyOtp"

\* setupSubscriptions: EmailNotificationHandler subscribes to the name of the
\* class, InAppNotificationHandler to eventNames.
Subscribed == {"SendVerifyOtpEvent", "AllowanceWithdrawn", "SavingExecution"}

\* publish runs the handlers subscribed to the event's name; it does nothing,
\* and says nothing, when there is none.
Handled == PublishedName \in Subscribed

-----------------------------------------------------------------------------
(* SetupEmailSignupUseCase and LoginUseCase.                                *)

GotoA(a, label) == apc' = [apc EXCEPT ![a] = label]

\* A sign-up is for an email without a user, a login for one with a user.
Ask(a) ==
  /\ apc[a] = "idle"
  /\ GotoA(a, IF (users[EmailOf[a]] = NoUser) = (TypeOf[a] = "emailSignup")
                THEN "save" ELSE "refused")
  /\ UNCHANGED <<users, otp, expired, mailed, vpc, deletes, inserts>>

\* otpRepo.save: the row is visible to this transaction only.
SaveOtp(a) ==
  /\ apc[a] = "save"
  /\ GotoA(a, "send")
  /\ UNCHANGED <<users, otp, expired, mailed, vpc, deletes, inserts>>

\* Mutant of SendCode: the token is answered before the mail is sent.
SendCodeLater(a) ==
  /\ apc[a] = "send"
  /\ GotoA(a, "commit")
  /\ UNCHANGED <<users, otp, expired, mailed, vpc, deletes, inserts>>

\* A sign-up sends the mail itself, a login publishes an event for it; an
\* event nobody subscribes to is dropped.  Then the token is answered.
SendCode(a) ==
  /\ apc[a] = "send"
  /\ GotoA(a, "commit")
  /\ mailed' = IF TypeOf[a] = "emailSignup" \/ Handled
                 THEN mailed \cup {a} ELSE mailed
  /\ UNCHANGED <<users, otp, expired, vpc, deletes, inserts>>

CommitAsk(a) ==
  /\ apc[a] = "commit"
  /\ GotoA(a, "done")
  /\ otp' = [otp EXCEPT ![a] = "stored"]
  /\ UNCHANGED <<users, expired, mailed, vpc, deletes, inserts>>

\* A statement, the mail or the COMMIT fails: rolled back.
AskThrows(a) ==
  /\ apc[a] \in {"save", "send", "commit"}
  /\ GotoA(a, "failed")
  /\ UNCHANGED <<users, otp, expired, mailed, vpc, deletes, inserts>>

\* The time of a token is over: isExpired from here on.
Expire(a) ==
  /\ apc[a] \in {"commit", "done"}
  /\ expired' = expired \cup {a}
  /\ UNCHANGED <<users, otp, mailed, apc, vpc, deletes, inserts>>

-----------------------------------------------------------------------------
(* VerifyEmailSignupUseCase and VerifyLoginUseCase.                         *)

GotoV(v, label) == vpc' = [vpc EXCEPT ![v] = label]

Email(v) == EmailOf[TokenOf[v]]

\* The token exists for the type the endpoint asks for, and is not expired.
Valid(v) ==
  /\ otp[TokenOf[v]] = "stored"
  /\ TypeOf[TokenOf[v]] = ViaOf[v]
  /\ TokenOf[v] \notin expired

\* findByToken and validate, of a token that has been answered and the right
\* code.
FindOtp(v) ==
  /\ vpc[v] = "idle"
  /\ apc[TokenOf[v]] \in {"commit", "done"}
  /\ Valid(v)
  /\ GotoV(v, "user")
  /\ UNCHANGED <<users, otp, expired, mailed, apc, deletes, inserts>>

\* A wrong code, or a token that is not valid.
RefuseOtp(v) ==
  /\ vpc[v] = "idle"
  /\ apc[TokenOf[v]] \in {"commit", "done"}
  /\ GotoV(v, "refused")
  /\ UNCHANGED <<users, otp, expired, mailed, apc, deletes, inserts>>

\* findByEmail: a sign-up must find no user, a login must find one.
FindUser(v) ==
  /\ vpc[v] = "user"
  /\ GotoV(v, IF ViaOf[v] = "emailSignup"
                THEN IF users[Email(v)] = NoUser THEN "wallet" ELSE "refused"
                ELSE IF users[Email(v)] = NoUser THEN "refused" ELSE "delete")
  /\ UNCHANGED <<users, otp, expired, mailed, apc, deletes, inserts>>

\* WalletSetupService.execute asks the chain, then the QR code is generated.
SetupWallet(v) ==
  /\ vpc[v] = "wallet"
  /\ GotoV(v, "delete")
  /\ UNCHANGED <<users, otp, expired, mailed, apc, deletes, inserts>>

\* Another verification of the same token has deleted it and not ended.
TokenBusy(v) == \E w \in deletes \ {v} : TokenOf[w] = TokenOf[v]

\* Mutant of DeleteOtp: the deletion commits by itself.
DeleteOtpAutocommit(v) ==
  /\ vpc[v] = "delete"
  /\ otp' = IF TypeOf[TokenOf[v]] = "emailSignup"
              THEN [otp EXCEPT ![TokenOf[v]] = "deleted"] ELSE otp
  /\ GotoV(v, IF ViaOf[v] = "emailSignup" THEN "insert" ELSE "commit")
  /\ UNCHANGED <<users, expired, mailed, apc, deletes, inserts>>

\* otpRepo.delete(token, "emailSignup"), for a login too: it waits for a
\* deletion that has not ended, and deletes the row if it is there.
DeleteOtp(v) ==
  LET matches == TypeOf[TokenOf[v]] = "emailSignup" IN
  /\ vpc[v] = "delete"
  /\ matches => ~TokenBusy(v)
  /\ deletes' = IF matches /\ otp[TokenOf[v]] = "stored"
                  THEN deletes \cup {v} ELSE deletes
  /\ GotoV(v, IF ViaOf[v] = "emailSignup" THEN "insert" ELSE "commit")
  /\ UNCHANGED <<users, otp, expired, mailed, apc, inserts>>

\* Mutant of EmailBusy: an INSERT does not wait for another one.
EmailBusyUnlocked(v) == FALSE

\* users.email is unique: an INSERT waits for another one of the same email
\* that has not ended, and fails when there is a user.
EmailBusy(v) == \E w \in inserts \ {v} : Email(w) = Email(v)

InsertUser(v) ==
  /\ vpc[v] = "insert"
  /\ ~EmailBusy(v)
  /\ users[Email(v)] = NoUser
  /\ inserts' = inserts \cup {v}
  /\ GotoV(v, "commit")
  /\ UNCHANGED <<users, otp, expired, mailed, apc, deletes>>

\* Mutant of EndVerify: the connection goes back with its transaction open.
EndVerifyKeepsLocks(v, label) ==
  /\ GotoV(v, label)
  /\ UNCHANGED <<deletes, inserts>>

EndVerify(v, label) ==
  /\ GotoV(v, label)
  /\ deletes' = deletes \ {v}
  /\ inserts' = inserts \ {v}

InsertUserRejected(v) ==
  /\ vpc[v] = "insert"
  /\ ~EmailBusy(v)
  /\ users[Email(v)] # NoUser
  /\ EndVerify(v, "failed")
  /\ UNCHANGED <<users, otp, expired, mailed, apc>>

CommitVerify(v) ==
  /\ vpc[v] = "commit"
  /\ otp' = IF v \in deletes THEN [otp EXCEPT ![TokenOf[v]] = "deleted"]
            ELSE otp
  /\ users' = IF v \in inserts THEN [users EXCEPT ![Email(v)] = v]
              ELSE users
  /\ EndVerify(v, "done")
  /\ UNCHANGED <<expired, mailed, apc>>

\* A statement, the chain or the COMMIT fails: rolled back.
VerifyThrows(v) ==
  /\ vpc[v] \notin Ended \cup {"idle"}
  /\ EndVerify(v, "failed")
  /\ UNCHANGED <<users, otp, expired, mailed, apc>>

-----------------------------------------------------------------------------
AskStep(a) == SaveOtp(a) \/ SendCode(a) \/ CommitAsk(a)

VerifyStep(v) ==
  \/ FindUser(v)
  \/ SetupWallet(v)
  \/ DeleteOtp(v)
  \/ InsertUser(v) \/ InsertUserRejected(v)
  \/ CommitVerify(v)

Quiet ==
  /\ \A a \in Asks : apc[a] \in Ended
  /\ UNCHANGED vars

Next ==
  \/ \E a \in Asks : Ask(a) \/ AskStep(a) \/ AskThrows(a) \/ Expire(a)
  \/ \E v \in Verifies :
       FindOtp(v) \/ RefuseOtp(v) \/ VerifyStep(v) \/ VerifyThrows(v)
  \/ Quiet

Spec == Init /\ [][Next]_vars

\* A continuation that is ready runs, and PostgreSQL grants a lock once it is
\* free; nothing need fail or expire.
FairSpec ==
  /\ Spec
  /\ \A a \in Asks : WF_vars(AskStep(a))
  /\ \A v \in Verifies : WF_vars(VerifyStep(v))
=============================================================================
