---------------------------- MODULE SignInProps ----------------------------
(* What sign-up and login promise.                                          *)
EXTENDS SignIn

\* A sign-up that ended well has made the account of its email, and no other
\* sign-up ever replaces it, whatever was verified at the same time.
SignUpIsForGood ==
  \A v \in Verifies :
    vpc[v] = "done" /\ ViaOf[v] = "emailSignup" => users[Email(v)] = v

\* The account of an email was made with a code that was sent to that email.
AccountProvesEmail ==
  \A e \in Emails, v \in Verifies :
    users[e] = v =>
      /\ EmailOf[TokenOf[v]] = e
      /\ TypeOf[TokenOf[v]] = "emailSignup"
      /\ TokenOf[v] \in mailed

\* A sign-up token is spent by the account that it makes and by nothing else,
\* a use of it at the endpoint of the login included: a verification that
\* fails leaves it usable, one that succeeds does not.  It says nothing of
\* login tokens, which VerifyLoginUseCase means to delete and does not.
SignUpTokenSpentIffAccount ==
  \A a \in Asks :
    TypeOf[a] = "emailSignup" =>
      (otp[a] = "deleted" <=>
         \E v \in Verifies : TokenOf[v] = a /\ users[EmailOf[a]] = v)

\* Seen from the mails, the tokens that are spent and the accounts, sign-up is
\* the atomic registry: however verifications overlap and fail, an account
\* and the loss of its token appear together, for a code that was sent, and
\* once for an email (VerifyEmailSignupUseCase.execute).
Registry == INSTANCE AccountRegistry
              WITH Tokens <- Asks, sent <- mailed,
                   spent <- {a \in Asks : otp[a] = "deleted"},
                   account <- [e \in Emails |->
                     {TokenOf[v] : v \in {w \in Verifies : users[e] = w}}]
ImplementsRegistry == Registry!Spec

\* The verifications whose end the next statement of v waits for.
WaitsFor(v) ==
  CASE vpc[v] = "delete" /\ TypeOf[TokenOf[v]] = "emailSignup" ->
         {w \in deletes \ {v} : TokenOf[w] = TokenOf[v]}
    [] vpc[v] = "insert" -> {w \in inserts \ {v} : Email(w) = Email(v)}
    [] OTHER -> {}

\* Tokens are locked before emails: of three verifications that wait in a row
\* none is the first again, and the third one can end.
WaitsAreShort ==
  \A v \in Verifies : \A w \in WaitsFor(v) : \A x \in WaitsFor(w) :
    vpc[v] = "delete" /\ vpc[w] = "insert" /\ vpc[x] = "commit"

\* Verifications that wait for each other's token and email all end.
VerificationsEnd ==
  \A v \in Verifies : vpc[v] = "user" ~> vpc[v] \in Ended

-----------------------------------------------------------------------------
(* An inductive invariant.                                                  *)

\* A request that has a valid token keeps its facts, and holds what it has
\* changed until it ends.
VerifyInv ==
  /\ \A v \in Verifies :
       /\ vpc[v] \notin Ended \cup {"idle"} =>
            /\ TypeOf[TokenOf[v]] = ViaOf[v]
            /\ otp[TokenOf[v]] # "absent"
       /\ vpc[v] \in {"wallet", "insert"} => ViaOf[v] = "emailSignup"
       /\ ViaOf[v] = "emailSignup" /\ vpc[v] = "insert" =>
            v \in deletes \/ otp[TokenOf[v]] = "deleted"
       /\ ViaOf[v] = "emailSignup" /\ vpc[v] = "commit" => v \in inserts
       /\ v \in deletes =>
            /\ vpc[v] \in {"insert", "commit"}
            /\ ViaOf[v] = "emailSignup"
            /\ otp[TokenOf[v]] = "stored"
       /\ v \in inserts =>
            /\ vpc[v] = "commit"
            /\ ViaOf[v] = "emailSignup"
            /\ users[Email(v)] = NoUser
            /\ v \in deletes
  /\ \A v, w \in deletes : TokenOf[v] = TokenOf[w] => v = w
  /\ \A v, w \in inserts : Email(v) = Email(w) => v = w

SentInv ==
  \A a \in Asks :
    /\ otp[a] # "absent" /\ TypeOf[a] = "emailSignup" => a \in mailed
    /\ apc[a] = "commit" /\ TypeOf[a] = "emailSignup" => a \in mailed
    /\ otp[a] # "absent" => apc[a] = "done"

IInv ==
  /\ TypeOK
  /\ VerifyInv
  /\ SentInv
  /\ SignUpIsForGood
  /\ AccountProvesEmail
  /\ SignUpTokenSpentIffAccount

-----------------------------------------------------------------------------
\* MockEmailTemplateParser, for "loginOtp": "Welcome back!", "Your one-time
\* verification code is:".  When a login has been answered, its code is on
\* its way to the user.
LoginCodeIsSent ==
  \A a \in Asks : apc[a] = "done" /\ TypeOf[a] = "login" => a \in mailed
=============================================================================
