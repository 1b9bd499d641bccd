------------------------------ MODULE MCSignIn ------------------------------
(* Small instances of SignIn for TLC.                                       *)
EXTENDS SignInProps

CONSTANTS e1, s1, s2, l1, v1, v2, v3, w1, w2

\* One email: two sign-ups, the first verified twice and the second once; a
\* login and its verification; a sign-up token sent to the login endpoint.
OneEmail  == {e1}
ThreeAsks == {s1, s2, l1}
AskTypes  == [a \in ThreeAsks |-> IF a = l1 THEN "login" ELSE "emailSignup"]
ToOne     == [a \in ThreeAsks |-> e1]
FiveVerifies == {v1, v2, v3, w1, w2}
Endpoints ==
  [v \in FiveVerifies |-> IF v \in {w1, w2} THEN "login" ELSE "emailSignup"]
Tokens ==
  [v \in FiveVerifies |->
     IF v \in {v1, v2} THEN s1 ELSE IF v = w1 THEN l1 ELSE s2]
=============================================================================
