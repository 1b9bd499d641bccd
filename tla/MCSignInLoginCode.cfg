SPECIFICATION Spec
CONSTANTS
  e1 = e1
  s1 = s1
  s2 = s2
  l1 = l1
  v1 = v1
  v2 = v2
  v3 = v3
  w1 = w1
  w2 = w2
  NoUser = NoUser
  Emails <- OneEmail
  Asks <- ThreeAsks
  TypeOf <- AskTypes
  EmailOf <- ToOne
  Verifies <- FiveVerifies
  ViaOf <- Endpoints
  TokenOf <- Tokens
INVARIANTS
  LoginCodeIsSent
