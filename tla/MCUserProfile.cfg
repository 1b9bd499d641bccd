SPECIFICATION FairSpec
CONSTANTS
  u1 = u1
  u2 = u2
  p1 = p1
  p2 = p2
  n1 = n1
  n2 = n2
  v1 = v1
  v2 = v2
  x = x
  NoName = NoName
  NoPin = NoPin
  Users <- TwoUsers
  Names <- OneName
  Setups <- TwoSetups
  Renames <- TwoRenames
  Views <- TwoViews
  OwnerOf <- Owners
  NameOf <- NewNames
  Unqr <- NoQrYet
INVARIANTS
  UsernamesUnique
  SerialUpdatesKept
  SerialPinSetOnce
PROPERTIES
  RequestsEnd
