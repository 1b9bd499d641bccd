SPECIFICATION Spec
CONSTANTS
  u1 = u1
  u2 = u2
  p1 = p1
  p2 = p2
  n1 = n1
  n2 = n2
  v1 = v1
  v2 = v2
  x = x
  NoName = NoName
  NoPin = NoPin
  Users <- TwoUsers
  Names <- OneName
  Setups <- OneSetup
  Renames <- OneRename
  Views <- NoView
  OwnerOf <- OwnersOne
  NameOf <- NewName
  Unqr <- NoQrYet
PROPERTIES
  PinIsKept
