SPECIFICATION Spec
CONSTANTS
  t1 = t1 t2 = t2 c1 = c1 c2 = c2 d1 = d1 d2 = d2 b1 = b1 b2 = b2
  v1 = v1 wide = wide narrow = narrow deep = deep shallow = shallow
  h1 = h1 NULL = NULL
  Calls = {c1, c2}
  Tenant <- TwoTenants
  Admins = {c2}
  Domains = {d1, d2}
  Backends = {b1, b2}
  Devices = {v1}
  Hosts = {h1}
  OwnerOf <- TwoOwners
  TypeOf <- OwnTypes
  Zones = {wide, narrow}
  Names = {deep, shallow}
  Contains <- Nested
  Moves = TRUE
INVARIANT TypeOK
PROPERTIES StaysInZone StraysOnlyByMove CrossedOnlyByAdmin PutReplaces WidensOnlyKnowingly
CHECK_DEADLOCK FALSE
