CONSTANTS
  p1 = p1
  p2 = p2
  a1 = a1
  r1 = r1
  r2 = r2
  owner = owner
  Profiles = {p1, p2}
  Admins = {a1}
  Root = Root
  OwnerRole = owner
  None = None
  PlatformKeys = {"platform"}
  TenantKeys = {"sales"}
  OwnerGrants = {"sales"}
  RouteKey <- Keys
  Drafts <- FewDrafts
  Deltas <- FewDeltas
  Requests = {r1, r2}
SPECIFICATION Spec
SYMMETRY Symmetry
INVARIANT PowersComeFromRoot
INVARIANT ProfileLostOnlyToRace
