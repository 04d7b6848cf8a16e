CONSTANTS
  r1 = r1
  r2 = r2
  r3 = r3
  device = device
  Requests = {r1, r2, r3}
  Device = device
  Threshold = 2
  BackupCodes <- Codes
  Roles = {"STAFF", "SUPER_ADMIN"}
SPECIFICATION Spec
SYMMETRY Symmetry
INVARIANT RightCodeConfirms
