SPECIFICATION Spec
CONSTANTS
  s1 = s1
  s2 = s2
  e1 = e1
  e2 = e2
  e3 = e3
  r1 = r1
  r2 = r2
  Showrooms = {s1, s2}
  Emails = {e1, e2, e3}
  Limits = {2}
  MaxClaims = 2
  MaxEdits = 1
  Followed = {s1}
  Requests = {r1, r2}
SYMMETRY Symmetry
INVARIANT ShowroomHasOwner
 
 
PROPERTY LimitPassedOnlyByRace
