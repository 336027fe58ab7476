CONSTANTS
  Orgs = {o1, o2}
  Subjects = {u1, u2}
  Sessions = {s1, s2}
  Invites = {i1}
  Requests = {r1, r2, r3}
  Founded = {o1}
  None = None
SPECIFICATION MCSpec
SYMMETRY Symmetry
INVARIANTS
  TypeOK
  AdminsRemain
  InvitationsAdmitOnce
PROPERTIES
  AcceptanceIsTimely
CHECK_DEADLOCK FALSE
