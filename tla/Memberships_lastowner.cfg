INIT MembershipInit
NEXT MembershipNext
CONSTANTS
  Members = {u1, u2}
  Founder = u1
  Requests = {k1, k2}
  NewRoles = {"OWNER", "ADMIN", "MEMBER"}
  Invites = {inv1}
CHECK_DEADLOCK FALSE
INVARIANT LastOwnerProtected
