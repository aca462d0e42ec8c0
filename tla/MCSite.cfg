SPECIFICATION Spec
CONSTANTS
  Sites = {s1, s2}
  V6 = {v1}
  Users = {u1, u2}
  NoUser = NoUser
  MaxQuota = 2
  Workers = {w1, w2}
  Admin = Admin
  NoSite = NoSite
  NoV6 = NoV6
SYMMETRY Symmetry
INVARIANT Inv
PROPERTY ImplementsBindings
PROPERTY UnbindIsExact
