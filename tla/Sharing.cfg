CONSTANTS
  Users = {u1, u2}
  Groups = {g}
  Tenants = {tenant}
  Everyone = Everyone
  Namespaces = {ns}
  Tables = {t}
  Suffix = Suffix
  NoTarget = NoTarget
  CallIds = {c1, c2, c3}
  Lists = {{g}}
SPECIFICATION Spec
SYMMETRY Symmetry
INVARIANTS
  TypeOK
  ReadersWereLetIn
  SharesReachTheTable
  AccessInfoIsRegular
