SPECIFICATION Spec
CONSTANTS
  u1 = u1
  u2 = u2
  i1 = i1
  i2 = i2
  i3 = i3
  m1 = m1
  m2 = m2
  a1 = a1
  a2 = a2
  Users = {u1, u2}
  Identities = {i1, i2, i3}
  Mailboxes = {m1, m2}
  Addresses = {a1, a2}
  None = None
  Manifests <- TwoManifests
  MaxOpen = 2
  MaxRequests = 3
  MaxProvisions = 2
INVARIANTS
  AccessAgrees
PROPERTIES
  GovernedUnlessStale
  MailboxKeptUnlessStale
  HoldersStay
CHECK_DEADLOCK FALSE
