CONSTANTS
  alice = alice
  bob = bob
  carol = carol
  phone = phone
  tablet = tablet
  m1 = m1
  m2 = m2
  Nobody = Nobody
  Users = {alice, bob, carol}
  Members = {alice, bob, carol}
  Tokens = {phone, tablet}
  Msgs = {m1}
SPECIFICATION Spec
SYMMETRY Interchangeable
INVARIANTS TypeOK OfflineReached PushJustified
