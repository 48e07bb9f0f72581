CONSTANTS
  alice = alice
  bob = bob
  carol = carol
  phone = phone
  tablet = tablet
  m1 = m1
  m2 = m2
  Nobody = Nobody
  Users = {alice, bob}
  Members = {alice, bob}
  Tokens = {phone}
  Msgs = {m1, m2}
SPECIFICATION Spec
INVARIANTS DisabledIsHarmless
