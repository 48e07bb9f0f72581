CONSTANTS
  h1 = h1
  h2 = h2
  alice = alice
  bob = bob
  carol = carol
  Handlers = {h1, h2}
  Users = {alice, bob, carol}
  MaxChats = 4
  MaxLost = 1
SPECIFICATION Spec
SYMMETRY Interchangeable
INVARIANTS TypeOK TwoMembers DuplicatesBounded
PROPERTIES ImplementsBook
