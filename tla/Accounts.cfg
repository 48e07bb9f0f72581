CONSTANTS
  h1 = h1
  h2 = h2
  alice = alice
  bob = bob
  line = line
  Handlers = {h1, h2}
  Names = {alice, bob}
  Lines = {line}
  TtlHours = 1
  MaxTime = 1
  MaxWrites = 3
  MaxFaults = 1
  MaxCrashes = 1
SPECIFICATION Spec
SYMMETRY Interchangeable
INVARIANTS TypeOK OneOwner NoUpdateLost AnswerCovers ChangesAccounted
