CONSTANTS
  r1 = r1
  r2 = r2
  alice = alice
  bob = bob
  Readers = {r1, r2}
  Openers = {}
  Members = {alice, bob}
  Me = bob
  Asked = 1
  MaxLimit = 1
  DefaultLimit = 1
  MaxMsgs = 2
  MaxFaults = 1
SPECIFICATION DeliverySpec
SYMMETRY Interchangeable
INVARIANTS DeviceTypeOK HistoryComplete PagesBounded ListNotBehind
PROPERTIES NoSilentSkip
