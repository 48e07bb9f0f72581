CONSTANTS
  r1 = r1
  r2 = r2
  opener = opener
  alice = alice
  Chat = Chat
  Readers = {r1, r2}
  Openers = {opener}
  Members = {alice}
  UserOf <- MCUserOf
  SendCap = 1
  MaxMsgs = 2
  MaxFaults = 1
SPECIFICATION LiveSpec
SYMMETRY Interchangeable
INVARIANTS PeersServed
