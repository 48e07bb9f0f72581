CONSTANTS
  r1 = r1
  r2 = r2
  opener = opener
  alice = alice
  bob = bob
  Readers = {r1, r2}
  Openers = {opener}
  Members = {alice, bob}
  MaxMsgs = 2
  MaxFaults = 2
SPECIFICATION FairSpec
INVARIANTS TypeOK FeedExact SenderOrder UpdateCovers PushFollows
PROPERTIES EventuallyServed ImplementsMailbox
CHECK_DEADLOCK FALSE
