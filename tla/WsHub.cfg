CONSTANTS
  c1 = c1
  c2 = c2
  c3 = c3
  chat = chat
  feed = feed
  alice = alice
  bob = bob
  Conns = {c1, c2, c3}
  Keys = {chat, feed}
  Users = {alice, bob}
  KeyOf <- MCKeyOf
  UserOf <- MCUserOf
  SendCap = 1
  MaxSent = 2
SPECIFICATION Spec
INVARIANTS TypeOK OpenIffRegistered EntriesOwned StreamExact PresenceExact
PROPERTIES PanicIffMissed
