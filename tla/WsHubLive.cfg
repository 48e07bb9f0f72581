CONSTANTS
  c1 = c1
  c2 = c2
  c3 = c3
  chat = chat
  feed = feed
  alice = alice
  bob = bob
  Conns = {c1, c2}
  Keys = {chat}
  Users = {alice}
  KeyOf <- MCKeyOf2
  UserOf <- MCUserOf2
  SendCap = 2
  MaxSent = 4
SPECIFICATION FairSpec
PROPERTIES ImplementsFeed SocketTeardown EvictedLeaves
