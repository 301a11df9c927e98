SPECIFICATION WSpec
CONSTANTS
  here = here
  there = there
  p1 = p1
  p2 = p2
  c1 = c1
  Host = Host
  Nowhere = Nowhere
  Nobody = Nobody
  Publishers = {p1, p2}
  Readers = {c1}
  Clients = {c1}
  Threads = {here, there}
  ChannelOf <- MCChannelOf
  Asked <- MCAsked
  Backlog <- MCBacklog
  Events <- MCEvents
  FiberBuffer = 2
  MaxSent = 3
  MaxTold = 0
INVARIANTS NothingSkipped HeardAsleepIsLetGo ToldOnceInOrder AllIsPublished
PROPERTIES  NobodyIsHeldUp
CHECK_DEADLOCK FALSE
