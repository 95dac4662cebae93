SPECIFICATION FairSpec
CONSTANTS
  m1 = m1  m2 = m2  m3 = m3  m4 = m4  p1 = p1  p2 = p2
  job = job  service = service  NoMessage = NoMessage
  Messages = {m1, m3}
  Processors = {p1, p2}
  Resources = {job, service}
  JobKinds = {job}
  Manifests <- Submitted
  Invalid = {m3}
  Unreadable = {}
  Nameless = {}
  Final = 2
  Overlap = TRUE
INVARIANTS NothingLost RejectedTouchNothing DeadIsTold
PROPERTIES EventuallyTold
CHECK_DEADLOCK FALSE
