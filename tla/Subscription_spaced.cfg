\* A client that puts spaces around the id.
CONSTANTS
  p1 = p1
  p1spaced = p1spaced
  c1 = c1
  c2 = c2
  c3 = c3
  s1 = s1
  Posts = {p1, p1spaced}
  Comments = {c1}
  PostOf <- OnePost
  TrimSpace <- Spellings
  Nothing = Nothing
  Subs = {s1}
  BufferSize = 1
  Cancellable = {}
  Leavers = {s1}
  MayShutDown = FALSE
SPECIFICATION SubscriptionSpec
INVARIANTS
  NoSilentMiss
CHECK_DEADLOCK FALSE
