\* A POST and a request over a WebSocket add a comment each while two clients
\* subscribe over full channels, one leaves or its context ends, and the process ends.
CONSTANTS
  p1 = p1
  c1 = c1
  c2 = c2
  s1 = s1
  s2 = s2
  Posts = {p1}
  Comments = {c1, c2}
  PostOf <- OnePost
  Subs = {s1, s2}
  BufferSize = 1
  Cancellable = {}
  Leavers = {s1}
  MayShutDown = TRUE
  Posted = {c1}
  Postgres = TRUE
SPECIFICATION LifecycleSpec
INVARIANTS
  TypeOK
  RegisteredIffOpen
  NoPanic
  SlowSubscribersAreClosed
  SubscribersAreToldFirst
  PostsArePublished
  SignalIsNeverStuck
CHECK_DEADLOCK FALSE
