\* Two publishers, the watcher, the forwarding goroutine and Shutdown all close one
\* subscription, under the fairness of the scheduler and of the RWMutex.
CONSTANTS
  p1 = p1
  p1spaced = p1spaced
  c1 = c1
  c2 = c2
  c3 = c3
  s1 = s1
  Posts = {p1}
  Comments = {c1, c2}
  PostOf <- OnePost
  TrimSpace <- Spellings
  Nothing = Nothing
  Subs = {s1}
  BufferSize = 1
  Cancellable = {}
  Leavers = {s1}
  MayShutDown = TRUE
SPECIFICATION FairSubscriptionSpec
PROPERTIES
  PublisherNeverBlocks
  CancelledSubscriptionsClose
  ShutdownEnds
  NoForwarderStaysBehind
  ClosingReachesTheClient
CHECK_DEADLOCK FALSE
