\* Three comments on one post, one subscription under either spelling of its id, a
\* client that may leave and need not read.
CONSTANTS
  p1 = p1
  p1spaced = p1spaced
  c1 = c1
  c2 = c2
  c3 = c3
  s1 = s1
  Posts = {p1, p1spaced}
  Comments = {c1, c2, c3}
  PostOf <- OnePost
  TrimSpace <- Spellings
  Nothing = Nothing
  Subs = {s1}
  BufferSize = 2
  Cancellable = {c1}
  Leavers = {s1}
  MayShutDown = FALSE
SPECIFICATION SubscriptionSpec
INVARIANTS
  DeliveredOnceToItsPost
  DeliveredInPublishOrder
  ForwardedFaithfully
  NoSilentMissByID
PROPERTIES
  ImplementsContract
CHECK_DEADLOCK FALSE
