\* Two requests, two connections, a post with a comment and its reply
CONSTANTS
  p1 = p1
  c1 = c1
  c2 = c2
  ann = ann
  bob = bob
  k1 = k1
  k2 = k2
  PostIDs = {p1}
  CommentIDs = {c1, c2}
  AuthorIDs = {ann, bob}
  Writers = {ann}
  Clients = {k1, k2}
  NoParent = NoParent
  Absent = Absent
  NoID = NoID
  MaxConns = 2
SPECIFICATION FairSpec
INVARIANTS
  RepliesSawALiveParent
  SomebodyGoesOn
PROPERTIES
  ImplementsContract
  AnswersAreTrue
  EveryCallReturns
