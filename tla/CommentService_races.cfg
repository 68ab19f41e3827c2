\* Three requests in flight on one post with up to three comments: the check and the
\* insert of one request interleave with every other request.
CONSTANTS
  PostIDs = {1}
  CommentIDs = {1, 2, 3}
  Times = {1}
  ann = ann
  bob = bob
  r1 = r1
  r2 = r2
  r3 = r3
  AuthorIDs = {ann}
  Clients = {r1, r2, r3}
  NoParent = NoParent
  NoCursor = NoCursor
  Absent = Absent
SYMMETRY Symmetry
SPECIFICATION ServiceSpec
INVARIANTS
  OrphansAreLoneRoots
  LateCommentsAreBounded
  AnswerIsExplained
CHECK_DEADLOCK FALSE
