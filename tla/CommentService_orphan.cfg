\* AddComment between its look at the post and its insert, while DeletePost runs.
CONSTANTS
  PostIDs = {1}
  CommentIDs = {1, 2}
  Times = {1}
  ann = ann
  bob = bob
  r1 = r1
  r2 = r2
  r3 = r3
  AuthorIDs = {ann}
  Clients = {r1, r2}
  NoParent = NoParent
  NoCursor = NoCursor
  Absent = Absent
SYMMETRY Symmetry
SPECIFICATION ServiceSpec
INVARIANTS
  NoOrphanComments
CHECK_DEADLOCK FALSE
