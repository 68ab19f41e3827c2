\* The comment on the transaction of Create, under Create and Delete
CONSTANTS
  p1 = p1
  c1 = c1
  c2 = c2
  ann = ann
  bob = bob
  k1 = k1
  k2 = k2
  PostIDs = {p1}
  CommentIDs = {c1, c2}
  AuthorIDs = {ann}
  Writers = {ann}
  Clients = {k1, k2}
  NoParent = NoParent
  Absent = Absent
  NoID = NoID
  MaxConns = 2
SPECIFICATION Spec
PROPERTIES
  NoReplyToDeletedComment
