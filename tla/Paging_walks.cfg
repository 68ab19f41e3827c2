\* A client walks the list of posts, newest first, the comments of a post, or replies,
\* with times that run in any order and with a limit that is missing or above the maximum.
CONSTANTS
  PostIDs = {1, 2, 3}
  CommentIDs = {1, 2}
  Times = {1, 2}
  ann = ann
  r1 = r1
  AuthorIDs = {ann}
  Readers = {r1}
  Limits = {0, 3}
  DefaultPageSize = 1
  MaxPageSize = 2
  NoParent = NoParent
  NoCursor = NoCursor
  Absent = Absent
  AllPosts = AllPosts
  ThreadsRead <- SomeThreads
SPECIFICATION PagingSpec
INVARIANTS
  PagesAscend
  MissedOnlyIfLate
CHECK_DEADLOCK FALSE
