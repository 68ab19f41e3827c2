\* Two posts, three comments, two instants: threads of replies, soft deletes and
\* cascades; in every state every page, and the batches of MCMemoryStore.
CONSTANTS
  PostIDs = {1, 2}
  CommentIDs = {1, 2, 3}
  Times = {1, 2}
  ann = ann
  bob = bob
  AuthorIDs = {ann, bob}
  NoParent = NoParent
  NoCursor = NoCursor
  Absent = Absent
  PostExcerptLength = 3
  Ellipsis = "..."
  Characters = {"a", "b", "..."}
  Batches <- SomeBatches
  Bodies <- SomeBodies
SPECIFICATION SmallSpec
INVARIANTS
  IndexIsFaithful
  ThreadsAreTrees
  PagesAreExact
  BackendsGiveSamePages
  BackendsGiveSameExcerpts
PROPERTIES
  ImplementsContract
