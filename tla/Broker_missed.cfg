\* A publisher finds one of two channels full and collects its closer; before it has
\* visited the other, its context ends.
CONSTANTS
  p1 = p1
  c1 = c1
  c2 = c2
  s1 = s1
  s2 = s2
  Posts = {p1}
  Comments = {c1, c2}
  PostOf <- OnePost
  Subs = {s1, s2}
  BufferSize = 1
  Cancellable = {c2}
  Leavers = {}
  MayShutDown = FALSE
SPECIFICATION Spec
PROPERTIES
  EveryMissIsVisible
CHECK_DEADLOCK FALSE
