\* The main thread's calls while another thread posts.
SPECIFICATION Spec
CONSTANTS
  Threads = {t1}
  MaxTs = 4
  MaxUid = 4
  MaxPosts = 2
  MaxDelay = 1
  MaxDestroy = 2
\* The simulator is gone at the end.
CHECK_DEADLOCK FALSE
INVARIANTS
  CountAgrees
  ExpiryIsExact
  CancelledNeverRuns
  DestroyInOrder
  PostsNeitherLostNorDoubled
  WaitingPostsAreAnnounced
  PostsInOrder
PROPERTIES
  QueueSpec
