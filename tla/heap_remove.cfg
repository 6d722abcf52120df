\* Seven events on the heap, each removed as the next or by name.
SPECIFICATION SpecWithHeapRemove
CONSTANTS
  MaxTs = 2
  MaxUid = 7
  MaxBuckets = 4
\* All uids are handed out and the heap is empty.
CHECK_DEADLOCK FALSE
PROPERTIES
  QueueSpec
