\* Five events, enough to grow to four buckets and shrink to one.
SPECIFICATION Spec
CONSTANTS
  MaxTs = 4
  MaxUid = 5
  MaxBuckets = 4
INVARIANTS
  HoldsEveryEvent
  EventsInTheirBuckets
  SearchStartsInTime
PROPERTIES
  QueueSpec
