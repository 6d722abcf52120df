----------------------------- MODULE Schedulers -----------------------------
(***************************************************************************)
(* The event list of the simulator as either data structure, and the       *)
(* change from one to the other (SetScheduler): the events are taken out   *)
(* of the old list and put into a new one, at any time of the simulation.  *)
(***************************************************************************)
EXTENDS CalendarScheduler

VARIABLES
  scheduler,  \* which of the two m_events is
  heap        \* the heap's events (empty while the calendar is used)

Heap == INSTANCE HeapScheduler

schedulersVars == <<scheduler, heap, cal, qSize, reverse, uid, last, held>>

Kinds == {"heap", "calendar"}

Init ==
  /\ scheduler \in Kinds
  /\ CalendarInit /\ Heap!Init

HeapStep ==
  /\ scheduler = "heap" /\ Heap!NextWithoutRemove
  /\ UNCHANGED <<scheduler, cal, qSize, reverse>>

CalendarStep ==
  /\ scheduler = "calendar" /\ CalendarNext
  /\ UNCHANGED <<scheduler, heap>>

\* What the old list yields until it is empty.
TakeOfHeap(r, k) == [heap |-> Heap!Taken(r.heap, 1), taken |-> Append(r.taken, r.heap[1])]

HeapDrained == Repeat(Len(heap), [heap |-> heap, taken |-> <<>>], TakeOfHeap).taken

TakeOfCalendar(r, k) ==
  LET next == Removed(r.cal, qSize + 1 - k)
  IN [cal |-> next.cal, taken |-> Append(r.taken, next.ev)]

CalendarDrained == Repeat(qSize, [cal |-> cal, taken |-> <<>>], TakeOfCalendar).taken

Drained == IF scheduler = "heap" THEN HeapDrained ELSE CalendarDrained

FilledHeap(events) == Repeat(Len(events), <<>>, LAMBDA h, k : Heap!Inserted(h, events[k]))

\* A new calendar starts at time 0, whatever the time is.
FilledCalendar(events) ==
  Repeat(Len(events), NewCalendar, LAMBDA c, k : Inserted(c, k - 1, events[k]))

SetScheduler(kind) ==
  /\ scheduler' = kind
  /\ \E events \in {Drained} :
       IF kind = "heap"
       THEN heap' = FilledHeap(events) /\ cal' = NewCalendar /\ qSize' = 0
       ELSE cal' = FilledCalendar(events) /\ qSize' = Len(events) /\ heap' = <<>>
  /\ UNCHANGED <<reverse, uid, last, held>>

Next ==
  \/ HeapStep
  \/ CalendarStep
  \/ \E kind \in Kinds : SetScheduler(kind)

Spec == Init /\ [][Next]_schedulersVars

\* With Simulator::Remove on the heap as well.
HeapRemove ==
  /\ scheduler = "heap" /\ Heap!RemoveSome
  /\ UNCHANGED <<scheduler, cal, qSize, reverse>>

SpecWithHeapRemove ==
  /\ Init /\ scheduler = "heap"
  /\ [][HeapStep \/ HeapRemove]_schedulersVars

----------------------------------------------------------------------------
\* No insertion or removal, at whatever depth, and no change of the scheduler
\* loses or doubles an event: the heap holds each one once.
HoldsEveryEvent ==
  scheduler = "heap" =>
    /\ {heap[i] : i \in DOMAIN heap} = held
    /\ Len(heap) = Cardinality(held)

\* Through every resize, each event is once in the bucket its time hashes to:
\* Remove finds it there (its NS_ASSERT(false) is never reached).
EventsInTheirBuckets ==
  scheduler = "calendar" =>
    /\ qSize = Cardinality(held)
    /\ \A ev \in held : \E i \in DOMAIN cal.buckets[Hash(cal, ev.ts)] :
         cal.buckets[Hash(cal, ev.ts)][i] = ev
    /\ Cardinality(UNION {{b} \X DOMAIN cal.buckets[b] : b \in DOMAIN cal.buckets}) = qSize

\* The search starts in the day of the last event taken from this calendar, and
\* no event held is due before it: the invariant the search rests on.
SearchStartsInTime ==
  scheduler = "calendar" =>
    /\ cal.lastPrio <= last.ts
    /\ cal.lastBucket = Hash(cal, cal.lastPrio)
    /\ cal.bucketTop = (cal.lastPrio \div cal.width + 1) * cal.width
    /\ \A ev \in held : ev.ts >= cal.lastPrio

\* Either list, and a change between them, behaves as EventQueue: what comes
\* out is the earliest event held.
Queue == INSTANCE EventQueue WITH queue <- held

QueueSpec == Queue!Spec
=============================================================================
