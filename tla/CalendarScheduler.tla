------------------------- MODULE CalendarScheduler -------------------------
(***************************************************************************)
(* The event list as a calendar queue (calendar-scheduler.cc): events are  *)
(* hashed by time into the days of a year, the next event is looked for    *)
(* from the day of the last one on, and the number and the width of the    *)
(* days follow the number of events and the gaps between them.             *)
(***************************************************************************)
EXTENDS EventKey, Loops, Integers, SequencesExt

CONSTANT MaxBuckets     \* 32768 in ResizeUp

ASSUME BucketsAssumption == MaxBuckets \in Nat \ {0, 1}

VARIABLES
  cal,        \* m_buckets, m_width, m_lastBucket, m_bucketTop, m_lastPrio
  qSize,      \* m_qSize
  reverse,    \* the attribute Reverse
  uid,        \* next uid the simulator hands out
  last,       \* the key RemoveNext returned last (history)
  held        \* the keys inserted and not yet removed (history)

nBuckets(c) == Len(c.buckets)

\* Buckets are numbered from 1 here.
Hash(c, ts) == ((ts \div c.width) % nBuckets(c)) + 1

Calendar(size, width, startPrio) ==
  [buckets |-> [b \in 1 .. size |-> <<>>], width |-> width,
   lastPrio |-> startPrio,
   lastBucket |-> ((startPrio \div width) % size) + 1,
   bucketTop |-> (startPrio \div width + 1) * width]

Order(a, b) == IF reverse THEN Less(b, a) ELSE Less(a, b)
NextEvent(bucket) == IF reverse THEN Last(bucket) ELSE Head(bucket)
Pop(bucket) == IF reverse THEN Front(bucket) ELSE Tail(bucket)

\* Mutant: the bucket is a plain list.
DoInsertAtEnd(c, ev) ==
  [c EXCEPT !.buckets[Hash(c, ev.ts)] = Append(@, ev)]

\* Before the first event the new one precedes, or at the end.
DoInsert(c, ev) ==
  LET b == Hash(c, ev.ts)
      bucket == c.buckets[b]
      later == {i \in DOMAIN bucket : Order(ev, bucket[i])}
      at == IF later = {} THEN Len(bucket) + 1 ELSE Min(later)
  IN [c EXCEPT !.buckets[b] = InsertAt(@, at, ev)]

InsertAll(c, events) == Repeat(Len(events), c, LAMBDA d, k : DoInsert(d, events[k]))

\* The days of the year from the last one on: what the loops go through.
Year(c) == 0 .. nBuckets(c) - 1
Day(c, k) == ((c.lastBucket - 1 + k) % nBuckets(c)) + 1
DayEnd(c, k) == c.bucketTop + k * c.width

\* The days whose next event is due before the day is over.
DueThisYear(c) ==
  {k \in Year(c) : LET bucket == c.buckets[Day(c, k)]
                   IN bucket # <<>> /\ NextEvent(bucket).ts < DayEnd(c, k)}

\* With nothing due this year: the earliest of the buckets' next events.
MinEvent(c) ==
  LET next == {NextEvent(c.buckets[b]) : b \in {d \in DOMAIN c.buckets : c.buckets[d] # <<>>}}
  IN CHOOSE e \in next : \A f \in next \ {e} : Less(e, f)

PeekNext(c) ==
  IF DueThisYear(c) # {}
  THEN NextEvent(c.buckets[Day(c, Min(DueThisYear(c)))])
  ELSE MinEvent(c)

\* Mutant: the year the jump ends in keeps the old end of day.
DoRemoveNextStale(c) ==
  LET ev == PeekNext(c) IN
  [ev |-> ev,
   cal |-> [c EXCEPT !.buckets[Hash(c, ev.ts)] = Pop(@), !.lastPrio = ev.ts,
                     !.lastBucket = Hash(c, ev.ts)]]

DoRemoveNext(c) ==
  LET due == DueThisYear(c) IN
  IF due # {}
  THEN LET k == Min(due)
           i == Day(c, k)
           ev == NextEvent(c.buckets[i])
       IN [ev |-> ev,
           cal |-> [c EXCEPT !.buckets[i] = Pop(@), !.lastBucket = i,
                             !.lastPrio = ev.ts, !.bucketTop = DayEnd(c, k)]]
  ELSE LET ev == MinEvent(c)
           i == Hash(c, ev.ts)
       IN [ev |-> ev,
           cal |-> [c EXCEPT !.buckets[i] = Pop(@), !.lastBucket = i, !.lastPrio = ev.ts,
                             !.bucketTop = (ev.ts \div c.width + 1) * c.width]]

----------------------------------------------------------------------------
(* Resizing                                                                *)

nSamples(size) == IF size <= 5 THEN size ELSE Min({5 + size \div 10, 25})

\* The next n events, in the order DoRemoveNext returns them.
Sample(r, k) ==
  LET next == DoRemoveNext(r.cal)
  IN [cal |-> next.cal, taken |-> Append(r.taken, next.ev)]

Samples(c, n) == Repeat(n, [cal |-> c, taken |-> <<>>], Sample)

\* The calendar after the samples were taken out and put back.
Resampled(c, n) ==
  LET s == Samples(c, n) IN
  [InsertAll(s.cal, s.taken) EXCEPT !.lastBucket = c.lastBucket,
                                    !.bucketTop = c.bucketTop, !.lastPrio = c.lastPrio]

Total(n, gap) == Repeat(n, 0, LAMBDA sum, k : sum + gap[k])

\* Three times the sum of the gaps, those above twice the average left out.
CalculateNewWidth(c, size) ==
  IF size < 2 THEN 1
  ELSE LET n == nSamples(size)
           taken == Samples(c, n).taken
           gap == [i \in 1 .. n - 1 |-> taken[i + 1].ts - taken[i].ts]
           twiceAvg == (Total(n - 1, gap) \div (n - 1)) * 2
           usual == [i \in 1 .. n - 1 |-> IF gap[i] <= twiceAvg THEN gap[i] ELSE 0]
       IN Max({3 * Total(n - 1, usual), 1})

\* Every event of every bucket goes into a new calendar.
Moved(c, new) == Repeat(nBuckets(c), new, LAMBDA d, b : InsertAll(d, c.buckets[b]))

\* Mutant: the samples are not put back.
ResizeLossy(c, size, newSize) ==
  Moved(Samples(c, IF size < 2 THEN 0 ELSE 1).cal,
        Calendar(newSize, CalculateNewWidth(c, size), c.lastPrio))

Resize(c, size, newSize) ==
  Moved(IF size < 2 THEN c ELSE Resampled(c, nSamples(size)),
        Calendar(newSize, CalculateNewWidth(c, size), c.lastPrio))

ResizeUp(c, size) ==
  IF size > 2 * nBuckets(c) /\ nBuckets(c) < MaxBuckets
  THEN Resize(c, size, 2 * nBuckets(c)) ELSE c

ResizeDown(c, size) ==
  IF size < nBuckets(c) \div 2
  THEN Resize(c, size, nBuckets(c) \div 2) ELSE c

\* A calendar that holds size events before.
Inserted(c, size, ev) == ResizeUp(DoInsert(c, ev), size + 1)

Removed(c, size) ==
  LET next == DoRemoveNext(c)
  IN [ev |-> next.ev, cal |-> ResizeDown(next.cal, size - 1)]

----------------------------------------------------------------------------
NewCalendar == Calendar(2, 1, 0)

CalendarInit ==
  /\ cal = NewCalendar
  /\ qSize = 0
  /\ reverse \in BOOLEAN
  /\ uid = 1 /\ last = Start /\ held = {}

Insert(ts) ==
  /\ uid <= MaxUid
  /\ LET ev == [ts |-> ts, uid |-> uid] IN
       /\ cal' = Inserted(cal, qSize, ev)
       /\ held' = held \cup {ev}
  /\ qSize' = qSize + 1
  /\ uid' = uid + 1
  /\ UNCHANGED <<reverse, last>>

RemoveNext ==
  /\ qSize # 0
  /\ LET next == Removed(cal, qSize) IN
       /\ cal' = next.cal
       /\ last' = next.ev
       /\ held' = held \ {next.ev}
  /\ qSize' = qSize - 1
  /\ UNCHANGED <<reverse, uid>>

\* The bucket is found by time, the event in it by uid (Remove in the code).
RemoveEvent(ev) ==
  /\ LET b == Hash(cal, ev.ts) IN
       \E i \in DOMAIN cal.buckets[b] :
         /\ cal.buckets[b][i].uid = ev.uid
         /\ cal' = ResizeDown([cal EXCEPT !.buckets[b] = RemoveAt(@, i)], qSize - 1)
  /\ qSize' = qSize - 1
  /\ held' = held \ {ev}
  /\ UNCHANGED <<reverse, uid, last>>

CalendarNext ==
  \/ \E ts \in last.ts .. MaxTs : Insert(ts)
  \/ RemoveNext
  \/ \E ev \in held : RemoveEvent(ev)
=============================================================================
