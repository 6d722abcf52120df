--------------------------- MODULE HeapScheduler ---------------------------
(***************************************************************************)
(* The event list as a binary heap (heap-scheduler.cc).  The code wastes   *)
(* index 0 of its vector, so its indices are those of a TLA+ sequence.     *)
(***************************************************************************)
EXTENDS EventKey, Loops, Sequences

VARIABLES
  heap,       \* m_heap from index 1 on
  uid,        \* next uid the simulator hands out
  last,       \* the key RemoveNext returned last (history)
  held        \* the keys inserted and not yet removed (history)

Init == heap = <<>> /\ uid = 1 /\ last = Start /\ held = {}

Parent(i) == i \div 2
LeftChild(i) == 2 * i
RightChild(i) == 2 * i + 1
IsBottom(h, i) == i > Len(h)
IsLessStrictly(h, a, b) == Less(h[a], h[b])
Smallest(h, a, b) == IF IsLessStrictly(h, a, b) THEN a ELSE b
Exch(h, a, b) == [h EXCEPT ![a] = h[b], ![b] = h[a]]
PopBack(h) == SubSeq(h, 1, Len(h) - 1)

\* A turn of the loop in BottomUp; where the loop ends, turns change nothing.
Rise(r, k) ==
  LET h == r.heap
      i == r.at
  IN IF i = 1 \/ ~IsLessStrictly(h, i, Parent(i)) THEN r
     ELSE [heap |-> Exch(h, i, Parent(i)), at |-> Parent(i)]

\* Mutant: the new event stays at the bottom.
BottomUpNever(h) == h

BottomUp(h) == Repeat(Len(h), [heap |-> h, at |-> Len(h)], Rise).heap

Inserted(h, ev) == BottomUp(Append(h, ev))

\* The smaller child, or the left one if it is the only one.
Child(h, i) ==
  IF IsBottom(h, RightChild(i)) THEN LeftChild(i) ELSE Smallest(h, LeftChild(i), RightChild(i))

\* A turn of the loop in TopDown, or what follows the loop.
Sink(r, k) ==
  LET h == r.heap
      i == r.at
  IN IF IsBottom(h, LeftChild(i)) \/ IsLessStrictly(h, i, Child(h, i)) THEN r
     ELSE [heap |-> Exch(h, i, Child(h, i)), at |-> Child(h, i)]

TopDown(h, i) == Repeat(Len(h), [heap |-> h, at |-> i], Sink).heap

\* Mutant: the last event is dropped before it is put in the place that is free.
TakenLate(h, i) == TopDown(Exch(PopBack(h), i, 1), 1)

\* The heap without the event at index i: the last one takes its place.
Taken(h, i) == TopDown(PopBack(Exch(h, i, Len(h))), i)

----------------------------------------------------------------------------
Insert(ts) ==
  /\ uid <= MaxUid
  /\ LET ev == [ts |-> ts, uid |-> uid] IN
       /\ heap' = Inserted(heap, ev)
       /\ held' = held \cup {ev}
  /\ uid' = uid + 1
  /\ UNCHANGED last

RemoveNext ==
  /\ heap # <<>>
  /\ heap' = Taken(heap, 1)
  /\ last' = heap[1]
  /\ held' = held \ {heap[1]}
  /\ UNCHANGED uid

\* The search goes by uid.
Remove(ev) ==
  /\ \E i \in DOMAIN heap :
       /\ heap[i].uid = ev.uid
       /\ heap' = Taken(heap, i)
  /\ held' = held \ {ev}
  /\ UNCHANGED <<uid, last>>

\* Simulator::Cancel leaves the event in the list: without Simulator::Remove,
\* the heap only grows at the bottom and shrinks at the root.
NextWithoutRemove ==
  \/ \E ts \in last.ts .. MaxTs : Insert(ts)
  \/ RemoveNext

RemoveSome == \E ev \in held : Remove(ev)
=============================================================================
