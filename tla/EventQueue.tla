---------------------------- MODULE EventQueue -----------------------------
(***************************************************************************)
(* What the Scheduler interface of ns-3 promises, whatever the data        *)
(* structure behind it: events go in, never before the time that has been  *)
(* reached, and come out earliest first; any event can also be taken out.  *)
(***************************************************************************)
EXTENDS EventKey

VARIABLES
  queue,      \* the keys of the events held
  last        \* the key of the event last removed as the next

queueVars == <<queue, last>>

Init == queue = {} /\ last = Start

Insert(key) ==
  /\ key.ts >= last.ts
  /\ \A k \in queue : k.uid # key.uid
  /\ queue' = queue \cup {key}
  /\ UNCHANGED last

RemoveNext(key) ==
  /\ key \in queue
  /\ \A k \in queue \ {key} : Less(key, k)
  /\ queue' = queue \ {key}
  /\ last' = key

Remove(key) ==
  /\ key \in queue
  /\ queue' = queue \ {key}
  /\ UNCHANGED last

Next == \E key \in EventKeys : Insert(key) \/ RemoveNext(key) \/ Remove(key)

Spec == Init /\ [][Next]_queueVars
=============================================================================
