-------------------------- MODULE SimulatorProofs --------------------------
(***************************************************************************)
(* Theorems about Simulator, for any number of threads and any bounds.     *)
(***************************************************************************)
EXTENDS Simulator, FiniteSetTheorems, SequenceTheorems, TLAPS

----------------------------------------------------------------------------
(* The inductive invariant                                                 *)

Now == [ts |-> m_currentTs, uid |-> m_currentUid]

\* A key handed out already; it is due at most MaxDelay after the one before.
Made(k) ==
  /\ k \in [ts : Nat, uid : Nat]
  /\ k.uid < m_uid
  /\ k.ts <= k.uid * MaxDelay

LoopInv ==
  /\ pc \in Places /\ resume \in {"loop", "dispose"} /\ m_stop \in BOOLEAN
  /\ pc \in {"idle", "loop", "event", "destroy", "destroyEvent"} => resume = "loop"
  /\ pc \in {"dispose", "gone"} => resume = "dispose"

\* The event list holds distinct keys, all later than what runs now.
ListInv ==
  /\ m_uid \in Nat \ {0} /\ m_currentTs \in Nat /\ m_currentUid \in Nat
  /\ m_unscheduledEvents \in Nat
  /\ Made(Now)
  /\ IsFiniteSet(m_events)
  /\ \A k \in m_events : Made(k) /\ k.uid > 0 /\ Less(Now, k)
  /\ \A k, j \in m_events : k.uid = j.uid => k = j
  /\ resume = "loop" => m_unscheduledEvents = Cardinality(m_events)

\* What the program holds an EventId of waits, was cancelled or is past.
IdInv ==
  /\ cancelled \subseteq ids /\ stops \subseteq ids
  /\ \A id \in ids : Made(id)
  /\ resume = "loop" =>
       \A id \in ids : id \in m_events \/ id \in cancelled \/ ~Less(Now, id)
  /\ \A k \in ran : Made(k) /\ ~Less(Now, k)
  /\ ran \cap cancelled = {}

\* Posts that are not in the event list yet.
Undrained ==
  {u \in Threads \X (1 .. MaxPosts) :
     u[2] \in DOMAIN posts[u[1]] /\ posts[u[1]][u[2]].key = NoKey}

PostTypes ==
  /\ posts \in [Threads -> Seq([delay : 0 .. MaxDelay, key : [ts : Nat, uid : Nat]])]
  /\ \A t \in Threads : Len(posts[t]) <= MaxPosts
  /\ m_eventsWithContext \in Seq(Undrained) /\ swapped \in Seq(Undrained)
  /\ m_eventsWithContextEmpty \in BOOLEAN /\ poster \subseteq Threads
  /\ pc # "drain" => swapped = <<>>

\* Each of them is in one place of one of the two lists.
PostPlaces ==
  /\ \A i, j \in DOMAIN swapped : swapped[i] = swapped[j] => i = j
  /\ \A i, j \in DOMAIN m_eventsWithContext :
       m_eventsWithContext[i] = m_eventsWithContext[j] => i = j
  /\ \A i \in DOMAIN swapped, j \in DOMAIN m_eventsWithContext :
       swapped[i] # m_eventsWithContext[j]
  /\ \A u \in Undrained : \/ \E i \in DOMAIN swapped : swapped[i] = u
                          \/ \E i \in DOMAIN m_eventsWithContext : m_eventsWithContext[i] = u

\* The key of a post drained: known to nobody, and in the list until it has run.
KeyLaw(key, delay) ==
  /\ Made(key) /\ key.uid > 0
  /\ key.ts <= m_currentTs + delay
  /\ key \notin ids
  /\ resume = "loop" => (key \in m_events <=> key \notin ran)

PostKeys ==
  \A t \in Threads : \A n \in DOMAIN posts[t] :
    posts[t][n].key # NoKey => KeyLaw(posts[t][n].key, posts[t][n].delay)

\* Posts of a thread stay in line.
PostLine ==
  /\ \A i, j \in DOMAIN swapped :
       (i < j /\ swapped[i][1] = swapped[j][1]) => swapped[i][2] < swapped[j][2]
  /\ \A i, j \in DOMAIN m_eventsWithContext :
       (i < j /\ m_eventsWithContext[i][1] = m_eventsWithContext[j][1])
         => m_eventsWithContext[i][2] < m_eventsWithContext[j][2]
  /\ \A i \in DOMAIN swapped, j \in DOMAIN m_eventsWithContext :
       swapped[i][1] = m_eventsWithContext[j][1] => swapped[i][2] < m_eventsWithContext[j][2]

DestroyInv ==
  /\ m_destroyEvents \in Seq(1 .. destroyCalls) /\ destroyed \in Seq(1 .. destroyCalls)
  /\ destroyCalls \in 0 .. MaxDestroy /\ destroyCancelled \subseteq 1 .. destroyCalls
  /\ \A i, j \in DOMAIN m_destroyEvents : i < j => m_destroyEvents[i] < m_destroyEvents[j]
  /\ \A i, j \in DOMAIN destroyed : i < j => destroyed[i] < destroyed[j]
  /\ \A i \in DOMAIN destroyed, j \in DOMAIN m_destroyEvents : destroyed[i] < m_destroyEvents[j]
  /\ \A i \in DOMAIN destroyed : destroyed[i] \notin destroyCancelled
  /\ resume = "dispose" => m_destroyEvents = <<>>

UidInv == m_uid + PostsToCome <= MaxUid + 1

IInv == /\ LoopInv /\ ListInv /\ IdInv
        /\ PostTypes /\ PostPlaces /\ PostKeys /\ PostLine
        /\ DestroyInv /\ UidInv

----------------------------------------------------------------------------
(* Keys and times                                                          *)

LEMMA LaterIsTimely ==
  ASSUME NEW a \in Nat, NEW b \in Nat, NEW d \in Nat, a < b
  PROVE  a * d + d <= b * d
<1>1. PICK c \in Nat : b = a + 1 + c
  <2>1. b - a - 1 \in Nat /\ b = a + 1 + (b - a - 1)
    OBVIOUS
  <2> QED
    BY <2>1
<1>2. b * d = a * d + d + c * d
  BY <1>1
<1>3. a * d \in Nat /\ c * d \in Nat
  BY <1>1
<1> QED
  BY <1>2, <1>3

LEMMA MadeStays ==
  ASSUME NEW k, Made(k), m_uid \in Nat, m_uid' \in {m_uid, m_uid + 1}
  PROVE  Made(k)'
BY DEF Made

\* Every step hands out at most one uid.
LEMMA UidGrows == [Next]_simVars => m_uid' \in {m_uid, m_uid + 1}
BY DEF Next, Call, OtherThreads, MainThread, Schedule, ScheduleWithContext, StopNow, Stop,
       InsertNew, Cancel, Remove, ScheduleDestroy, CancelDestroy, RemoveDestroy, Post, Announce,
       Check, Swap, Drain, Run, ProcessOneEvent, EventReturns, RunReturns, Destroy,
       DestroyOneEvent, DestroyEventReturns, DestroyDone, DoDispose,
       simVars, eventVars

NewKey(delay) == [ts |-> m_currentTs + delay, uid |-> m_uid]

LEMMA NewKeyIsMade ==
  ASSUME ListInv, NEW delay \in 0 .. MaxDelay, m_uid' = m_uid + 1, UNCHANGED clockVars
  PROVE  /\ NewKey(delay) \in [ts : Nat, uid : Nat]
         /\ NewKey(delay).uid = m_uid /\ NewKey(delay).ts = m_currentTs + delay
         /\ NewKey(delay).ts <= m_uid * MaxDelay
         /\ Less(Now, NewKey(delay)) /\ m_currentUid < m_uid
<1>1. /\ m_uid \in Nat \ {0} /\ m_currentTs \in Nat /\ m_currentUid \in Nat
      /\ delay \in Nat /\ delay <= MaxDelay /\ MaxDelay \in Nat
      /\ m_currentUid < m_uid /\ m_currentTs <= m_currentUid * MaxDelay
  BY SimulatorAssumption DEF ListInv, Made, Now
<1>2. m_currentUid * MaxDelay + MaxDelay <= m_uid * MaxDelay
  BY <1>1, LaterIsTimely
<1>3. m_currentUid * MaxDelay \in Nat /\ m_uid * MaxDelay \in Nat
  BY <1>1
<1>4. m_currentTs + delay <= m_uid * MaxDelay
  BY <1>1, <1>2, <1>3
<1> QED
  BY <1>1, <1>4 DEF NewKey, Less, Now

LEMMA NewKeyMade ==
  ASSUME ListInv, NEW delay \in 0 .. MaxDelay, m_uid' = m_uid + 1, UNCHANGED clockVars,
         NEW k, k = NewKey(delay)
  PROVE  Made(k)'
<1>1. /\ NewKey(delay) \in [ts : Nat, uid : Nat]
      /\ NewKey(delay).uid = m_uid
      /\ NewKey(delay).ts <= m_uid * MaxDelay
  BY NewKeyIsMade
<1> QED
  BY <1>1 DEF Made, ListInv

----------------------------------------------------------------------------
(* The event list                                                          *)

\* A step that leaves the list alone.
LEMMA ListSame ==
  ASSUME ListInv, m_uid' \in {m_uid, m_uid + 1},
         UNCHANGED <<m_events, m_unscheduledEvents, clockVars>>,
         resume' = "loop" => resume = "loop"
  PROVE  ListInv'
<1>1. Now' = Now
  BY DEF Now, clockVars
<1>2. Made(Now)' /\ \A k \in m_events : Made(k)'
  BY <1>1 DEF Made, ListInv
<1> QED
  BY <1>1, <1>2 DEF ListInv, clockVars, Less

LEMMA ListInsert ==
  ASSUME ListInv, NEW delay \in 0 .. MaxDelay, InsertNew(delay), UNCHANGED <<clockVars, resume>>
  PROVE  ListInv'
<1>1. PICK k : k = NewKey(delay)
  OBVIOUS
<1>2. /\ k.uid = m_uid /\ Less(Now, k) /\ Made(k)'
  BY <1>1, NewKeyIsMade, NewKeyMade DEF InsertNew
<1>3. m_events' = m_events \cup {k} /\ m_uid' = m_uid + 1
      /\ m_unscheduledEvents' = m_unscheduledEvents + 1
  BY <1>1 DEF InsertNew, NewKey
<1>4. Now' = Now
  BY DEF Now, clockVars
<1>5. Made(Now)' /\ \A j \in m_events : Made(j)' /\ j.uid # m_uid
  BY <1>3, <1>4 DEF Made, ListInv
<1>6. /\ k \notin m_events /\ IsFiniteSet(m_events')
      /\ Cardinality(m_events') = Cardinality(m_events) + 1
  BY <1>2, <1>3, <1>5, FS_AddElement DEF ListInv
<1>7. \A j \in m_events' : Made(j)' /\ j.uid > 0 /\ Less(Now, j)'
  BY <1>2, <1>3, <1>4, <1>5 DEF ListInv, Less
<1>8. \A i, j \in m_events' : i.uid = j.uid => i = j
  BY <1>2, <1>3, <1>5 DEF ListInv
<1> QED
  BY <1>3, <1>5, <1>6, <1>7, <1>8 DEF ListInv, clockVars

\* An event that leaves the list.
LEMMA ListDelete ==
  ASSUME ListInv, NEW k \in m_events, m_events' = m_events \ {k}
  PROVE  /\ IsFiniteSet(m_events') /\ Cardinality(m_events) \in Nat
         /\ Cardinality(m_events') = Cardinality(m_events) - 1
         /\ Cardinality(m_events') \in Nat
BY FS_RemoveElement, FS_CardinalityType DEF ListInv

LEMMA ListNext ==
  ASSUME ListInv, LoopInv, ProcessOneEvent
  PROVE  ListInv'
<1>1. PICK k \in m_events : /\ Earliest(k) /\ m_events' = m_events \ {k}
                            /\ m_currentTs' = k.ts /\ m_currentUid' = k.uid
  BY DEF ProcessOneEvent
<1>2. /\ m_unscheduledEvents' = m_unscheduledEvents - 1 /\ resume' = resume /\ m_uid' = m_uid
      /\ resume = "loop"
  BY DEF ProcessOneEvent, LoopInv
<1>3. Made(k) /\ k.uid > 0
  BY <1>1 DEF ListInv
<1>4. /\ IsFiniteSet(m_events') /\ Cardinality(m_events) \in Nat
      /\ Cardinality(m_events') = Cardinality(m_events) - 1 /\ Cardinality(m_events') \in Nat
  BY <1>1, ListDelete
<1>5. Now' = k
  BY <1>1, <1>3 DEF Now, Made
<1>6. Made(Now)' /\ \A j \in m_events' : Made(j)' /\ j.uid > 0 /\ Less(Now, j)'
  BY <1>1, <1>2, <1>3, <1>5 DEF ListInv, Made, Earliest, Less
<1> QED
  BY <1>1, <1>2, <1>3, <1>4, <1>6 DEF ListInv, Made

LEMMA ListRemove ==
  ASSUME ListInv, NEW k \in m_events, m_events' = m_events \ {k},
         m_unscheduledEvents' = m_unscheduledEvents - 1,
         resume = "loop", UNCHANGED <<m_uid, clockVars, resume>>
  PROVE  ListInv'
<1>1. Now' = Now
  BY DEF Now, clockVars
<1>2. /\ IsFiniteSet(m_events') /\ Cardinality(m_events) \in Nat
      /\ Cardinality(m_events') = Cardinality(m_events) - 1 /\ Cardinality(m_events') \in Nat
  BY ListDelete
<1>3. Made(Now)' /\ \A j \in m_events' : Made(j)' /\ j.uid > 0 /\ Less(Now, j)'
  BY <1>1 DEF ListInv, Made, Less
<1> QED
  BY <1>2, <1>3 DEF ListInv, clockVars

LEMMA ListDispose ==
  ASSUME ListInv, LoopInv, DoDispose
  PROVE  ListInv'
<1>1. CASE UNCHANGED m_events
  BY <1>1, ListSame DEF DoDispose
<1>2. CASE \E next \in m_events : m_events' = m_events \ {next}
  <2>1. PICK k \in m_events : m_events' = m_events \ {k}
    BY <1>2
  <2>2. Now' = Now
    BY DEF Now, clockVars, DoDispose
  <2>3. IsFiniteSet(m_events')
    BY <2>1, ListDelete
  <2>4. Made(Now)' /\ \A j \in m_events' : Made(j)' /\ j.uid > 0 /\ Less(Now, j)'
    BY <2>1, <2>2 DEF ListInv, Made, Less, DoDispose
  <2> QED
    BY <2>1, <2>3, <2>4 DEF ListInv, clockVars, DoDispose, LoopInv
<1> QED
  BY <1>1, <1>2 DEF DoDispose

----------------------------------------------------------------------------
(* Where the main thread is                                                *)

LEMMA LoopStep ==
  LoopInv /\ [Next]_simVars => LoopInv'
<1> SUFFICES ASSUME LoopInv, [Next]_simVars PROVE LoopInv'
  OBVIOUS
<1>1. CASE UNCHANGED <<pc, resume>> /\ m_stop' \in {m_stop, TRUE}
  BY <1>1 DEF LoopInv
<1>2. CASE Call
  BY <1>1, <1>2 DEF Call, Schedule, ScheduleWithContext, StopNow, Stop, Cancel, Remove,
                    ScheduleDestroy, CancelDestroy, RemoveDestroy
<1>3. CASE OtherThreads
  BY <1>1, <1>3 DEF OtherThreads, Post, Announce
<1>4. CASE UNCHANGED simVars
  BY <1>1, <1>4 DEF simVars
<1>5. CASE Check \/ Swap \/ Drain
  BY <1>5 DEF LoopInv, Places, Check, Swap, Drain
<1>6. CASE Run \/ EventReturns \/ RunReturns
  BY <1>6 DEF LoopInv, Places, Run, EventReturns, RunReturns
<1>8. CASE ProcessOneEvent
  <2>1. pc = "loop" /\ pc' \in {"check", "event"} /\ resume' = resume
    BY <1>8 DEF ProcessOneEvent
  <2>2. m_stop' \in BOOLEAN
    <3>1. PICK next \in m_events : m_stop' = (next \in stops \ cancelled)
      BY <1>8 DEF ProcessOneEvent
    <3>2. CASE next \in stops \ cancelled
      BY <3>1, <3>2
    <3>3. CASE next \notin stops \ cancelled
      BY <3>1, <3>3
    <3> QED
      BY <3>2, <3>3
  <2> QED
    BY <2>1, <2>2 DEF LoopInv, Places
<1>7. CASE Destroy \/ DestroyOneEvent \/ DestroyEventReturns \/ DestroyDone \/ DoDispose
  BY <1>7 DEF LoopInv, Places, Destroy, DestroyOneEvent, DestroyEventReturns, DestroyDone,
              DoDispose
<1> QED
  BY <1>2, <1>3, <1>4, <1>5, <1>6, <1>7, <1>8 DEF Next, MainThread

----------------------------------------------------------------------------
(* Identifiers of events                                                   *)

\* What IsExpired tells, in the list's terms.
LEMMA ExpiredOrWaiting ==
  ASSUME ListInv, IdInv, resume = "loop", NEW id \in ids
  PROVE  /\ IsExpired(id) <=> id \notin m_events \ cancelled
         /\ ~IsExpired(id) => Less(Now, id)
<1>1. /\ id \in [ts : Nat, uid : Nat] /\ m_currentTs \in Nat /\ m_currentUid \in Nat
  BY DEF IdInv, ListInv, Made
<1>2. IsExpired(id) <=> ~Less(Now, id) \/ id \in cancelled
  BY <1>1 DEF IsExpired, Less, Now
<1>3. id \in m_events => Less(Now, id)
  BY DEF ListInv
<1>4. id \in m_events \/ id \in cancelled \/ ~Less(Now, id)
  BY DEF IdInv
<1> QED
  BY <1>2, <1>3, <1>4

LEMMA CallingInLoop == LoopInv /\ Calling => resume = "loop"
BY DEF LoopInv, Calling

\* A step that leaves the identifiers and the list alone.
LEMMA IdSame ==
  ASSUME ListInv, IdInv, m_uid' \in {m_uid, m_uid + 1},
         UNCHANGED <<idVars, clockVars>>,
         resume' = "loop" => resume = "loop" /\ m_events \subseteq m_events'
  PROVE  IdInv'
<1>1. Now' = Now
  BY DEF Now, clockVars
<1>2. \A k \in ids \cup ran : Made(k)'
  BY MadeStays DEF ListInv, IdInv
<1> QED
  BY <1>1, <1>2 DEF IdInv, idVars, Less

LEMMA IdInsert ==
  ASSUME ListInv, IdInv, NEW delay \in 0 .. MaxDelay, InsertNew(delay),
         UNCHANGED <<clockVars, resume, cancelled, ran>>,
         ids' \in {ids, ids \cup {NewKey(delay)}},
         stops' \subseteq stops \cup ids', stops \subseteq stops'
  PROVE  IdInv'
<1>1. PICK k : k = NewKey(delay)
  OBVIOUS
<1>2. Made(k)' /\ k \in m_events' /\ m_events \subseteq m_events'
  BY <1>1, NewKeyMade DEF InsertNew, NewKey
<1>3. Now' = Now
  BY DEF Now, clockVars
<1>4. \A j \in ids \cup ran : Made(j)'
  BY MadeStays DEF ListInv, IdInv, InsertNew
<1>5. ids' \subseteq ids \cup {k} /\ ids \subseteq ids'
  BY <1>1
<1> QED
  BY <1>2, <1>3, <1>4, <1>5 DEF IdInv, Less

LEMMA IdNext ==
  ASSUME ListInv, IdInv, LoopInv, ProcessOneEvent
  PROVE  IdInv'
<1>1. PICK k \in m_events :
        /\ Earliest(k) /\ m_events' = m_events \ {k}
        /\ m_currentTs' = k.ts /\ m_currentUid' = k.uid
        /\ ran' = IF k \in cancelled THEN ran ELSE ran \cup {k}
  BY DEF ProcessOneEvent
<1>2. /\ resume' = resume /\ m_uid' = m_uid /\ resume = "loop"
      /\ UNCHANGED <<cancelled, ids, stops>>
  BY DEF ProcessOneEvent, LoopInv
<1>3. Made(k) /\ Less(Now, k) /\ Now' = k
  BY <1>1 DEF ListInv, Made, Now
<1>4. \A j \in ids \cup ran : Made(j) /\ Made(j)'
  BY <1>2 DEF IdInv, Made
<1>5. \A j \in [ts : Nat, uid : Nat] : ~Less(Now, j) => ~Less(k, j)
  BY <1>3 DEF Less, Now, Made, ListInv
<1>6. ~Less(k, k) /\ k \in [ts : Nat, uid : Nat]
  BY <1>3 DEF Less, Made
<1>7. \A j \in ran' : Made(j)' /\ ~Less(Now, j)'
  <2>1. \A j \in ran' : ~Less(k, j)
    BY <1>1, <1>4, <1>5, <1>6 DEF IdInv, Made
  <2>2. \A j : Less(Now, j)' <=> Less(k, j)
    BY <1>3 DEF Less
  <2>3. Made(k)'
    BY <1>2, <1>3 DEF Made
  <2> QED
    BY <1>1, <1>4, <2>1, <2>2, <2>3
<1>8. \A id \in ids : id \in m_events' \/ id \in cancelled \/ ~Less(Now, id)'
  <2>1. \A j : Less(Now, j)' <=> Less(k, j)
    BY <1>3 DEF Less
  <2> QED
    BY <1>1, <1>2, <1>4, <1>5, <1>6, <2>1 DEF IdInv, Made
<1>9. ran' \cap cancelled = {}
  BY <1>1 DEF IdInv
<1> QED
  BY <1>2, <1>4, <1>7, <1>8, <1>9 DEF IdInv

LEMMA IdCancel ==
  ASSUME ListInv, IdInv, LoopInv, NEW id \in ids, Cancel(id) \/ Remove(id)
  PROVE  IdInv'
<1>1. resume = "loop" /\ ~IsExpired(id)
  BY CallingInLoop DEF Cancel, Remove
<1>2. Less(Now, id) /\ id \in m_events
  BY <1>1, ExpiredOrWaiting
<1>3. cancelled' = cancelled \cup {id} /\ m_events' \in {m_events, m_events \ {id}}
      /\ UNCHANGED <<resume, m_uid, clockVars, ids, stops, ran>>
  BY DEF Cancel, Remove, eventVars
<1>4. Now' = Now
  BY <1>3 DEF Now, clockVars
<1>5. \A j \in ids \cup ran : Made(j)'
  BY <1>3 DEF IdInv, Made
<1>6. id \notin ran
  BY <1>2 DEF IdInv
<1> QED
  BY <1>3, <1>4, <1>5, <1>6 DEF IdInv, Less

----------------------------------------------------------------------------
(* Posts of the other threads                                              *)

PostInv == PostTypes /\ PostPlaces /\ PostLine

Posts == [delay : 0 .. MaxDelay, key : [ts : Nat, uid : Nat]]

\* A step that leaves posts and lists alone.
LEMMA PostSame ==
  ASSUME PostInv, UNCHANGED <<m_eventsWithContext, swapped, posts>>,
         poster' \subseteq Threads, m_eventsWithContextEmpty' \in BOOLEAN,
         pc # "drain" \/ pc' = pc \/ swapped = <<>>
  PROVE  PostInv'
<1>1. Undrained' = Undrained
  BY DEF Undrained
<1> QED
  BY <1>1 DEF PostInv, PostTypes, PostPlaces, PostLine

LEMMA UndrainedPair ==
  ASSUME NEW u \in Undrained
  PROVE  /\ u[1] \in Threads /\ u[2] \in 1 .. MaxPosts /\ u = <<u[1], u[2]>>
         /\ u[2] \in DOMAIN posts[u[1]] /\ posts[u[1]][u[2]].key = NoKey
BY DEF Undrained

LEMMA PostStep ==
  ASSUME PostInv, NEW t \in Threads, NEW delay \in 0 .. MaxDelay, Post(t, delay)
  PROVE  PostInv'
<1> DEFINE n == Len(posts[t]) + 1
           new == <<t, n>>
           W == m_eventsWithContext
<1>0. posts[t] \in Seq(Posts) /\ Len(posts[t]) \in Nat
  <2>1. posts \in [Threads -> Seq(Posts)]
    BY DEF PostInv, PostTypes, Posts
  <2>2. posts[t] \in Seq(Posts)
    BY <2>1
  <2> QED
    BY <2>2
<1>1. /\ n \in 1 .. MaxPosts
      /\ posts' = [posts EXCEPT ![t] = Append(posts[t], [delay |-> delay, key |-> NoKey])]
      /\ W' = Append(W, new) /\ swapped' = swapped /\ pc' = pc /\ poster' = {t}
      /\ m_eventsWithContextEmpty' = m_eventsWithContextEmpty
  BY <1>0, SimulatorAssumption DEF Post
<1>2. [delay |-> delay, key |-> NoKey] \in Posts
  BY DEF Posts, NoKey
<1>3. /\ posts' \in [Threads -> Seq(Posts)]
      /\ posts'[t] = Append(posts[t], [delay |-> delay, key |-> NoKey])
      /\ \A s \in Threads \ {t} : posts'[s] = posts[s]
  <2>1. Append(posts[t], [delay |-> delay, key |-> NoKey]) \in Seq(Posts)
    BY <1>0, <1>2
  <2> QED
    BY <1>1, <2>1 DEF PostInv, PostTypes, Posts
<1>4. /\ DOMAIN posts'[t] = 1 .. n /\ DOMAIN posts[t] = 1 .. n - 1
      /\ Len(posts'[t]) = n
      /\ \A i \in 1 .. n - 1 : posts'[t][i] = posts[t][i]
      /\ posts'[t][n] = [delay |-> delay, key |-> NoKey]
  BY <1>0, <1>2, <1>3
<1>5. Undrained' = Undrained \cup {new}
  <2>1. ASSUME NEW u \in Threads \X (1 .. MaxPosts)
        PROVE  u \in Undrained' <=> u \in Undrained \cup {new}
    <3>1. CASE u[1] # t
      BY <1>3, <3>1 DEF Undrained
    <3>2. CASE u[1] = t /\ u[2] # n
      <4>1. u[2] \in 1 .. n <=> u[2] \in 1 .. n - 1
        BY <1>1, <3>2
      <4> QED
        BY <1>4, <3>2, <4>1 DEF Undrained
    <3>3. CASE u = new
      BY <1>4, <3>3 DEF Undrained
    <3> QED
      BY <3>1, <3>2, <3>3
  <2>2. new \in Threads \X (1 .. MaxPosts)
    BY <1>1
  <2> QED
    BY <2>1, <2>2 DEF Undrained
<1>6. new \notin Undrained
  BY <1>4 DEF Undrained
<1>7. /\ W \in Seq(Undrained) /\ swapped \in Seq(Undrained)
      /\ W' \in Seq(Undrained') /\ swapped' \in Seq(Undrained')
  <2>1. W \in Seq(Undrained) /\ swapped \in Seq(Undrained)
    BY DEF PostInv, PostTypes
  <2> QED
    BY <1>1, <1>5, <2>1
<1>8. /\ DOMAIN W = 1 .. Len(W) /\ Len(W) \in Nat /\ DOMAIN W' = 1 .. Len(W) + 1
      /\ \A i \in DOMAIN W : W'[i] = W[i] /\ W[i] \in Undrained
      /\ W'[Len(W) + 1] = new
  BY <1>1, <1>7
<1>9. \A i \in DOMAIN swapped : swapped[i] \in Undrained
  BY <1>7
<1>10. \A u \in Undrained : u[1] = t => u[2] < n
  BY <1>1, <1>4, UndrainedPair
<1> HIDE DEF n, new, W
<1>11. PostTypes'
  <2>1. \A s \in Threads : Len(posts'[s]) <= MaxPosts
    BY <1>1, <1>3, <1>4 DEF PostInv, PostTypes
  <2> QED
    BY <1>1, <1>3, <1>7, <2>1 DEF PostInv, PostTypes, Posts, W
<1>12. PostPlaces'
  <2>1. \A i, j \in DOMAIN W' : W'[i] = W'[j] => i = j
    BY <1>6, <1>8 DEF PostInv, PostPlaces, W
  <2>2. \A i \in DOMAIN swapped, j \in DOMAIN W' : swapped[i] # W'[j]
    BY <1>6, <1>8, <1>9 DEF PostInv, PostPlaces, W
  <2>3. \A u \in Undrained' : \/ \E i \in DOMAIN swapped : swapped[i] = u
                              \/ \E i \in DOMAIN W' : W'[i] = u
    BY <1>5, <1>8 DEF PostInv, PostPlaces, W
  <2> QED
    BY <1>1, <2>1, <2>2, <2>3 DEF PostInv, PostPlaces, W
<1>13. PostLine'
  <2>1. \A i, j \in DOMAIN W' : (i < j /\ W'[i][1] = W'[j][1]) => W'[i][2] < W'[j][2]
    <3> SUFFICES ASSUME NEW i \in DOMAIN W', NEW j \in DOMAIN W', i < j, W'[i][1] = W'[j][1]
                 PROVE  W'[i][2] < W'[j][2]
      OBVIOUS
    <3>1. i \in DOMAIN W
      BY <1>8
    <3>2. CASE j \in DOMAIN W
      BY <1>8, <3>1, <3>2 DEF PostInv, PostLine, W
    <3>3. CASE j = Len(W) + 1
      BY <1>8, <1>10, <3>1, <3>3 DEF new
    <3> QED
      BY <1>8, <3>2, <3>3
  <2>2. \A i \in DOMAIN swapped, j \in DOMAIN W' :
           swapped[i][1] = W'[j][1] => swapped[i][2] < W'[j][2]
    <3> SUFFICES ASSUME NEW i \in DOMAIN swapped, NEW j \in DOMAIN W', swapped[i][1] = W'[j][1]
                 PROVE  swapped[i][2] < W'[j][2]
      OBVIOUS
    <3>2. CASE j \in DOMAIN W
      BY <1>8, <3>2 DEF PostInv, PostLine, W
    <3>3. CASE j = Len(W) + 1
      BY <1>8, <1>9, <1>10, <3>3 DEF new
    <3> QED
      BY <1>8, <3>2, <3>3
  <2> QED
    BY <1>1, <2>1, <2>2 DEF PostInv, PostLine, W
<1> QED
  BY <1>11, <1>12, <1>13 DEF PostInv

LEMMA SwapStep ==
  ASSUME PostInv, Swap
  PROVE  PostInv'
<1>1. /\ swapped = <<>> /\ swapped' = m_eventsWithContext /\ m_eventsWithContext' = <<>>
      /\ posts' = posts /\ poster' = poster /\ m_eventsWithContextEmpty' = TRUE
      /\ pc' = "drain"
  BY DEF Swap, PostInv, PostTypes
<1>2. Undrained' = Undrained
  BY <1>1 DEF Undrained
<1>3. m_eventsWithContext' \in Seq(Undrained') /\ DOMAIN m_eventsWithContext' = {}
  BY <1>1
<1>4. PostTypes'
  BY <1>1, <1>2, <1>3 DEF PostInv, PostTypes
<1>5. \A i \in DOMAIN swapped : FALSE
  BY <1>1
<1>6. PostPlaces'
  BY <1>1, <1>2, <1>3, <1>5 DEF PostInv, PostPlaces
<1>7. PostLine'
  BY <1>1, <1>3 DEF PostInv, PostLine
<1> QED
  BY <1>4, <1>6, <1>7 DEF PostInv

\* Draining takes the post at the head of the list and gives it the next key.
LEMMA DrainedPost ==
  ASSUME PostInv, ListInv, Drain, swapped # <<>>
  PROVE  LET u == Head(swapped)
             p == posts[u[1]][u[2]]
         IN /\ u \in Undrained /\ p \in Posts /\ p.delay \in 0 .. MaxDelay
            /\ posts[u[1]] \in Seq(Posts)
            /\ InsertNew(p.delay)
            /\ posts' = [posts EXCEPT ![u[1]] =
                           [posts[u[1]] EXCEPT ![u[2]] =
                              [delay |-> p.delay, key |-> NewKey(p.delay)]]]
            /\ NewKey(p.delay) \in [ts : Nat, uid : Nat] /\ NewKey(p.delay) # NoKey
            /\ swapped' = Tail(swapped)
            /\ UNCHANGED <<pc, resume, m_eventsWithContext, m_eventsWithContextEmpty, poster,
                           clockVars, m_stop, idVars, destroyVars>>
<1> DEFINE u == Head(swapped)
           p == posts[u[1]][u[2]]
<1>1. u \in Undrained
  BY DEF PostInv, PostTypes
<1>2. u[1] \in Threads /\ u[2] \in DOMAIN posts[u[1]]
  BY <1>1, UndrainedPair
<1>3. posts[u[1]] \in Seq(Posts)
  <2>1. posts \in [Threads -> Seq(Posts)]
    BY DEF PostInv, PostTypes, Posts
  <2> QED
    BY <1>2, <2>1
<1>4. p \in Posts
  BY <1>2, <1>3
<1>5. p.delay \in 0 .. MaxDelay
  BY <1>4 DEF Posts
<1>6. /\ InsertNew(p.delay)
      /\ posts' = [posts EXCEPT ![u[1]][u[2]].key =
                     [ts |-> m_currentTs + p.delay, uid |-> m_uid]]
      /\ swapped' = Tail(swapped)
      /\ UNCHANGED <<pc, resume, m_eventsWithContext, m_eventsWithContextEmpty, poster,
                     clockVars, m_stop, idVars, destroyVars>>
  BY DEF Drain
<1>7. NewKey(p.delay) \in [ts : Nat, uid : Nat] /\ NewKey(p.delay) # NoKey
  <2>1. m_uid \in Nat \ {0} /\ m_currentTs \in Nat
    BY DEF ListInv
  <2> QED
    BY <1>5, <2>1 DEF NewKey, NoKey
<1>8. [p EXCEPT !.key = NewKey(p.delay)] = [delay |-> p.delay, key |-> NewKey(p.delay)]
  BY <1>4 DEF Posts
<1> HIDE DEF p
<1>9. posts' = [posts EXCEPT ![u[1]] = [posts[u[1]] EXCEPT ![u[2]] = [p EXCEPT !.key = NewKey(p.delay)]]]
  BY <1>6 DEF NewKey, p
<1> QED
  BY <1>1, <1>3, <1>4, <1>5, <1>6, <1>7, <1>8, <1>9 DEF p

LEMMA TailFacts ==
  ASSUME NEW S, NEW q \in Seq(S), q # <<>>
  PROVE  /\ Len(q) \in Nat \ {0} /\ DOMAIN q = 1 .. Len(q) /\ Head(q) = q[1]
         /\ Tail(q) \in Seq(S) /\ Len(Tail(q)) = Len(q) - 1
         /\ DOMAIN Tail(q) = 1 .. Len(q) - 1
         /\ \A i \in 1 .. Len(q) - 1 : Tail(q)[i] = q[i + 1] /\ i + 1 \in DOMAIN q
OBVIOUS

LEMMA DrainUndrained ==
  ASSUME PostInv, ListInv, Drain, swapped # <<>>
  PROVE  Undrained' = Undrained \ {Head(swapped)}
<1> DEFINE u == Head(swapped)
           p == posts[u[1]][u[2]]
           q == [posts[u[1]] EXCEPT ![u[2]] = [delay |-> p.delay, key |-> NewKey(p.delay)]]
<1>1. /\ u \in Undrained /\ posts[u[1]] \in Seq(Posts)
      /\ posts' = [posts EXCEPT ![u[1]] = q] /\ NewKey(p.delay) # NoKey
  BY DrainedPost
<1>2. u[1] \in Threads /\ u[2] \in DOMAIN posts[u[1]] /\ u = <<u[1], u[2]>>
  BY <1>1, UndrainedPair
<1>3. /\ posts'[u[1]] = q /\ \A s \in Threads \ {u[1]} : posts'[s] = posts[s]
  BY <1>1, <1>2 DEF PostInv, PostTypes
<1>4. /\ DOMAIN q = DOMAIN posts[u[1]]
      /\ \A i \in DOMAIN q \ {u[2]} : q[i] = posts[u[1]][i]
      /\ q[u[2]].key # NoKey
  BY <1>1, <1>2
<1> HIDE DEF q, p, u
<1>5. ASSUME NEW v \in Threads \X (1 .. MaxPosts)
      PROVE  v \in Undrained' <=> v \in Undrained /\ v # u
  <2>1. CASE v[1] # u[1]
    BY <1>3, <2>1 DEF Undrained
  <2>2. CASE v[1] = u[1] /\ v[2] # u[2]
    BY <1>3, <1>4, <2>2 DEF Undrained
  <2>3. CASE v = u
    BY <1>3, <1>4, <2>3 DEF Undrained
  <2> QED
    BY <1>2, <2>1, <2>2, <2>3
<1>6. Undrained \subseteq Threads \X (1 .. MaxPosts) /\ Undrained' \subseteq Threads \X (1 .. MaxPosts)
  BY DEF Undrained
<1> QED
  BY <1>5, <1>6 DEF u

LEMMA DrainStep ==
  ASSUME PostInv, ListInv, Drain
  PROVE  PostInv'
<1> DEFINE u == Head(swapped)
           p == posts[u[1]][u[2]]
           W == m_eventsWithContext
<1>1. CASE swapped = <<>>
  <2>1. UNCHANGED <<m_eventsWithContext, swapped, posts, poster, m_eventsWithContextEmpty>>
    BY <1>1 DEF Drain
  <2>2. poster \subseteq Threads /\ m_eventsWithContextEmpty \in BOOLEAN
    BY DEF PostInv, PostTypes
  <2> QED
    BY <1>1, <2>1, <2>2, PostSame
<1>2. CASE swapped # <<>>
  <2>1. /\ u \in Undrained /\ posts[u[1]] \in Seq(Posts) /\ p.delay \in 0 .. MaxDelay
        /\ posts' = [posts EXCEPT ![u[1]] =
                       [posts[u[1]] EXCEPT ![u[2]] =
                          [delay |-> p.delay, key |-> NewKey(p.delay)]]]
        /\ NewKey(p.delay) \in [ts : Nat, uid : Nat]
        /\ swapped' = Tail(swapped)
        /\ UNCHANGED <<pc, m_eventsWithContext, m_eventsWithContextEmpty, poster>>
    BY <1>2, DrainedPost
  <2>2. Undrained' = Undrained \ {u}
    BY <1>2, DrainUndrained
  <2>3. W \in Seq(Undrained) /\ swapped \in Seq(Undrained)
    BY DEF PostInv, PostTypes
  <2>4. /\ Len(swapped) \in Nat \ {0} /\ DOMAIN swapped = 1 .. Len(swapped) /\ u = swapped[1]
        /\ Tail(swapped) \in Seq(Undrained)
        /\ DOMAIN swapped' = 1 .. Len(swapped) - 1
        /\ \A i \in DOMAIN swapped' : swapped'[i] = swapped[i + 1] /\ i + 1 \in DOMAIN swapped
    BY <1>2, <2>1, <2>3, TailFacts
  <2>5. /\ \A i \in DOMAIN swapped' : swapped'[i] # u
        /\ \A i \in DOMAIN W : W[i] # u
    <3>1. 1 \in DOMAIN swapped
      BY <2>4
    <3>2. \A i \in DOMAIN swapped' : i + 1 # 1
      BY <2>4
    <3> QED
      BY <2>4, <3>1, <3>2 DEF PostInv, PostPlaces
  <2> HIDE DEF u, p, W
  <2>6. swapped' \in Seq(Undrained') /\ W \in Seq(Undrained')
    <3>1. Len(swapped') = Len(swapped) - 1 /\ Len(W) \in Nat /\ DOMAIN W = 1 .. Len(W)
      BY <1>2, <2>1, <2>3, TailFacts
    <3>2. \A i \in 1 .. Len(swapped') : swapped'[i] \in Undrained'
      BY <2>1, <2>2, <2>4, <2>5, <3>1
    <3>3. \A i \in 1 .. Len(W) : W[i] \in Undrained'
      BY <2>2, <2>3, <2>5, <3>1
    <3>4. swapped' \in Seq(Undrained)
      BY <2>1, <2>4
    <3> QED
      BY <2>3, <3>2, <3>3, <3>4
  <2>7. PostTypes'
    <3>1. posts \in [Threads -> Seq(Posts)]
      BY DEF PostInv, PostTypes, Posts
    <3>2. u[1] \in Threads /\ u[2] \in DOMAIN posts[u[1]]
      BY <2>1, UndrainedPair
    <3>3. [delay |-> p.delay, key |-> NewKey(p.delay)] \in Posts
      BY <2>1 DEF Posts
    <3>4. [posts[u[1]] EXCEPT ![u[2]] = [delay |-> p.delay, key |-> NewKey(p.delay)]] \in Seq(Posts)
      BY <2>1, <3>2, <3>3
    <3>5. Len([posts[u[1]] EXCEPT ![u[2]] = [delay |-> p.delay, key |-> NewKey(p.delay)]])
            = Len(posts[u[1]])
      BY <2>1, <3>2, <3>3
    <3>6. posts' \in [Threads -> Seq(Posts)] /\ \A t \in Threads : Len(posts'[t]) <= MaxPosts
      BY <2>1, <3>1, <3>2, <3>4, <3>5 DEF PostInv, PostTypes
    <3>7. pc' = "drain"
      BY <2>1 DEF Drain
    <3> QED
      BY <2>1, <2>6, <3>6, <3>7 DEF PostInv, PostTypes, Posts, W
  <2>8. PostPlaces'
    <3>1. \A i, j \in DOMAIN swapped' : swapped'[i] = swapped'[j] => i = j
      <4>1. \A i, j \in DOMAIN swapped' : i + 1 = j + 1 => i = j
        BY <2>4
      <4> QED
        BY <2>4, <4>1 DEF PostInv, PostPlaces
    <3>2. \A i \in DOMAIN swapped', j \in DOMAIN W : swapped'[i] # W[j]
      BY <2>4 DEF PostInv, PostPlaces, W
    <3>3. ASSUME NEW v \in Undrained'
          PROVE  \/ \E i \in DOMAIN swapped' : swapped'[i] = v
                 \/ \E i \in DOMAIN W : W[i] = v
      <4>1. CASE \E i \in DOMAIN swapped : swapped[i] = v
        <5>1. PICK i \in DOMAIN swapped : swapped[i] = v
          BY <4>1
        <5>2. i # 1
          BY <2>2, <2>4, <5>1
        <5>3. i - 1 \in DOMAIN swapped' /\ (i - 1) + 1 = i
          BY <2>4, <5>2
        <5> QED
          BY <2>4, <5>1, <5>3
      <4> QED
        BY <2>2, <4>1 DEF PostInv, PostPlaces, W
    <3> QED
      BY <2>1, <3>1, <3>2, <3>3 DEF PostInv, PostPlaces, W
  <2>9. PostLine'
    <3>1. \A i, j \in DOMAIN swapped' : (i < j /\ swapped'[i][1] = swapped'[j][1])
                                          => swapped'[i][2] < swapped'[j][2]
      <4>1. \A i, j \in DOMAIN swapped' : i < j => i + 1 < j + 1
        BY <2>4
      <4> QED
        BY <2>4, <4>1 DEF PostInv, PostLine
    <3>2. \A i \in DOMAIN swapped', j \in DOMAIN W :
            swapped'[i][1] = W[j][1] => swapped'[i][2] < W[j][2]
      BY <2>4 DEF PostInv, PostLine, W
    <3> QED
      BY <2>1, <3>1, <3>2 DEF PostInv, PostLine, W
  <2> QED
    BY <2>7, <2>8, <2>9 DEF PostInv
<1> QED
  BY <1>1, <1>2

----------------------------------------------------------------------------
(* Every step                                                              *)

LEMMA PostInvStep == PostInv /\ ListInv /\ [Next]_simVars => PostInv'
<1> SUFFICES ASSUME PostInv, ListInv, [Next]_simVars PROVE PostInv'
  OBVIOUS
<1>1. poster \subseteq Threads /\ m_eventsWithContextEmpty \in BOOLEAN
  BY DEF PostInv, PostTypes
<1>2. CASE UNCHANGED postVars /\ (pc # "drain" \/ pc' = pc)
  BY <1>1, <1>2, PostSame DEF postVars
<1>3. CASE Call
  BY <1>2, <1>3 DEF Call, Calling, Schedule, ScheduleWithContext, StopNow, Stop, Cancel, Remove,
                    ScheduleDestroy, CancelDestroy, RemoveDestroy
<1>4. CASE OtherThreads
  <2>1. ASSUME NEW t \in Threads, Announce(t)
        PROVE  PostInv'
    BY <2>1, PostSame DEF Announce
  <2> QED
    BY <1>4, <2>1, PostStep DEF OtherThreads
<1>5. CASE Check \/ Run \/ ProcessOneEvent \/ EventReturns \/ RunReturns \/ Destroy
           \/ DestroyOneEvent \/ DestroyEventReturns \/ DestroyDone \/ DoDispose
  BY <1>2, <1>5 DEF Check, Run, ProcessOneEvent, EventReturns, RunReturns, Destroy,
                    DestroyOneEvent, DestroyEventReturns, DestroyDone, DoDispose
<1>6. CASE UNCHANGED simVars
  BY <1>2, <1>6 DEF simVars
<1> QED
  BY <1>3, <1>4, <1>5, <1>6, SwapStep, DrainStep DEF Next, MainThread

\* Steps that leave the event list, the clock and the identifiers alone.
Idle == /\ UNCHANGED <<m_events, m_unscheduledEvents, clockVars, idVars>>
        /\ resume' = "loop" => resume = "loop"

LEMMA IdleSteps ==
  ASSUME LoopInv, \/ StopNow \/ ScheduleDestroy
                  \/ \E d \in 1 .. destroyCalls : CancelDestroy(d) \/ RemoveDestroy(d)
                  \/ OtherThreads \/ Check \/ Swap \/ Run \/ EventReturns \/ RunReturns \/ Destroy
                  \/ DestroyOneEvent \/ DestroyEventReturns \/ DestroyDone
                  \/ UNCHANGED simVars
  PROVE  Idle
<1>1. CASE \/ StopNow \/ ScheduleDestroy
           \/ \E d \in 1 .. destroyCalls : CancelDestroy(d) \/ RemoveDestroy(d)
  BY <1>1 DEF Idle, StopNow, ScheduleDestroy, CancelDestroy, RemoveDestroy, eventVars
<1>2. CASE OtherThreads \/ UNCHANGED simVars
  BY <1>2 DEF Idle, OtherThreads, Post, Announce, simVars, eventVars
<1>3. CASE Check \/ Swap \/ EventReturns \/ RunReturns
  BY <1>3 DEF Idle, Check, Swap, EventReturns, RunReturns, eventVars
<1>4. CASE Run \/ Destroy \/ DestroyOneEvent \/ DestroyEventReturns \/ DestroyDone
  BY <1>4 DEF Idle, Run, Destroy, DestroyOneEvent, DestroyEventReturns, DestroyDone, eventVars,
              LoopInv
<1> QED
  BY <1>1, <1>2, <1>3, <1>4

LEMMA ListIdStep ==
  LoopInv /\ ListInv /\ IdInv /\ PostInv /\ [Next]_simVars => ListInv' /\ IdInv'
<1> SUFFICES ASSUME LoopInv, ListInv, IdInv, PostInv, [Next]_simVars PROVE ListInv' /\ IdInv'
  OBVIOUS
<1>1. m_uid' \in {m_uid, m_uid + 1}
  BY UidGrows
<1>2. CASE Idle
  BY <1>1, <1>2, ListSame, IdSame DEF Idle
<1>3. ASSUME NEW delay \in 0 .. MaxDelay,
             Schedule(delay) \/ ScheduleWithContext(delay) \/ Stop(delay)
      PROVE  ListInv' /\ IdInv'
  <2>1. InsertNew(delay) /\ UNCHANGED <<clockVars, resume, cancelled, ran>>
    BY <1>3 DEF Schedule, ScheduleWithContext, Stop, idVars
  <2>2. /\ ids' \in {ids, ids \cup {NewKey(delay)}}
        /\ stops' \subseteq stops \cup ids' /\ stops \subseteq stops'
    BY <1>3 DEF Schedule, ScheduleWithContext, Stop, idVars, NewKey
  <2> QED
    BY <2>1, <2>2, ListInsert, IdInsert
<1>4. CASE Drain
  <2>1. CASE swapped = <<>>
    <3>1. UNCHANGED <<m_events, m_unscheduledEvents, clockVars, idVars, resume>>
      BY <1>4, <2>1 DEF Drain, eventVars
    <3> QED
      BY <1>1, <3>1, ListSame, IdSame
  <2>2. CASE swapped # <<>>
    <3>1. PICK delay \in 0 .. MaxDelay : InsertNew(delay)
      BY <1>4, <2>2, DrainedPost
    <3>2. UNCHANGED <<clockVars, resume, idVars>>
      BY <1>4 DEF Drain
    <3>3. /\ UNCHANGED <<cancelled, ran>> /\ ids' \in {ids, ids \cup {NewKey(delay)}}
          /\ stops' \subseteq stops \cup ids' /\ stops \subseteq stops'
      BY <3>2 DEF idVars
    <3> QED
      BY <3>1, <3>2, <3>3, ListInsert, IdInsert
  <2> QED
    BY <2>1, <2>2
<1>5. CASE ProcessOneEvent
  BY <1>5, ListNext, IdNext
<1>6. ASSUME NEW id \in ids, Cancel(id) \/ Remove(id)
      PROVE  ListInv' /\ IdInv'
  <2>1. resume = "loop" /\ id \in m_events
    BY <1>6, CallingInLoop, ExpiredOrWaiting DEF Cancel, Remove
  <2>2. CASE Cancel(id)
    BY <1>1, <2>2, ListSame, IdCancel DEF Cancel, eventVars
  <2>3. CASE Remove(id)
    BY <2>1, <2>3, ListRemove, IdCancel DEF Remove
  <2> QED
    BY <1>6, <2>2, <2>3
<1>7. CASE DoDispose
  <2>1. /\ m_uid' \in {m_uid, m_uid + 1} /\ UNCHANGED <<idVars, clockVars, resume>>
        /\ resume = "dispose"
    BY <1>1, <1>7 DEF DoDispose, LoopInv
  <2> QED
    BY <1>7, <2>1, ListDispose, IdSame
<1> QED
  BY <1>2, <1>3, <1>4, <1>5, <1>6, <1>7, IdleSteps DEF Next, Call, MainThread

----------------------------------------------------------------------------
(* Keys of posts                                                           *)

LEMMA KeyKept ==
  ASSUME LoopInv, ListInv, IdInv, PostInv, [Next]_simVars,
         NEW key, NEW delay \in 0 .. MaxDelay, KeyLaw(key, delay)
  PROVE  KeyLaw(key, delay)'
<1> USE DEF KeyLaw
<1>0. /\ Made(key) /\ key.uid > 0 /\ key \in [ts : Nat, uid : Nat] /\ key.uid # m_uid
      /\ m_currentTs \in Nat /\ delay \in Nat
  BY SimulatorAssumption DEF Made, ListInv
<1>1. Made(key)'
  BY <1>0, UidGrows, MadeStays DEF ListInv
<1>2. CASE UNCHANGED <<m_events, clockVars, idVars>> /\ (resume' = "loop" => resume = "loop")
  BY <1>0, <1>1, <1>2 DEF clockVars, idVars
<1>3. ASSUME NEW d \in 0 .. MaxDelay, InsertNew(d), UNCHANGED <<clockVars, resume, ran>>,
             ids' \subseteq ids \cup {NewKey(d)}
      PROVE  KeyLaw(key, delay)'
  <2>1. key # NewKey(d)
    BY <1>0 DEF NewKey
  <2>2. key \in m_events' <=> key \in m_events
    BY <1>3, <2>1 DEF InsertNew, NewKey
  <2> QED
    BY <1>0, <1>1, <1>3, <2>1, <2>2 DEF clockVars
<1>4. ASSUME NEW d \in 0 .. MaxDelay, Schedule(d) \/ ScheduleWithContext(d) \/ Stop(d)
      PROVE  KeyLaw(key, delay)'
  <2>1. InsertNew(d) /\ UNCHANGED <<clockVars, resume, ran>>
    BY <1>4 DEF Schedule, ScheduleWithContext, Stop, idVars
  <2>2. ids' \subseteq ids \cup {NewKey(d)}
    BY <1>4 DEF Schedule, ScheduleWithContext, Stop, idVars, NewKey
  <2> QED
    BY <1>3, <2>1, <2>2
<1>5. CASE Drain
  <2>1. CASE swapped = <<>>
    BY <1>2, <1>5, <2>1 DEF Drain, eventVars
  <2>2. CASE swapped # <<>>
    <3>1. PICK d \in 0 .. MaxDelay : InsertNew(d)
      BY <1>5, <2>2, DrainedPost
    <3>2. UNCHANGED <<clockVars, resume, ran>> /\ ids' \subseteq ids \cup {NewKey(d)}
      BY <1>5 DEF Drain, idVars
    <3> QED
      BY <1>3, <3>1, <3>2
  <2> QED
    BY <2>1, <2>2
<1>6. CASE ProcessOneEvent
  <2>1. PICK k \in m_events :
          /\ m_events' = m_events \ {k} /\ m_currentTs' = k.ts
          /\ ran' = IF k \in cancelled THEN ran ELSE ran \cup {k}
    BY <1>6 DEF ProcessOneEvent
  <2>2. /\ ids' = ids /\ resume = "loop"
    BY <1>6 DEF ProcessOneEvent, LoopInv
  <2>3. k \in [ts : Nat, uid : Nat] /\ m_currentTs <= k.ts
    <3>1. Made(k) /\ Less(Now, k)
      BY DEF ListInv
    <3> QED
      BY <1>0, <3>1 DEF Made, Less, Now
  <2>4. key \notin cancelled
    BY DEF IdInv
  <2>5. key \in m_events' <=> key \notin ran'
    BY <2>1, <2>2, <2>4
  <2>6. key.ts <= m_currentTs' + delay
    BY <1>0, <2>1, <2>3
  <2> QED
    BY <1>0, <1>1, <2>2, <2>5, <2>6
<1>7. ASSUME NEW id \in ids, Cancel(id) \/ Remove(id)
      PROVE  KeyLaw(key, delay)'
  <2>1. m_events' \in {m_events, m_events \ {id}} /\ UNCHANGED <<clockVars, ids, ran, resume>>
    BY <1>7 DEF Cancel, Remove, eventVars
  <2> QED
    BY <1>0, <1>1, <2>1 DEF clockVars
<1>8. CASE DoDispose
  BY <1>0, <1>1, <1>8 DEF DoDispose, LoopInv, clockVars, idVars
<1>9. CASE Idle
  BY <1>2, <1>9 DEF Idle
<1> QED
  BY <1>4, <1>5, <1>6, <1>7, <1>8, <1>9, IdleSteps DEF Next, Call, MainThread

\* Only Post and Drain change what is known of posts.
LEMMA PostsKept ==
  ASSUME [Next]_simVars
  PROVE  \/ UNCHANGED posts
         \/ \E t \in Threads, delay \in 0 .. MaxDelay : Post(t, delay)
         \/ Drain /\ swapped # <<>>
<1>1. CASE Call
  BY <1>1 DEF Call, Schedule, ScheduleWithContext, StopNow, Stop, Cancel, Remove,
              ScheduleDestroy, CancelDestroy, RemoveDestroy, postVars
<1>2. CASE OtherThreads
  BY <1>2 DEF OtherThreads, Announce
<1>3. CASE MainThread
  BY <1>3 DEF MainThread, Check, Swap, Drain, Run, ProcessOneEvent, EventReturns, RunReturns,
              Destroy, DestroyOneEvent, DestroyEventReturns, DestroyDone, DoDispose, postVars
<1>4. CASE UNCHANGED simVars
  BY <1>4 DEF simVars, postVars
<1> QED
  BY <1>1, <1>2, <1>3, <1>4 DEF Next

\* The records of a thread's posts after a step.
LEMMA PostOf ==
  ASSUME ListInv, PostInv, [Next]_simVars, NEW t \in Threads, NEW n \in DOMAIN posts'[t]
  PROVE  \/ n \in DOMAIN posts[t] /\ posts'[t][n] = posts[t][n]
         \/ n \notin DOMAIN posts[t] /\ posts'[t][n].key = NoKey
         \/ /\ Drain /\ swapped # <<>> /\ Head(swapped) = <<t, n>>
            /\ n \in DOMAIN posts[t] /\ posts[t][n].key = NoKey
            /\ posts[t][n].delay \in 0 .. MaxDelay
            /\ posts'[t][n] = [delay |-> posts[t][n].delay, key |-> NewKey(posts[t][n].delay)]
            /\ InsertNew(posts[t][n].delay)
<1>0. posts \in [Threads -> Seq(Posts)] /\ posts[t] \in Seq(Posts)
  <2>1. posts \in [Threads -> Seq(Posts)]
    BY DEF PostInv, PostTypes, Posts
  <2> QED
    BY <2>1
<1>1. ASSUME NEW s \in Threads, NEW delay \in 0 .. MaxDelay, Post(s, delay)
      PROVE  \/ n \in DOMAIN posts[t] /\ posts'[t][n] = posts[t][n]
             \/ n \notin DOMAIN posts[t] /\ posts'[t][n].key = NoKey
  <2>1. posts' = [posts EXCEPT ![s] = Append(posts[s], [delay |-> delay, key |-> NoKey])]
    BY <1>1 DEF Post
  <2>2. CASE s = t
    <3>1. posts'[t] = Append(posts[t], [delay |-> delay, key |-> NoKey])
      BY <1>0, <2>1, <2>2
    <3>2. [delay |-> delay, key |-> NoKey] \in Posts
      BY DEF Posts, NoKey
    <3>3. /\ Len(posts[t]) \in Nat /\ DOMAIN posts[t] = 1 .. Len(posts[t])
          /\ DOMAIN posts'[t] = 1 .. Len(posts[t]) + 1
          /\ \A i \in 1 .. Len(posts[t]) : posts'[t][i] = posts[t][i]
          /\ posts'[t][Len(posts[t]) + 1] = [delay |-> delay, key |-> NoKey]
      BY <1>0, <3>1, <3>2
    <3> QED
      BY <3>3
  <2>3. CASE s # t
    BY <1>0, <2>1, <2>3
  <2> QED
    BY <2>2, <2>3
<1>2. CASE Drain /\ swapped # <<>>
  <2> DEFINE u == Head(swapped)
             p == posts[u[1]][u[2]]
  <2>1. /\ u \in Undrained /\ p.delay \in 0 .. MaxDelay /\ posts[u[1]] \in Seq(Posts)
        /\ InsertNew(p.delay)
        /\ posts' = [posts EXCEPT ![u[1]] =
                       [posts[u[1]] EXCEPT ![u[2]] =
                          [delay |-> p.delay, key |-> NewKey(p.delay)]]]
    BY <1>2, DrainedPost
  <2>2. /\ u[1] \in Threads /\ u[2] \in DOMAIN posts[u[1]] /\ u = <<u[1], u[2]>>
        /\ p.key = NoKey
    BY <2>1, UndrainedPair
  <2> HIDE DEF u
  <2>3. CASE t # u[1]
    BY <1>0, <2>1, <2>3
  <2>4. CASE t = u[1]
    <3>1. posts'[t] = [posts[t] EXCEPT ![u[2]] = [delay |-> p.delay, key |-> NewKey(p.delay)]]
      BY <1>0, <2>1, <2>4
    <3>2. CASE n # u[2]
      BY <3>1, <3>2
    <3>3. CASE n = u[2]
      BY <1>2, <2>1, <2>2, <2>4, <3>1, <3>3 DEF u
    <3> QED
      BY <3>2, <3>3
  <2> QED
    BY <2>3, <2>4
<1> QED
  BY <1>1, <1>2, PostsKept

LEMMA PostKeysStep ==
  LoopInv /\ ListInv /\ IdInv /\ PostInv /\ PostKeys /\ [Next]_simVars => PostKeys'
<1> SUFFICES ASSUME LoopInv, ListInv, IdInv, PostInv, PostKeys, [Next]_simVars,
                    NEW t \in Threads, NEW n \in DOMAIN posts'[t], posts'[t][n].key # NoKey,
                    NEW key, key = posts'[t][n].key, NEW delay, delay = posts'[t][n].delay
             PROVE  KeyLaw(key, delay)'
  BY DEF PostKeys, KeyLaw
<1>1. CASE n \in DOMAIN posts[t] /\ posts'[t][n] = posts[t][n]
  <2>1. delay \in 0 .. MaxDelay
    <3>1. posts[t] \in Seq(Posts)
      <4>1. posts \in [Threads -> Seq(Posts)]
        BY DEF PostInv, PostTypes, Posts
      <4> QED
        BY <4>1
    <3>2. posts[t][n] \in Posts
      BY <1>1, <3>1
    <3> QED
      BY <1>1, <3>2 DEF Posts
  <2>2. KeyLaw(key, delay)
    BY <1>1 DEF PostKeys
  <2> QED
    BY <2>1, <2>2, KeyKept
<1>2. CASE /\ Drain
           /\ n \in DOMAIN posts[t] /\ posts[t][n].delay \in 0 .. MaxDelay
           /\ posts'[t][n] = [delay |-> posts[t][n].delay, key |-> NewKey(posts[t][n].delay)]
           /\ InsertNew(posts[t][n].delay)
  <2>1. delay \in 0 .. MaxDelay /\ key = NewKey(delay) /\ InsertNew(delay)
    BY <1>2
  <2>2. m_uid' = m_uid + 1 /\ UNCHANGED <<clockVars, resume, ids, ran>>
    BY <1>2, <2>1 DEF InsertNew, Drain, idVars
  <2>3. Made(key)' /\ key.uid > 0 /\ key.ts <= m_currentTs + delay /\ key.uid = m_uid
    <3>1. Made(key)'
      BY <2>1, <2>2, NewKeyMade
    <3>2. m_uid > 0 /\ m_currentTs + delay \in Nat
      BY <2>1, SimulatorAssumption DEF ListInv
    <3> QED
      BY <2>1, <3>1, <3>2 DEF NewKey
  <2>4. key \notin ids /\ key \notin ran
    BY <2>3 DEF IdInv, Made, ListInv
  <2>5. key \in m_events'
    BY <2>1 DEF InsertNew, NewKey
  <2> QED
    BY <2>2, <2>3, <2>4, <2>5 DEF KeyLaw, clockVars
<1> QED
  BY <1>1, <1>2, PostOf

LEMMA PostsType == PostInv => posts \in [Threads -> Seq(Posts)]
BY DEF PostInv, PostTypes, Posts

\* Posts are never forgotten, and a key once given stays.
LEMMA PostsGrow ==
  ASSUME ListInv, PostInv, [Next]_simVars, NEW t \in Threads, NEW n, InList(t, n)
  PROVE  InList(t, n)' /\ posts'[t][n] = posts[t][n]
<1>1. posts \in [Threads -> Seq(Posts)] /\ posts[t] \in Seq(Posts)
  <2>1. posts \in [Threads -> Seq(Posts)]
    BY PostsType
  <2> QED
    BY <2>1
<1>2. n \in DOMAIN posts[t] /\ posts[t][n].key # NoKey
  BY DEF InList
<1>3. n \in DOMAIN posts'[t]
  <2>1. ASSUME NEW s \in Threads, NEW delay \in 0 .. MaxDelay, Post(s, delay)
        PROVE  n \in DOMAIN posts'[t]
    <3>1. posts' = [posts EXCEPT ![s] = Append(posts[s], [delay |-> delay, key |-> NoKey])]
      BY <2>1 DEF Post
    <3>2. CASE s = t
      <4>1. posts'[t] = Append(posts[t], [delay |-> delay, key |-> NoKey])
        BY <1>1, <3>1, <3>2
      <4>2. [delay |-> delay, key |-> NoKey] \in Posts
        BY DEF Posts, NoKey
      <4>3. DOMAIN posts[t] = 1 .. Len(posts[t]) /\ Len(posts[t]) \in Nat
            /\ DOMAIN posts'[t] = 1 .. Len(posts[t]) + 1
        BY <1>1, <4>1, <4>2
      <4> QED
        BY <1>2, <4>3
    <3>3. CASE s # t
      BY <1>1, <1>2, <3>1, <3>3
    <3> QED
      BY <3>2, <3>3
  <2>2. CASE Drain /\ swapped # <<>>
    <3> DEFINE u == Head(swapped)
               p == posts[u[1]][u[2]]
    <3>1. /\ u \in Undrained /\ posts[u[1]] \in Seq(Posts)
          /\ posts' = [posts EXCEPT ![u[1]] =
                         [posts[u[1]] EXCEPT ![u[2]] =
                            [delay |-> p.delay, key |-> NewKey(p.delay)]]]
      BY <2>2, DrainedPost
    <3>2. u[1] \in Threads
      BY <3>1, UndrainedPair
    <3> HIDE DEF u, p
    <3>3. DOMAIN posts'[t] = DOMAIN posts[t]
      BY <1>1, <3>1, <3>2
    <3> QED
      BY <1>2, <3>3
  <2> QED
    BY <1>2, <2>1, <2>2, PostsKept
<1>4. posts'[t][n] = posts[t][n]
  BY <1>2, <1>3, PostOf
<1> QED
  BY <1>2, <1>3, <1>4 DEF InList

----------------------------------------------------------------------------
(* Uids                                                                    *)

ToCome == {p \in Threads \X (1 .. MaxPosts) : ~InList(p[1], p[2])}

LEMMA ToComeFinite ==
  /\ IsFiniteSet(ToCome) /\ Cardinality(ToCome) \in Nat
  /\ PostsToCome = Cardinality(ToCome)
  /\ IsFiniteSet(Threads \X (1 .. MaxPosts))
  /\ Cardinality(ToCome) <= Cardinality(Threads \X (1 .. MaxPosts))
<1>1. IsFiniteSet(1 .. MaxPosts)
  BY FS_Interval, SimulatorAssumption
<1>2. IsFiniteSet(Threads \X (1 .. MaxPosts))
  BY <1>1, FS_Product, SimulatorAssumption
<1>3. ToCome \in SUBSET (Threads \X (1 .. MaxPosts))
  BY DEF ToCome
<1> QED
  BY <1>2, <1>3, FS_Subset, FS_CardinalityType DEF PostsToCome, ToCome

LEMMA ToComeShrinks ==
  ASSUME ListInv, PostInv, [Next]_simVars
  PROVE  /\ ToCome' \subseteq ToCome /\ PostsToCome' \in Nat /\ PostsToCome \in Nat
         /\ PostsToCome' = Cardinality(ToCome')
         /\ PostsToCome' <= PostsToCome
<1>1. ToCome' \subseteq ToCome
  BY PostsGrow DEF ToCome
<1>2. /\ IsFiniteSet(ToCome) /\ Cardinality(ToCome) \in Nat /\ PostsToCome = Cardinality(ToCome)
  BY ToComeFinite
<1>3. PostsToCome' = Cardinality(ToCome')
  BY DEF PostsToCome, ToCome
<1>4. /\ Cardinality(ToCome') <= Cardinality(ToCome) /\ Cardinality(ToCome') \in Nat
  BY <1>1, <1>2, FS_Subset, FS_CardinalityType
<1> QED
  BY <1>1, <1>2, <1>3, <1>4

LEMMA UidStep ==
  LoopInv /\ ListInv /\ PostInv /\ UidInv /\ [Next]_simVars => UidInv'
<1> SUFFICES ASSUME LoopInv, ListInv, PostInv, UidInv, [Next]_simVars PROVE UidInv'
  OBVIOUS
<1>1. /\ PostsToCome' \in Nat /\ PostsToCome \in Nat /\ PostsToCome' <= PostsToCome
      /\ ToCome' \subseteq ToCome
  BY ToComeShrinks
<1>2. m_uid \in Nat /\ MaxUid \in Nat
  BY BoundsAssumption DEF ListInv
<1>0. \A a, b, c, d, m \in Nat : (a + b <= m /\ c <= a /\ d <= b) => c + d <= m
  OBVIOUS
<1>3. CASE m_uid' = m_uid
  <2>1. m_uid' \in Nat /\ m_uid' <= m_uid
    BY <1>2, <1>3
  <2>2. m_uid + PostsToCome <= MaxUid + 1 /\ MaxUid + 1 \in Nat
    BY <1>2 DEF UidInv
  <2>3. m_uid' + PostsToCome' <= MaxUid + 1
    BY <1>0, <1>1, <1>2, <2>1, <2>2
  <2> QED
    BY <2>3 DEF UidInv
<1>4. CASE Room /\ m_uid' = m_uid + 1
  <2>1. m_uid + PostsToCome <= MaxUid
    BY <1>4 DEF Room
  <2>2. \A a, b, d, m \in Nat : (a + b <= m /\ d <= b) => (a + 1) + d <= m + 1
    OBVIOUS
  <2>3. m_uid' + PostsToCome' <= MaxUid + 1
    BY <1>1, <1>2, <1>4, <2>1, <2>2
  <2> QED
    BY <2>3 DEF UidInv
<1>5. CASE Drain /\ swapped # <<>>
  <2> DEFINE u == Head(swapped)
             p == posts[u[1]][u[2]]
  <2>1. /\ u \in Undrained /\ posts[u[1]] \in Seq(Posts)
        /\ posts' = [posts EXCEPT ![u[1]] =
                       [posts[u[1]] EXCEPT ![u[2]] =
                          [delay |-> p.delay, key |-> NewKey(p.delay)]]]
        /\ NewKey(p.delay) # NoKey
        /\ m_uid' = m_uid + 1
    BY <1>5, DrainedPost DEF InsertNew
  <2>2. u[1] \in Threads /\ u[2] \in DOMAIN posts[u[1]] /\ posts[u[1]][u[2]].key = NoKey
    BY <2>1, UndrainedPair
  <2>3. u \in ToCome
    BY <2>1, <2>2 DEF ToCome, InList, Undrained
  <2> HIDE DEF u, p
  <2>4. /\ posts'[u[1]] = [posts[u[1]] EXCEPT ![u[2]] =
                             [delay |-> p.delay, key |-> NewKey(p.delay)]]
    BY <2>1, <2>2, PostsType
  <2>5. u[2] \in DOMAIN posts'[u[1]] /\ posts'[u[1]][u[2]].key # NoKey
    BY <2>1, <2>2, <2>4
  <2>6. u \notin ToCome'
    BY <2>5 DEF ToCome, InList
  <2>7. IsFiniteSet(ToCome) /\ Cardinality(ToCome) = PostsToCome
    BY ToComeFinite
  <2>8. /\ IsFiniteSet(ToCome \ {u}) /\ Cardinality(ToCome \ {u}) = PostsToCome - 1
    BY <2>3, <2>7, FS_RemoveElement
  <2>9. Cardinality(ToCome') <= PostsToCome - 1
    BY <1>1, <2>6, <2>8, FS_Subset
  <2>10. PostsToCome' <= PostsToCome - 1
    BY <2>9, ToComeShrinks
  <2> QED
    BY <1>1, <1>2, <2>1, <2>10 DEF UidInv
<1>6. ASSUME NEW delay \in 0 .. MaxDelay,
             Schedule(delay) \/ ScheduleWithContext(delay) \/ Stop(delay)
      PROVE  UidInv'
  BY <1>4, <1>6 DEF Schedule, ScheduleWithContext, Stop, InsertNew
<1>7. CASE ScheduleDestroy
  BY <1>4, <1>7 DEF ScheduleDestroy
<1>8. CASE OtherThreads
  BY <1>3, <1>8 DEF OtherThreads, Post, Announce, eventVars
<1>9. CASE StopNow \/ (\E id \in ids : Cancel(id) \/ Remove(id))
           \/ (\E d \in 1 .. destroyCalls : CancelDestroy(d) \/ RemoveDestroy(d))
  BY <1>3, <1>9 DEF StopNow, Cancel, Remove, CancelDestroy, RemoveDestroy, eventVars
<1>10. CASE Check \/ Swap \/ (Drain /\ swapped = <<>>) \/ Run \/ ProcessOneEvent \/ EventReturns
            \/ RunReturns \/ Destroy \/ DestroyOneEvent \/ DestroyEventReturns \/ DestroyDone
            \/ DoDispose \/ UNCHANGED simVars
  BY <1>3, <1>10 DEF Check, Swap, Drain, Run, ProcessOneEvent, EventReturns, RunReturns, Destroy,
                     DestroyOneEvent, DestroyEventReturns, DestroyDone, DoDispose, simVars,
                     eventVars
<1> QED
  BY <1>5, <1>6, <1>7, <1>8, <1>9, <1>10 DEF Next, Call, MainThread

----------------------------------------------------------------------------
(* Destroy events                                                          *)

LEMMA Shifted ==
  ASSUME NEW n \in Nat, NEW i \in 1 .. n, NEW j \in 1 .. n - 1, ~(j < i)
  PROVE  j - (i - 1) \in 1 .. n - i /\ ~(j <= i - 1) /\ i + (j - (i - 1)) = j + 1
OBVIOUS

Joined(S, front, back, r) ==
  /\ r \in Seq(S) /\ Len(r) = Len(front) + Len(back)
  /\ \A j \in 1 .. Len(front) + Len(back) :
       r[j] = IF j <= Len(front) THEN front[j] ELSE back[j - Len(front)]

LEMMA JoinedList ==
  ASSUME NEW S, NEW front \in Seq(S), NEW back \in Seq(S), NEW r, r = front \o back
  PROVE  Joined(S, front, back, r)
BY ConcatProperties DEF Joined

\* A list without its i-th element.
Without(S, q, i, r) ==
  /\ r \in Seq(S) /\ DOMAIN r = 1 .. Len(q) - 1
  /\ \A j \in DOMAIN r : r[j] = IF j < i THEN q[j] ELSE q[j + 1]

LEMMA RemovedAt ==
  ASSUME NEW S, NEW q \in Seq(S), NEW i \in DOMAIN q,
         NEW r, r = SubSeq(q, 1, i - 1) \o SubSeq(q, i + 1, Len(q))
  PROVE  Without(S, q, i, r)
<1>1. i \in 1 .. Len(q) /\ Len(q) \in Nat
  OBVIOUS
<1>2. PICK front : front = SubSeq(q, 1, i - 1)
  OBVIOUS
<1>3. PICK back : back = SubSeq(q, i + 1, Len(q))
  OBVIOUS
<1>4. front \in Seq(S) /\ Len(front) = i - 1 /\ \A j \in 1 .. i - 1 : front[j] = q[j]
  BY <1>1, <1>2
<1>5. back \in Seq(S) /\ Len(back) = Len(q) - i /\ \A j \in 1 .. Len(q) - i : back[j] = q[i + j]
  BY <1>1, <1>3
<1>6. r = front \o back
  BY <1>2, <1>3
<1>7. Joined(S, front, back, r)
  BY <1>4, <1>5, <1>6, JoinedList
<1>8. PICK n : n = Len(q)
  OBVIOUS
<1>9. r \in Seq(S) /\ Len(r) = n - 1 /\ DOMAIN r = 1 .. n - 1
  <2>1. Len(r) = (i - 1) + (n - i) /\ r \in Seq(S)
    BY <1>4, <1>5, <1>7, <1>8 DEF Joined
  <2>2. (i - 1) + (n - i) = n - 1
    BY <1>1, <1>8
  <2>3. DOMAIN r = 1 .. Len(r)
    BY <2>1
  <2> QED
    BY <2>1, <2>2, <2>3
<1>10. ASSUME NEW j \in 1 .. n - 1
       PROVE  r[j] = IF j < i THEN q[j] ELSE q[j + 1]
  <2>1. j \in 1 .. (i - 1) + (n - i)
    BY <1>1, <1>8
  <2>2. r[j] = IF j <= i - 1 THEN front[j] ELSE back[j - (i - 1)]
    BY <1>4, <1>5, <1>7, <1>8, <2>1 DEF Joined
  <2>3. CASE j < i
    <3>1. j \in 1 .. i - 1
      BY <1>1, <1>8, <2>3
    <3> QED
      BY <1>4, <2>2, <2>3, <3>1
  <2>4. CASE ~(j < i)
    <3>1. /\ j - (i - 1) \in 1 .. n - i /\ ~(j <= i - 1)
          /\ i + (j - (i - 1)) = j + 1
      BY <1>1, <1>8, <2>4, Shifted
    <3>2. r[j] = back[j - (i - 1)]
      BY <2>2, <3>1
    <3>3. back[j - (i - 1)] = q[i + (j - (i - 1))]
      BY <1>5, <1>8, <3>1
    <3> QED
      BY <2>4, <3>1, <3>2, <3>3
  <2> QED
    BY <2>3, <2>4
<1> QED
  BY <1>8, <1>9, <1>10 DEF Without

LEMMA WiderSeq ==
  ASSUME NEW S, NEW T, S \subseteq T, NEW q \in Seq(S)
  PROVE  q \in Seq(T)
OBVIOUS

LEMMA DestroySame ==
  ASSUME DestroyInv, UNCHANGED <<m_destroyEvents, destroyCalls, destroyed>>,
         destroyCancelled' \subseteq 1 .. destroyCalls,
         \A i \in DOMAIN destroyed : destroyed[i] \notin destroyCancelled',
         resume' = "dispose" => resume = "dispose" \/ m_destroyEvents = <<>>
  PROVE  DestroyInv'
BY DEF DestroyInv

LEMMA DestroyCalls ==
  ASSUME DestroyInv, LoopInv,
         \/ ScheduleDestroy
         \/ \E d \in 1 .. destroyCalls : CancelDestroy(d) \/ RemoveDestroy(d)
  PROVE  DestroyInv'
<1> DEFINE D == m_destroyEvents
<1>0. /\ D \in Seq(1 .. destroyCalls) /\ destroyed \in Seq(1 .. destroyCalls)
      /\ destroyCalls \in Nat /\ DOMAIN D = 1 .. Len(D) /\ Len(D) \in Nat
      /\ \A i \in DOMAIN D : D[i] \in 1 .. destroyCalls
      /\ \A i \in DOMAIN destroyed : destroyed[i] \in 1 .. destroyCalls
  BY SimulatorAssumption DEF DestroyInv
<1>1. CASE ScheduleDestroy
  <2>1. /\ m_destroyEvents' = Append(D, destroyCalls + 1) /\ destroyCalls' = destroyCalls + 1
        /\ destroyCalls' \in 0 .. MaxDestroy
        /\ UNCHANGED <<destroyed, destroyCancelled, resume>> /\ resume = "loop"
    BY <1>0, <1>1, CallingInLoop, SimulatorAssumption DEF ScheduleDestroy
  <2>2. /\ m_destroyEvents' \in Seq(1 .. destroyCalls') /\ destroyed' \in Seq(1 .. destroyCalls')
        /\ DOMAIN m_destroyEvents' = 1 .. Len(D) + 1
        /\ \A i \in DOMAIN D : m_destroyEvents'[i] = D[i]
        /\ m_destroyEvents'[Len(D) + 1] = destroyCalls + 1
    <3>1. 1 .. destroyCalls \subseteq 1 .. destroyCalls' /\ destroyCalls + 1 \in 1 .. destroyCalls'
      BY <1>0, <2>1
    <3>2. D \in Seq(1 .. destroyCalls') /\ destroyed \in Seq(1 .. destroyCalls')
      BY <1>0, <3>1, WiderSeq
    <3> QED
      BY <1>0, <2>1, <3>1, <3>2
  <2> HIDE DEF D
  <2>3. \A i, j \in DOMAIN m_destroyEvents' : i < j => m_destroyEvents'[i] < m_destroyEvents'[j]
    <3> SUFFICES ASSUME NEW i \in DOMAIN m_destroyEvents', NEW j \in DOMAIN m_destroyEvents', i < j
                 PROVE  m_destroyEvents'[i] < m_destroyEvents'[j]
      OBVIOUS
    <3>1. i \in DOMAIN D
      BY <1>0, <2>2
    <3>2. CASE j \in DOMAIN D
      BY <2>2, <3>1, <3>2 DEF DestroyInv, D
    <3>3. CASE j = Len(D) + 1
      BY <1>0, <2>2, <3>1, <3>3
    <3> QED
      BY <1>0, <2>2, <3>2, <3>3
  <2>4. \A i \in DOMAIN destroyed, j \in DOMAIN m_destroyEvents' : destroyed[i] < m_destroyEvents'[j]
    <3> SUFFICES ASSUME NEW i \in DOMAIN destroyed, NEW j \in DOMAIN m_destroyEvents'
                 PROVE  destroyed[i] < m_destroyEvents'[j]
      OBVIOUS
    <3>1. CASE j \in DOMAIN D
      BY <2>2, <3>1 DEF DestroyInv, D
    <3>2. CASE j = Len(D) + 1
      BY <1>0, <2>2, <3>2
    <3> QED
      BY <1>0, <2>2, <3>1, <3>2
  <2>5. destroyCancelled' \subseteq 1 .. destroyCalls'
    BY <1>0, <2>1 DEF DestroyInv
  <2>6. pc' \notin {"dispose", "gone"}
    BY <1>1 DEF ScheduleDestroy, Calling
  <2> QED
    BY <2>1, <2>2, <2>3, <2>4, <2>5, <2>6 DEF DestroyInv
<1>2. ASSUME NEW d \in 1 .. destroyCalls, CancelDestroy(d)
      PROVE  DestroyInv'
  <2>1. PICK k \in DOMAIN D : D[k] = d
    BY <1>2 DEF CancelDestroy, DestroyPending
  <2>2. \A i \in DOMAIN destroyed : destroyed[i] < d
    BY <2>1 DEF DestroyInv
  <2>3. /\ destroyCancelled' = destroyCancelled \cup {d}
        /\ UNCHANGED <<m_destroyEvents, destroyCalls, destroyed, resume, pc>>
    BY <1>2 DEF CancelDestroy
  <2>4. \A i \in DOMAIN destroyed : destroyed[i] \notin destroyCancelled'
    BY <1>0, <2>2, <2>3 DEF DestroyInv
  <2>5. destroyCancelled' \subseteq 1 .. destroyCalls
    BY <2>3 DEF DestroyInv
  <2> QED
    BY <2>3, <2>4, <2>5 DEF DestroyInv
<1>3. ASSUME NEW d \in 1 .. destroyCalls, RemoveDestroy(d)
      PROVE  DestroyInv'
  <2>1. PICK i \in DOMAIN D :
          m_destroyEvents' = SubSeq(D, 1, i - 1) \o SubSeq(D, i + 1, Len(D))
    BY <1>3 DEF RemoveDestroy
  <2>2. UNCHANGED <<destroyCalls, destroyCancelled, destroyed, resume>> /\ resume = "loop"
        /\ pc' \notin {"dispose", "gone"}
    BY <1>3, CallingInLoop DEF RemoveDestroy, Calling
  <2>3. /\ m_destroyEvents' \in Seq(1 .. destroyCalls)
        /\ DOMAIN m_destroyEvents' = 1 .. Len(D) - 1
        /\ \A j \in DOMAIN m_destroyEvents' : m_destroyEvents'[j] = IF j < i THEN D[j] ELSE D[j + 1]
    <3>1. PICK r : r = m_destroyEvents'
      OBVIOUS
    <3>2. PICK q : q = m_destroyEvents
      OBVIOUS
    <3>3. PICK S : S = 1 .. destroyCalls
      OBVIOUS
    <3>4. q \in Seq(S) /\ i \in DOMAIN q
      BY <1>0, <3>2, <3>3
    <3>5. r = SubSeq(q, 1, i - 1) \o SubSeq(q, i + 1, Len(q))
      BY <2>1, <3>1, <3>2
    <3>6. Without(S, q, i, r)
      BY <3>4, <3>5, RemovedAt
    <3> QED
      BY <3>1, <3>2, <3>3, <3>6 DEF Without
  <2>6. i \in 1 .. Len(D) /\ Len(D) \in Nat /\ DOMAIN m_destroyEvents' = 1 .. Len(D) - 1
    BY <1>0, <2>3
  <2> HIDE DEF D
  <2>4. \A a, b \in DOMAIN m_destroyEvents' : a < b => m_destroyEvents'[a] < m_destroyEvents'[b]
    <3> SUFFICES ASSUME NEW a \in DOMAIN m_destroyEvents', NEW b \in DOMAIN m_destroyEvents', a < b
                 PROVE  m_destroyEvents'[a] < m_destroyEvents'[b]
      OBVIOUS
    <3> DEFINE x == IF a < i THEN a ELSE a + 1
               y == IF b < i THEN b ELSE b + 1
    <3>0. a \in 1 .. Len(D) - 1 /\ b \in 1 .. Len(D) - 1
      BY <2>6
    <3>1. x \in DOMAIN D /\ y \in DOMAIN D /\ x < y
      <4>1. x \in 1 .. Len(D) /\ y \in 1 .. Len(D) /\ x < y
        BY <2>6, <3>0
      <4> QED
        BY <1>0, <4>1
    <3>2. m_destroyEvents'[a] = D[x] /\ m_destroyEvents'[b] = D[y]
      BY <2>3
    <3> HIDE DEF x, y
    <3> QED
      BY <3>1, <3>2 DEF DestroyInv, D
  <2>5. \A a \in DOMAIN destroyed, b \in DOMAIN m_destroyEvents' : destroyed[a] < m_destroyEvents'[b]
    <3> SUFFICES ASSUME NEW a \in DOMAIN destroyed, NEW b \in DOMAIN m_destroyEvents'
                 PROVE  destroyed[a] < m_destroyEvents'[b]
      OBVIOUS
    <3> DEFINE y == IF b < i THEN b ELSE b + 1
    <3>0. b \in 1 .. Len(D) - 1
      BY <2>6
    <3>1. y \in DOMAIN D
      <4>1. y \in 1 .. Len(D)
        BY <2>6, <3>0
      <4> QED
        BY <1>0, <4>1
    <3>2. m_destroyEvents'[b] = D[y]
      BY <2>3
    <3> HIDE DEF y
    <3> QED
      BY <3>1, <3>2 DEF DestroyInv, D
  <2> QED
    BY <2>2, <2>3, <2>4, <2>5 DEF DestroyInv, D
<1> QED
  BY <1>1, <1>2, <1>3

LEMMA DestroyNext ==
  ASSUME DestroyInv, LoopInv, DestroyOneEvent
  PROVE  DestroyInv'
<1> DEFINE D == m_destroyEvents
           d == Head(D)
<1>1. /\ D \in Seq(1 .. destroyCalls) /\ destroyed \in Seq(1 .. destroyCalls) /\ D # <<>>
      /\ D' = Tail(D) /\ UNCHANGED <<destroyCalls, destroyCancelled, resume>> /\ resume = "loop"
      /\ pc' \in {"destroy", "destroyEvent"}
  BY DEF DestroyInv, DestroyOneEvent, LoopInv
<1>2. /\ Len(D) \in Nat \ {0} /\ DOMAIN D = 1 .. Len(D) /\ d = D[1] /\ 1 \in DOMAIN D
      /\ Tail(D) \in Seq(1 .. destroyCalls)
      /\ DOMAIN Tail(D) = 1 .. Len(D) - 1
      /\ \A i \in DOMAIN Tail(D) : Tail(D)[i] = D[i + 1] /\ i + 1 \in DOMAIN D /\ 1 < i + 1
  BY <1>1, TailFacts
<1>3. \A i \in DOMAIN Tail(D) : d < Tail(D)[i]
  BY <1>2 DEF DestroyInv
<1>4. \A i, j \in DOMAIN Tail(D) : i < j => Tail(D)[i] < Tail(D)[j]
  <2>1. \A i, j \in DOMAIN Tail(D) : i < j => i + 1 < j + 1
    BY <1>2
  <2> QED
    BY <1>2, <2>1 DEF DestroyInv
<1>5. \A i \in DOMAIN destroyed : destroyed[i] < d
  BY <1>2 DEF DestroyInv
<1>6. CASE UNCHANGED destroyed
  BY <1>1, <1>2, <1>4, <1>6 DEF DestroyInv
<1>7. CASE destroyed' = Append(destroyed, d) /\ d \notin destroyCancelled
  <2>1. /\ d \in 1 .. destroyCalls /\ Len(destroyed) \in Nat
        /\ DOMAIN destroyed = 1 .. Len(destroyed)
    <3>1. D \in Seq(1 .. destroyCalls) /\ 1 \in DOMAIN D
      BY <1>1, <1>2
    <3>2. D[1] \in 1 .. destroyCalls
      <4>1. PICK q : q = D
        OBVIOUS
      <4>2. PICK S : S = 1 .. destroyCalls
        OBVIOUS
      <4>3. q \in Seq(S) /\ 1 \in 1 .. Len(q)
        BY <1>2, <3>1, <4>1, <4>2
      <4>4. q[1] \in S
        BY <4>3, ElementOfSeq, Zenon
      <4> QED
        BY <4>1, <4>2, <4>4
    <3>3. destroyed \in Seq(1 .. destroyCalls)
      BY <1>1
    <3> QED
      BY <1>2, <3>2, <3>3
  <2>2. /\ destroyed' \in Seq(1 .. destroyCalls) /\ DOMAIN destroyed' = 1 .. Len(destroyed) + 1
        /\ \A i \in DOMAIN destroyed : destroyed'[i] = destroyed[i]
        /\ destroyed'[Len(destroyed) + 1] = d
    BY <1>1, <1>7, <2>1
  <2> HIDE DEF d, D
  <2>3. \A i, j \in DOMAIN destroyed' : i < j => destroyed'[i] < destroyed'[j]
    <3> SUFFICES ASSUME NEW i \in DOMAIN destroyed', NEW j \in DOMAIN destroyed', i < j
                 PROVE  destroyed'[i] < destroyed'[j]
      OBVIOUS
    <3>1. i \in DOMAIN destroyed
      BY <2>1, <2>2
    <3>2. CASE j \in DOMAIN destroyed
      BY <2>2, <3>1, <3>2 DEF DestroyInv
    <3>3. CASE j = Len(destroyed) + 1
      BY <1>5, <2>2, <3>1, <3>3
    <3> QED
      BY <2>1, <2>2, <3>2, <3>3
  <2>4. \A i \in DOMAIN destroyed', j \in DOMAIN D' : destroyed'[i] < D'[j]
    <3> SUFFICES ASSUME NEW i \in DOMAIN destroyed', NEW j \in DOMAIN D'
                 PROVE  destroyed'[i] < D'[j]
      OBVIOUS
    <3>1. CASE i \in DOMAIN destroyed
      BY <1>1, <1>2, <2>2, <3>1 DEF DestroyInv, D
    <3>2. CASE i = Len(destroyed) + 1
      BY <1>1, <1>3, <2>2, <3>2
    <3> QED
      BY <2>1, <2>2, <3>1, <3>2
  <2>5. \A i \in DOMAIN destroyed' : destroyed'[i] \notin destroyCancelled
    BY <1>7, <2>1, <2>2 DEF DestroyInv
  <2> QED
    BY <1>1, <1>2, <1>4, <2>2, <2>3, <2>4, <2>5 DEF DestroyInv, D
<1> QED
  BY <1>6, <1>7 DEF DestroyOneEvent

LEMMA DestroyStep == LoopInv /\ DestroyInv /\ [Next]_simVars => DestroyInv'
<1> SUFFICES ASSUME LoopInv, DestroyInv, [Next]_simVars PROVE DestroyInv'
  OBVIOUS
<1>0. LoopInv'
  BY LoopStep
<1>1. CASE UNCHANGED destroyVars /\ (resume' = "dispose" => resume = "dispose" \/ m_destroyEvents = <<>>)
  BY <1>1, DestroySame DEF destroyVars, DestroyInv
<1>2. ASSUME NEW delay \in 0 .. MaxDelay,
             Schedule(delay) \/ ScheduleWithContext(delay) \/ Stop(delay)
      PROVE  DestroyInv'
  BY <1>1, <1>2 DEF Schedule, ScheduleWithContext, Stop
<1>3. CASE StopNow \/ \E id \in ids : Cancel(id) \/ Remove(id)
  BY <1>1, <1>3 DEF StopNow, Cancel, Remove
<1>4. CASE OtherThreads \/ UNCHANGED simVars
  BY <1>1, <1>4 DEF OtherThreads, Post, Announce, simVars
<1>5. CASE Check \/ Swap \/ Drain \/ Run \/ ProcessOneEvent \/ EventReturns \/ RunReturns
           \/ Destroy \/ DestroyEventReturns \/ DoDispose
  BY <1>1, <1>5 DEF Check, Swap, Drain, Run, ProcessOneEvent, EventReturns, RunReturns, Destroy,
                    DestroyEventReturns, DoDispose
<1>6. CASE DestroyDone
  BY <1>1, <1>6 DEF DestroyDone
<1> QED
  BY <1>2, <1>3, <1>4, <1>5, <1>6, DestroyCalls, DestroyNext DEF Next, Call, MainThread

----------------------------------------------------------------------------
(* Order of posts                                                          *)

LEMMA HeadIsFirst ==
  ASSUME PostInv, swapped # <<>>, NEW t \in Threads, NEW i \in Nat, NEW j \in Nat, i < j,
         Head(swapped) = <<t, j>>, i \in DOMAIN posts[t]
  PROVE  posts[t][i].key # NoKey
<1> SUFFICES ASSUME posts[t][i].key = NoKey PROVE FALSE
  OBVIOUS
<1>1. i \in 1 .. MaxPosts
  <2>1. posts[t] \in Seq(Posts)
    BY PostsType
  <2>2. Len(posts[t]) <= MaxPosts
    BY DEF PostInv, PostTypes
  <2> QED
    BY <2>1, <2>2, SimulatorAssumption
<1>2. PICK u : u = <<t, i>>
  OBVIOUS
<1>3. u \in Undrained
  BY <1>1, <1>2 DEF Undrained
<1>4. 1 \in DOMAIN swapped /\ swapped[1] = <<t, j>>
  <2>1. swapped \in Seq(Undrained)
    BY DEF PostInv, PostTypes
  <2> QED
    BY <2>1
<1>5. \A k \in DOMAIN swapped : swapped[k] # u
  <2> SUFFICES ASSUME NEW k \in DOMAIN swapped, swapped[k] = u PROVE FALSE
    OBVIOUS
  <2>1. k = 1 \/ 1 < k
    <3>1. swapped \in Seq(Undrained)
      BY DEF PostInv, PostTypes
    <3> QED
      BY <3>1
  <2>2. CASE k = 1
    BY <1>2, <1>4, <2>2
  <2>3. CASE 1 < k
    <3>1. swapped[1][2] < swapped[k][2]
      BY <1>2, <1>4, <2>3 DEF PostInv, PostLine
    <3> QED
      BY <1>2, <1>4, <3>1
  <2> QED
    BY <2>1, <2>2, <2>3
<1>6. \A k \in DOMAIN m_eventsWithContext : m_eventsWithContext[k] # u
  <2> SUFFICES ASSUME NEW k \in DOMAIN m_eventsWithContext, m_eventsWithContext[k] = u PROVE FALSE
    OBVIOUS
  <2>1. swapped[1][2] < m_eventsWithContext[k][2]
    BY <1>2, <1>4 DEF PostInv, PostLine
  <2> QED
    BY <1>2, <1>4, <2>1
<1> QED
  BY <1>3, <1>5, <1>6 DEF PostInv, PostPlaces

LEMMA OrderStep ==
  ListInv /\ PostInv /\ PostKeys /\ PostsInOrder /\ [Next]_simVars => PostsInOrder'
<1> SUFFICES ASSUME ListInv, PostInv, PostKeys, PostsInOrder, [Next]_simVars,
                    NEW t \in Threads, NEW i \in DOMAIN posts'[t], NEW j \in DOMAIN posts'[t],
                    i < j, posts'[t][i].delay <= posts'[t][j].delay, posts'[t][j].key # NoKey
             PROVE  posts'[t][i].key # NoKey /\ Less(posts'[t][i].key, posts'[t][j].key)
  BY DEF PostsInOrder, Less
<1>0. posts[t] \in Seq(Posts) /\ m_uid \in Nat /\ m_currentTs \in Nat
  <2>1. posts \in [Threads -> Seq(Posts)]
    BY PostsType
  <2> QED
    BY <2>1 DEF ListInv
<1>1. i \in Nat /\ j \in Nat /\ i > 0
  <2>1. PostInv'
    BY PostInvStep
  <2>2. posts' \in [Threads -> Seq([delay : 0 .. MaxDelay, key : [ts : Nat, uid : Nat]])]
    BY <2>1 DEF PostInv, PostTypes
  <2>3. posts'[t] \in Seq([delay : 0 .. MaxDelay, key : [ts : Nat, uid : Nat]])
    BY <2>2
  <2>4. PICK q : q = posts'[t]
    OBVIOUS
  <2>5. DOMAIN q = 1 .. Len(q) /\ Len(q) \in Nat
    BY <2>3, <2>4
  <2>6. i \in DOMAIN q /\ j \in DOMAIN q
    BY <2>4
  <2> QED
    BY <2>5, <2>6
<1>2. j \in DOMAIN posts[t]
  BY PostOf
<1>3. i \in DOMAIN posts[t]
  BY <1>0, <1>1, <1>2
<1>4. CASE posts'[t][j] = posts[t][j]
  <2>1. posts'[t][i].delay = posts[t][i].delay
    <3>1. PICK d : d = posts[t][i].delay
      OBVIOUS
    <3>2. PICK key : key = NewKey(d)
      OBVIOUS
    <3>3. \/ posts'[t][i] = posts[t][i]
          \/ posts'[t][i] = [delay |-> d, key |-> key]
      BY <1>3, <3>1, <3>2, PostOf
    <3> QED
      BY <3>1, <3>3
  <2>2. posts[t][i].key # NoKey /\ Less(posts[t][i].key, posts[t][j].key)
    BY <1>2, <1>3, <1>4, <2>1 DEF PostsInOrder
  <2>3. posts'[t][i] = posts[t][i]
    BY <1>3, <2>2, PostOf
  <2> QED
    BY <1>4, <2>2, <2>3
<1>5. CASE /\ swapped # <<>> /\ Head(swapped) = <<t, j>>
           /\ posts[t][j].delay \in 0 .. MaxDelay
           /\ posts'[t][j] = [delay |-> posts[t][j].delay, key |-> NewKey(posts[t][j].delay)]
  <2>1. posts[t][i].key # NoKey
    BY <1>1, <1>3, <1>5, HeadIsFirst
  <2>2. posts'[t][i] = posts[t][i]
    BY <1>3, <2>1, PostOf
  <2>3. PICK k : k = posts[t][i].key
    OBVIOUS
  <2>4. PICK d : d = posts[t][i].delay
    OBVIOUS
  <2>5. PICK e : e = posts[t][j].delay
    OBVIOUS
  <2>6. KeyLaw(k, d)
    BY <1>3, <2>1, <2>3, <2>4 DEF PostKeys
  <2>7. d \in Nat
    <3>1. posts[t][i] \in Posts
      BY <1>0, <1>3
    <3> QED
      BY <2>4, <3>1, SimulatorAssumption DEF Posts
  <2>8. e \in Nat /\ d <= e
    BY <1>5, <2>2, <2>4, <2>5, SimulatorAssumption
  <2>9. k.uid < m_uid /\ k.ts <= m_currentTs + d /\ k.ts \in Nat /\ k.uid \in Nat
    BY <2>6 DEF KeyLaw, Made
  <2>10. Less(k, [ts |-> m_currentTs + e, uid |-> m_uid])
    BY <1>0, <2>7, <2>8, <2>9 DEF Less
  <2> QED
    BY <1>5, <2>1, <2>2, <2>3, <2>5, <2>10 DEF NewKey
<1> QED
  BY <1>4, <1>5, PostOf

----------------------------------------------------------------------------
(* The invariant holds                                                     *)

LEMMA InitInv == Init => IInv /\ PostsInOrder
<1> SUFFICES ASSUME Init PROVE IInv /\ PostsInOrder
  OBVIOUS
<1>1. LoopInv
  BY DEF Init, LoopInv, Places
<1>2. ListInv /\ IdInv
  <2>1. Made(Now)
    BY SimulatorAssumption DEF Init, Made, Now
  <2>2. IsFiniteSet({}) /\ Cardinality({}) = 0
    BY FS_EmptySet
  <2>3. m_events = {} /\ m_unscheduledEvents = 0
    BY DEF Init
  <2>4. ListInv
    BY <2>1, <2>2, <2>3 DEF Init, ListInv
  <2>5. IdInv
    BY DEF Init, IdInv
  <2> QED
    BY <2>4, <2>5
<1>3. \A t \in Threads : posts[t] = <<>> /\ DOMAIN posts[t] = {} /\ Len(posts[t]) = 0
  BY DEF Init
<1>4. Undrained = {}
  BY <1>3 DEF Undrained
<1>5. PostTypes
  <2>1. posts \in [Threads -> Seq([delay : 0 .. MaxDelay, key : [ts : Nat, uid : Nat]])]
    BY DEF Init
  <2>2. m_eventsWithContext \in Seq(Undrained) /\ swapped \in Seq(Undrained)
    BY <1>4 DEF Init
  <2>3. \A t \in Threads : Len(posts[t]) <= MaxPosts
    BY <1>3, SimulatorAssumption
  <2> QED
    BY <2>1, <2>2, <2>3 DEF Init, PostTypes
<1>6. DOMAIN swapped = {} /\ DOMAIN m_eventsWithContext = {}
  BY DEF Init
<1>7. PostPlaces /\ PostLine /\ PostKeys /\ PostsInOrder
  BY <1>3, <1>4, <1>6 DEF PostPlaces, PostLine, PostKeys, PostsInOrder
<1>8. DestroyInv
  BY SimulatorAssumption DEF Init, DestroyInv
<1>9. UidInv
  <2>1. /\ PostsToCome \in Nat /\ Cardinality(Threads \X (1 .. MaxPosts)) \in Nat
        /\ PostsToCome <= Cardinality(Threads \X (1 .. MaxPosts))
    BY ToComeFinite, FS_CardinalityType
  <2> QED
    BY <2>1, SimulatorAssumption, BoundsAssumption DEF Init, UidInv
<1> QED
  BY <1>1, <1>2, <1>5, <1>7, <1>8, <1>9 DEF IInv

LEMMA InvStep ==
  IInv /\ PostsInOrder /\ [Next]_simVars => IInv' /\ PostsInOrder'
<1> SUFFICES ASSUME IInv, PostsInOrder, [Next]_simVars PROVE IInv' /\ PostsInOrder'
  OBVIOUS
<1>1. LoopInv /\ ListInv /\ IdInv /\ PostInv /\ PostKeys /\ DestroyInv /\ UidInv
  BY DEF IInv, PostInv
<1>2. LoopInv' /\ ListInv' /\ IdInv' /\ PostInv' /\ PostKeys' /\ DestroyInv' /\ UidInv'
  BY <1>1, LoopStep, ListIdStep, PostInvStep, PostKeysStep, DestroyStep, UidStep
<1>3. PostsInOrder'
  BY <1>1, OrderStep
<1> QED
  BY <1>2, <1>3 DEF IInv, PostInv

LEMMA Correct == Spec => [](IInv /\ PostsInOrder)
BY InitInv, InvStep, PTL DEF Spec

----------------------------------------------------------------------------
(* Types                                                                   *)

LEMMA Product ==
  ASSUME NEW a \in Nat, NEW b \in Nat, NEW d \in Nat, a <= b
  PROVE  a * d <= b * d
<1>1. CASE a = b
  BY <1>1
<1>2. CASE a < b
  <2>1. a * d + d <= b * d
    BY <1>2, LaterIsTimely
  <2>2. a * d \in Nat /\ b * d \in Nat
    OBVIOUS
  <2> QED
    BY <2>1, <2>2
<1> QED
  BY <1>1, <1>2

LEMMA MadeIsKey ==
  ASSUME ListInv, UidInv, NEW k, Made(k)
  PROVE  k \in EventKeys
<1>1. k \in [ts : Nat, uid : Nat] /\ k.uid \in Nat /\ k.ts \in Nat
      /\ k.uid < m_uid /\ k.ts <= k.uid * MaxDelay
  BY DEF Made
<1>2. m_uid \in Nat /\ PostsToCome \in Nat /\ MaxUid \in Nat /\ MaxDelay \in Nat /\ MaxTs \in Nat
      /\ m_uid + PostsToCome <= MaxUid + 1 /\ MaxUid * MaxDelay <= MaxTs
  BY ToComeFinite, SimulatorAssumption, BoundsAssumption DEF ListInv, UidInv
<1>3. k.uid <= MaxUid
  BY <1>1, <1>2
<1>4. k.uid * MaxDelay <= MaxUid * MaxDelay
  BY <1>1, <1>2, <1>3, Product
<1>5. k.uid * MaxDelay \in Nat /\ MaxUid * MaxDelay \in Nat
  BY <1>1, <1>2
<1>6. k.ts <= MaxTs
  BY <1>1, <1>2, <1>4, <1>5
<1>7. k.ts \in 0 .. MaxTs /\ k.uid \in 0 .. MaxUid
  BY <1>1, <1>2, <1>3, <1>6
<1> QED
  BY <1>1, <1>7 DEF EventKeys

LEMMA Narrower ==
  ASSUME NEW S, NEW T, NEW q \in Seq(S), \A i \in DOMAIN q : q[i] \in T
  PROVE  q \in Seq(T)
OBVIOUS

LEMMA PostsTyped ==
  ASSUME IInv
  PROVE  posts \in [Threads -> Seq([delay : Nat, key : EventKeys])]
<1>1. posts \in [Threads -> Seq(Posts)]
  BY PostsType DEF IInv, PostInv
<1>2. ASSUME NEW t \in Threads
      PROVE  posts[t] \in Seq([delay : Nat, key : EventKeys])
  <2>1. posts[t] \in Seq(Posts)
    BY <1>1
  <2>2. ASSUME NEW n \in DOMAIN posts[t]
        PROVE  posts[t][n] \in [delay : Nat, key : EventKeys]
    <3>1. posts[t][n] \in Posts
      BY <2>1
    <3>2. posts[t][n].key \in EventKeys
      <4>1. CASE posts[t][n].key = NoKey
        BY <4>1, BoundsAssumption DEF NoKey, EventKeys
      <4>2. CASE posts[t][n].key # NoKey
        <5>1. Made(posts[t][n].key)
          BY <4>2 DEF IInv, PostKeys, KeyLaw
        <5> QED
          BY <5>1, MadeIsKey DEF IInv
      <4> QED
        BY <4>1, <4>2
    <3> QED
      BY <3>1, <3>2, SimulatorAssumption DEF Posts
  <2> QED
    BY <2>1, <2>2, Narrower
<1> QED
  BY <1>1, <1>2

LEMMA Types == IInv => TypeOK
<1> SUFFICES ASSUME IInv PROVE TypeOK
  OBVIOUS
<1>1. /\ m_events \subseteq EventKeys /\ ids \subseteq EventKeys /\ ran \subseteq EventKeys
  BY MadeIsKey DEF IInv, ListInv, IdInv
<1>2. /\ pc \in Places /\ resume \in {"loop", "dispose"} /\ m_stop \in BOOLEAN
      /\ m_unscheduledEvents \in Nat /\ m_currentTs \in Nat /\ m_currentUid \in Nat
      /\ m_uid \in Nat /\ cancelled \subseteq ids /\ stops \subseteq ids
      /\ m_eventsWithContextEmpty \in BOOLEAN /\ poster \subseteq Threads
  BY DEF IInv, LoopInv, ListInv, IdInv, PostTypes
<1>3. m_eventsWithContext \in Seq(Threads \X Nat) /\ swapped \in Seq(Threads \X Nat)
  <2>1. Undrained \subseteq Threads \X Nat
    BY SimulatorAssumption DEF Undrained
  <2>2. m_eventsWithContext \in Seq(Undrained) /\ swapped \in Seq(Undrained)
    BY DEF IInv, PostTypes
  <2> QED
    BY <2>1, <2>2, WiderSeq
<1>4. /\ m_destroyEvents \in Seq(Nat) /\ destroyCalls \in 0 .. MaxDestroy
      /\ destroyCancelled \subseteq 1 .. destroyCalls /\ destroyed \in Seq(Nat)
  <2>1. /\ m_destroyEvents \in Seq(1 .. destroyCalls) /\ destroyed \in Seq(1 .. destroyCalls)
        /\ destroyCalls \in 0 .. MaxDestroy /\ destroyCancelled \subseteq 1 .. destroyCalls
    BY DEF IInv, DestroyInv
  <2>2. 1 .. destroyCalls \subseteq Nat
    BY <2>1, SimulatorAssumption
  <2> QED
    BY <2>1, <2>2, WiderSeq
<1> QED
  BY <1>1, <1>2, <1>3, <1>4, PostsTyped DEF TypeOK

PlacesOf(q, u) == {i \in DOMAIN q : q[i] = u}
Distinct(q) == \A i, j \in DOMAIN q : q[i] = q[j] => i = j
Holds(q, u) == \E i \in DOMAIN q : q[i] = u

LEMMA OnePlace ==
  ASSUME NEW q, NEW u, Distinct(q)
  PROVE  Cardinality(PlacesOf(q, u)) = IF Holds(q, u) THEN 1 ELSE 0
<1> USE DEF Distinct, PlacesOf, Holds
<1>1. CASE \E i \in DOMAIN q : q[i] = u
  <2>1. PICK i \in DOMAIN q : q[i] = u
    BY <1>1
  <2>2. {j \in DOMAIN q : q[j] = u} = {i}
    BY <2>1
  <2> QED
    BY <1>1, <2>2, FS_Singleton
<1>2. CASE ~ \E i \in DOMAIN q : q[i] = u
  <2>1. {j \in DOMAIN q : q[j] = u} = {}
    BY <1>2
  <2> QED
    BY <1>2, <2>1, FS_EmptySet
<1> QED
  BY <1>1, <1>2

LEMMA Placed == IInv => PostsNeitherLostNorDoubled
<1> SUFFICES ASSUME IInv PROVE PostsNeitherLostNorDoubled
  OBVIOUS
<1>0. swapped \in Seq(Undrained) /\ m_eventsWithContext \in Seq(Undrained)
  BY DEF IInv, PostTypes
<1>1. ASSUME NEW t \in Threads, NEW n \in DOMAIN posts[t]
      PROVE  Cardinality({i \in DOMAIN m_eventsWithContext : m_eventsWithContext[i] = <<t, n>>})
               + Cardinality({i \in DOMAIN swapped : swapped[i] = <<t, n>>})
             = IF posts[t][n].key = NoKey THEN 1 ELSE 0
  <2>1. PICK u : u = <<t, n>>
    OBVIOUS
  <2>2. u \in Undrained <=> posts[t][n].key = NoKey
    <3>1. posts[t] \in Seq(Posts) /\ Len(posts[t]) <= MaxPosts
      <4>1. posts \in [Threads -> Seq(Posts)]
        BY PostsType DEF IInv, PostInv
      <4>2. Len(posts[t]) <= MaxPosts
        BY DEF IInv, PostTypes
      <4> QED
        BY <4>1, <4>2
    <3>2. n \in 1 .. MaxPosts
      BY <3>1, SimulatorAssumption
    <3> QED
      BY <2>1, <3>2 DEF Undrained
  <2> DEFINE waits == \E i \in DOMAIN m_eventsWithContext : m_eventsWithContext[i] = u
             drains == \E i \in DOMAIN swapped : swapped[i] = u
  <2>3. waits \/ drains <=> u \in Undrained
    <3>1. waits => u \in Undrained
      BY <1>0
    <3>2. drains => u \in Undrained
      BY <1>0
    <3>3. u \in Undrained => waits \/ drains
      BY DEF IInv, PostPlaces
    <3> QED
      BY <3>1, <3>2, <3>3
  <2>4. ~(waits /\ drains)
    BY DEF IInv, PostPlaces
  <2>5. Distinct(m_eventsWithContext) /\ Distinct(swapped)
    BY DEF IInv, PostPlaces, Distinct
  <2>6. /\ Cardinality(PlacesOf(m_eventsWithContext, u))
             = IF Holds(m_eventsWithContext, u) THEN 1 ELSE 0
        /\ Cardinality(PlacesOf(swapped, u)) = IF Holds(swapped, u) THEN 1 ELSE 0
    BY <2>5, OnePlace
  <2>7. /\ Cardinality({i \in DOMAIN m_eventsWithContext : m_eventsWithContext[i] = u})
             = IF waits THEN 1 ELSE 0
        /\ Cardinality({i \in DOMAIN swapped : swapped[i] = u}) = IF drains THEN 1 ELSE 0
    BY <2>6 DEF PlacesOf, Holds
  <2> HIDE DEF waits, drains
  <2> QED
    BY <2>1, <2>2, <2>3, <2>4, <2>7
<1>2. ASSUME NEW t \in Threads, NEW n \in DOMAIN posts[t],
             posts[t][n].key # NoKey, resume = "loop"
      PROVE  posts[t][n].key \in m_events <=> posts[t][n].key \notin ran
  BY <1>2 DEF IInv, PostKeys, KeyLaw
<1> QED
  BY <1>1, <1>2 DEF PostsNeitherLostNorDoubled

----------------------------------------------------------------------------
(* The theorems                                                            *)

\* Types, and no time stamp or uid beyond the bounds: the run ends where it does
\* because its calls do, not because a key was cut off.
THEOREM TypeCorrect == Spec => []TypeOK
BY Correct, Types, PTL

\* m_unscheduledEvents is the number of events in the list from Run to Run.
THEOREM CountHolds == Spec => []CountAgrees
<1>1. IInv => CountAgrees
  BY DEF IInv, ListInv, CountAgrees
<1> QED
  BY <1>1, Correct, PTL

\* The answer of IsExpired agrees with the event list for every id given out.
THEOREM ExpiryHolds == Spec => []ExpiryIsExact
<1>1. IInv => ExpiryIsExact
  BY ExpiredOrWaiting DEF IInv, ExpiryIsExact
<1> QED
  BY <1>1, Correct, PTL

\* No event both ran and was cancelled or removed.
THEOREM CancelHolds == Spec => []CancelledNeverRuns
<1>1. IInv => CancelledNeverRuns
  BY DEF IInv, IdInv, CancelledNeverRuns
<1> QED
  BY <1>1, Correct, PTL

\* A post is in exactly one place, whatever the interleaving of the threads.
THEOREM PostsHold == Spec => []PostsNeitherLostNorDoubled
BY Correct, Placed, PTL

\* Posts of one thread with growing delays run in the order of the calls.
THEOREM PostOrderHolds == Spec => []PostsInOrder
BY Correct, PTL

\* Destroy events run once each, in the order of the calls, and never cancelled.
THEOREM DestroyOrderHolds == Spec => []DestroyInOrder
<1>1. IInv => DestroyInOrder
  BY DEF IInv, DestroyInv, DestroyInOrder, LoopInv
<1> QED
  BY <1>1, Correct, PTL

\* A post that waits while nobody holds the mutex is announced by the flag.
THEOREM AnnouncementHolds == Spec => []WaitingPostsAreAnnounced
<1> DEFINE Waits == m_eventsWithContext # <<>> /\ m_eventsWithContextEmpty => poster # {}
<1>1. Init => Waits
  BY DEF Init
<1>2. Waits /\ [Next]_simVars => Waits'
  <2> SUFFICES ASSUME Waits, [Next]_simVars PROVE Waits'
    OBVIOUS
  <2>1. CASE UNCHANGED <<m_eventsWithContext, m_eventsWithContextEmpty, poster>>
    BY <2>1
  <2>2. CASE Call
    BY <2>1, <2>2 DEF Call, Schedule, ScheduleWithContext, StopNow, Stop, Cancel, Remove,
                      ScheduleDestroy, CancelDestroy, RemoveDestroy, postVars
  <2>3. CASE OtherThreads
    BY <2>3 DEF OtherThreads, Post, Announce
  <2>4. CASE Swap
    BY <2>4 DEF Swap
  <2>5. CASE Check \/ Drain \/ Run \/ ProcessOneEvent \/ EventReturns \/ RunReturns \/ Destroy
    BY <2>1, <2>5 DEF Check, Drain, Run, ProcessOneEvent, EventReturns, RunReturns, Destroy,
                      postVars
  <2>6. CASE DestroyOneEvent \/ DestroyEventReturns \/ DestroyDone \/ DoDispose \/ UNCHANGED simVars
    BY <2>1, <2>6 DEF DestroyOneEvent, DestroyEventReturns, DestroyDone, DoDispose, simVars,
                      postVars
  <2> QED
    BY <2>2, <2>3, <2>4, <2>5, <2>6 DEF Next, MainThread
<1>3. Waits => WaitingPostsAreAnnounced
  BY DEF WaitingPostsAreAnnounced
<1> QED
  BY <1>1, <1>2, <1>3, PTL DEF Spec

----------------------------------------------------------------------------
(* The event list behaves as EventQueue says                               *)

LEMMA QueueInsert ==
  ASSUME IInv, TypeOK', NEW delay \in 0 .. MaxDelay, InsertNew(delay), UNCHANGED clockVars
  PROVE  Queue!Next
<1>1. PICK key : key = NewKey(delay)
  OBVIOUS
<1>2. m_events' = m_events \cup {key} /\ key.uid = m_uid /\ key.ts = m_currentTs + delay
  BY <1>1 DEF InsertNew, NewKey
<1>3. key \in EventKeys
  BY <1>2 DEF TypeOK
<1>4. key.ts >= m_currentTs
  BY <1>2, SimulatorAssumption DEF IInv, ListInv
<1>5. \A k \in m_events : k.uid # key.uid
  BY <1>2 DEF IInv, ListInv, Made
<1>6. Queue!Insert(key)
  BY <1>2, <1>4, <1>5 DEF Queue!Insert, clockVars
<1> QED
  BY <1>3, <1>6 DEF Queue!Next, EventKeys, Queue!EventKeys

LEMMA QueueNext ==
  ASSUME TypeOK, ProcessOneEvent
  PROVE  Queue!Next
<1>1. PICK next \in m_events :
        /\ Earliest(next) /\ m_events' = m_events \ {next}
        /\ m_currentTs' = next.ts /\ m_currentUid' = next.uid
  BY DEF ProcessOneEvent
<1>2. next \in EventKeys
  BY <1>1 DEF TypeOK
<1>3. [ts |-> m_currentTs', uid |-> m_currentUid'] = next
  BY <1>1, <1>2 DEF EventKeys
<1>4. Queue!RemoveNext(next)
  BY <1>1, <1>3 DEF Queue!RemoveNext, Earliest, Less, Queue!Less
<1> QED
  BY <1>2, <1>4 DEF Queue!Next, EventKeys, Queue!EventKeys

LEMMA QueueRemove ==
  ASSUME TypeOK, NEW id \in m_events, m_events' = m_events \ {id}, UNCHANGED clockVars
  PROVE  Queue!Next
<1>1. id \in EventKeys
  BY DEF TypeOK
<1>2. Queue!Remove(id)
  BY DEF Queue!Remove, clockVars
<1> QED
  BY <1>1, <1>2 DEF Queue!Next, EventKeys, Queue!EventKeys

LEMMA QueueStep ==
  IInv /\ TypeOK /\ TypeOK' /\ [Next]_simVars => [Queue!Next]_(Queue!queueVars)
<1> SUFFICES ASSUME IInv, TypeOK, TypeOK', [Next]_simVars
             PROVE  Queue!Next \/ UNCHANGED Queue!queueVars
  OBVIOUS
<1>0. LoopInv /\ ListInv /\ IdInv /\ PostInv
  BY DEF IInv, PostInv
<1>1. CASE Idle
  BY <1>1 DEF Idle, Queue!queueVars, clockVars
<1>2. ASSUME NEW delay \in 0 .. MaxDelay,
             Schedule(delay) \/ ScheduleWithContext(delay) \/ Stop(delay)
      PROVE  Queue!Next
  BY <1>2, QueueInsert DEF Schedule, ScheduleWithContext, Stop
<1>3. CASE Drain
  <2>1. CASE swapped = <<>>
    BY <1>3, <2>1 DEF Drain, Queue!queueVars, eventVars, clockVars
  <2>2. CASE swapped # <<>>
    <3>1. PICK delay \in 0 .. MaxDelay : InsertNew(delay)
      BY <1>0, <1>3, <2>2, DrainedPost
    <3>2. UNCHANGED clockVars
      BY <1>3 DEF Drain
    <3> QED
      BY <3>1, <3>2, QueueInsert
  <2> QED
    BY <2>1, <2>2
<1>4. CASE ProcessOneEvent
  BY <1>4, QueueNext
<1>5. ASSUME NEW id \in ids, Cancel(id) \/ Remove(id)
      PROVE  Queue!Next \/ UNCHANGED Queue!queueVars
  <2>1. id \in m_events
    BY <1>0, <1>5, CallingInLoop, ExpiredOrWaiting DEF Cancel, Remove
  <2>2. CASE Cancel(id)
    BY <2>2 DEF Cancel, Queue!queueVars, eventVars, clockVars
  <2>3. CASE Remove(id)
    BY <2>1, <2>3, QueueRemove DEF Remove
  <2> QED
    BY <1>5, <2>2, <2>3
<1>6. CASE DoDispose
  <2>1. CASE m_events = {}
    BY <1>6, <2>1 DEF DoDispose, Queue!queueVars, clockVars
  <2>2. CASE m_events # {}
    <3>1. PICK next \in m_events : m_events' = m_events \ {next}
      BY <1>6, <2>2 DEF DoDispose
    <3>2. UNCHANGED clockVars
      BY <1>6 DEF DoDispose
    <3> QED
      BY <3>1, <3>2, QueueRemove
  <2> QED
    BY <2>1, <2>2
<1> QED
  BY <1>0, <1>1, <1>2, <1>3, <1>4, <1>5, <1>6, IdleSteps DEF Next, Call, MainThread

\* The kernel uses its event list as EventQueue allows, so nothing is ever put
\* before the time reached and the assertion of ProcessOneEvent holds.
THEOREM ImplementsQueue == Spec => QueueSpec
<1>1. Init => Queue!Init
  BY DEF Init, Queue!Init, Queue!Start
<1>2. IInv /\ TypeOK /\ TypeOK' /\ [Next]_simVars => [Queue!Next]_(Queue!queueVars)
  BY QueueStep
<1> QED
  BY <1>1, <1>2, Correct, TypeCorrect, PTL DEF Spec, QueueSpec, Queue!Spec
=============================================================================
