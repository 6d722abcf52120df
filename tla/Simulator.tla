----------------------------- MODULE Simulator -----------------------------
(***************************************************************************)
(* The event loop of ns-3 (default-simulator-impl.cc): the main thread     *)
(* runs the events in the order of their keys, an event's code may         *)
(* schedule, cancel and remove others and stop the loop, and other threads *)
(* post events through a list that only a mutex protects.  The event list  *)
(* is the set EventQueue describes; contexts and what events do to the     *)
(* simulated network are left out.                                         *)
(***************************************************************************)
EXTENDS EventKey, Sequences, FiniteSets

CONSTANTS
  Threads,      \* the threads other than the main one
  MaxPosts,     \* posts of each of them
  MaxDelay,     \* longest delay asked for
  MaxDestroy    \* destroy events scheduled

ASSUME SimulatorAssumption ==
  /\ IsFiniteSet(Threads)
  /\ MaxPosts \in Nat /\ MaxDelay \in Nat /\ MaxDestroy \in Nat
  /\ MaxTs >= MaxUid * MaxDelay                          \* no key is cut off
  /\ Cardinality(Threads \X (1 .. MaxPosts)) <= MaxUid   \* a uid for every post

VARIABLES
  pc,                         \* where the main thread is
  resume,                     \* where ProcessEventsWithContext returns to
  m_events,                   \* keys of the event list
  m_currentTs, m_currentUid, m_uid,
  m_unscheduledEvents,
  m_stop,
  cancelled,                  \* keys of the events whose m_cancel is set
  ids,                        \* keys whose EventId the program was given
  stops,                      \* keys of the events Stop(delay) scheduled
  m_eventsWithContext,        \* posts waiting: <<thread, number of the post>>
  m_eventsWithContextEmpty,
  poster,                     \* threads inside the mutex
  swapped,                    \* the local list of ProcessEventsWithContext
  m_destroyEvents,            \* destroy events, numbered in the order of the calls
  destroyCalls,               \* how many there were (history)
  destroyCancelled,           \* those cancelled or removed
  ran,                        \* keys of the events notified (history)
  posts,                      \* delay and key of each thread's posts (history)
  destroyed                   \* destroy events notified (history)

eventVars == <<m_events, m_uid, m_unscheduledEvents>>
clockVars == <<m_currentTs, m_currentUid>>
idVars == <<cancelled, ids, stops, ran>>
postVars == <<m_eventsWithContext, m_eventsWithContextEmpty, poster, swapped, posts>>
destroyVars == <<m_destroyEvents, destroyCalls, destroyCancelled, destroyed>>
simVars == <<pc, resume, eventVars, clockVars, m_stop, idVars, postVars, destroyVars>>

NoKey == [ts |-> 0, uid |-> 0]
Places == {"idle", "check", "swap", "drain", "loop", "event",
           "destroy", "destroyEvent", "dispose", "gone"}

Init ==
  /\ pc = "idle" /\ resume = "loop"
  /\ m_events = {} /\ m_unscheduledEvents = 0
  /\ m_currentTs = 0 /\ m_currentUid = 0 /\ m_uid = 1
  /\ m_stop = FALSE
  /\ cancelled = {} /\ ids = {} /\ stops = {} /\ ran = {}
  /\ m_eventsWithContext = <<>> /\ m_eventsWithContextEmpty = TRUE
  /\ poster = {} /\ swapped = <<>>
  /\ posts = [t \in Threads |-> <<>>]
  /\ m_destroyEvents = <<>> /\ destroyCalls = 0 /\ destroyCancelled = {} /\ destroyed = <<>>

----------------------------------------------------------------------------
(* What the program may call: before and after Run, and from its events.   *)

Calling == pc \in {"idle", "event", "destroyEvent"}

\* Bound: a uid is kept for every post to come.
InList(t, n) == n \in DOMAIN posts[t] /\ posts[t][n].key # NoKey
PostsToCome == Cardinality({p \in Threads \X (1 .. MaxPosts) : ~InList(p[1], p[2])})
Room == m_uid + PostsToCome <= MaxUid

InsertNew(delay) ==
  /\ m_events' = m_events \cup {[ts |-> m_currentTs + delay, uid |-> m_uid]}
  /\ m_uid' = m_uid + 1
  /\ m_unscheduledEvents' = m_unscheduledEvents + 1

Schedule(delay) ==
  /\ Calling /\ Room
  /\ InsertNew(delay)
  /\ ids' = ids \cup {[ts |-> m_currentTs + delay, uid |-> m_uid]}
  /\ UNCHANGED <<pc, resume, clockVars, m_stop, cancelled, stops, ran, postVars, destroyVars>>

\* The main thread's branch: inserted at once, and no EventId is returned.
ScheduleWithContext(delay) ==
  /\ Calling /\ Room
  /\ InsertNew(delay)
  /\ UNCHANGED <<pc, resume, clockVars, m_stop, idVars, postVars, destroyVars>>

StopNow ==
  /\ Calling
  /\ m_stop' = TRUE
  /\ UNCHANGED <<pc, resume, eventVars, clockVars, idVars, postVars, destroyVars>>

Stop(delay) ==
  /\ Calling /\ Room
  /\ InsertNew(delay)
  /\ LET id == [ts |-> m_currentTs + delay, uid |-> m_uid]
     IN ids' = ids \cup {id} /\ stops' = stops \cup {id}
  /\ UNCHANGED <<pc, resume, clockVars, m_stop, cancelled, ran, postVars, destroyVars>>

\* Mutant: an event at the current time has not expired.
IsExpiredLate(id) == id.ts < m_currentTs \/ id \in cancelled

IsExpired(id) ==
  \/ id.ts < m_currentTs
  \/ id.ts = m_currentTs /\ id.uid <= m_currentUid
  \/ id \in cancelled

\* Mutant: Cancel does not ask whether the event has expired.
CancelAlways(id) ==
  /\ Calling
  /\ cancelled' = cancelled \cup {id}
  /\ UNCHANGED <<pc, resume, eventVars, clockVars, m_stop, ids, stops, ran, postVars, destroyVars>>

Cancel(id) ==
  /\ Calling /\ ~IsExpired(id)
  /\ cancelled' = cancelled \cup {id}
  /\ UNCHANGED <<pc, resume, eventVars, clockVars, m_stop, ids, stops, ran, postVars, destroyVars>>

\* Mutant: the count of events is left alone.
RemoveUncounted(id) ==
  /\ Calling /\ ~IsExpired(id)
  /\ m_events' = m_events \ {id}
  /\ cancelled' = cancelled \cup {id}
  /\ UNCHANGED <<pc, resume, m_uid, m_unscheduledEvents, clockVars, m_stop, ids, stops, ran,
                 postVars, destroyVars>>

Remove(id) ==
  /\ Calling /\ ~IsExpired(id)
  /\ m_events' = m_events \ {id}
  /\ cancelled' = cancelled \cup {id}
  /\ m_unscheduledEvents' = m_unscheduledEvents - 1
  /\ UNCHANGED <<pc, resume, m_uid, clockVars, m_stop, ids, stops, ran, postVars, destroyVars>>

\* Mutant: the latest destroy event comes first.
ScheduleDestroyFirst ==
  /\ Calling /\ Room /\ destroyCalls < MaxDestroy
  /\ m_destroyEvents' = <<destroyCalls + 1>> \o m_destroyEvents
  /\ destroyCalls' = destroyCalls + 1
  /\ m_uid' = m_uid + 1
  /\ UNCHANGED <<pc, resume, m_events, m_unscheduledEvents, clockVars, m_stop, idVars, postVars,
                 destroyCancelled, destroyed>>

\* All destroy events carry the uid 2; a uid is used up all the same.
ScheduleDestroy ==
  /\ Calling /\ Room /\ destroyCalls < MaxDestroy
  /\ m_destroyEvents' = Append(m_destroyEvents, destroyCalls + 1)
  /\ destroyCalls' = destroyCalls + 1
  /\ m_uid' = m_uid + 1
  /\ UNCHANGED <<pc, resume, m_events, m_unscheduledEvents, clockVars, m_stop, idVars, postVars,
                 destroyCancelled, destroyed>>

DestroyPending(d) == \E i \in DOMAIN m_destroyEvents : m_destroyEvents[i] = d

CancelDestroy(d) ==
  /\ Calling /\ DestroyPending(d) /\ d \notin destroyCancelled
  /\ destroyCancelled' = destroyCancelled \cup {d}
  /\ UNCHANGED <<pc, resume, eventVars, clockVars, m_stop, idVars, postVars,
                 m_destroyEvents, destroyCalls, destroyed>>

\* Found by EventId in the list; not marked as cancelled.
RemoveDestroy(d) ==
  /\ Calling
  /\ \E i \in DOMAIN m_destroyEvents :
       /\ m_destroyEvents[i] = d
       /\ m_destroyEvents' = SubSeq(m_destroyEvents, 1, i - 1)
                              \o SubSeq(m_destroyEvents, i + 1, Len(m_destroyEvents))
  /\ UNCHANGED <<pc, resume, eventVars, clockVars, m_stop, idVars, postVars,
                 destroyCalls, destroyCancelled, destroyed>>

----------------------------------------------------------------------------
(* ScheduleWithContext of another thread: in two steps, because the main   *)
(* thread reads the flag without the mutex.                                *)

Post(t, delay) ==
  /\ poster = {} /\ Len(posts[t]) < MaxPosts
  /\ poster' = {t}
  /\ posts' = [posts EXCEPT ![t] = Append(@, [delay |-> delay, key |-> NoKey])]
  /\ m_eventsWithContext' = Append(m_eventsWithContext, <<t, Len(posts[t]) + 1>>)
  /\ UNCHANGED <<pc, resume, eventVars, clockVars, m_stop, idVars, m_eventsWithContextEmpty,
                 swapped, destroyVars>>

\* Mutant: the flag is left alone.
AnnounceNot(t) ==
  /\ t \in poster
  /\ poster' = {}
  /\ UNCHANGED <<pc, resume, eventVars, clockVars, m_stop, idVars, m_eventsWithContext,
                 m_eventsWithContextEmpty, swapped, posts, destroyVars>>

Announce(t) ==
  /\ t \in poster
  /\ m_eventsWithContextEmpty' = FALSE
  /\ poster' = {}
  /\ UNCHANGED <<pc, resume, eventVars, clockVars, m_stop, idVars, m_eventsWithContext,
                 swapped, posts, destroyVars>>

----------------------------------------------------------------------------
(* ProcessEventsWithContext                                                *)

\* The flag is a plain bool: with a post there, the read may still see the
\* value of before.
Check ==
  /\ pc = "check"
  /\ \/ /\ m_eventsWithContextEmpty \/ m_eventsWithContext # <<>>
        /\ pc' = resume
     \/ ~m_eventsWithContextEmpty /\ pc' = "swap"
  /\ UNCHANGED <<resume, eventVars, clockVars, m_stop, idVars, postVars, destroyVars>>

\* Mutant: the list taken is read from the end.
SwapReversed ==
  /\ pc = "swap" /\ poster = {}
  /\ LET n == Len(m_eventsWithContext)
     IN swapped' = [i \in 1 .. n |-> m_eventsWithContext[n + 1 - i]]
  /\ m_eventsWithContext' = <<>>
  /\ m_eventsWithContextEmpty' = TRUE
  /\ pc' = "drain"
  /\ UNCHANGED <<resume, eventVars, clockVars, m_stop, idVars, poster, posts, destroyVars>>

\* Mutant: the list is copied, and cleared only by the next one.
SwapCopy ==
  /\ pc = "swap" /\ poster = {}
  /\ swapped' = m_eventsWithContext
  /\ m_eventsWithContextEmpty' = TRUE
  /\ pc' = "drain"
  /\ UNCHANGED <<resume, eventVars, clockVars, m_stop, idVars, m_eventsWithContext, poster, posts,
                 destroyVars>>

Swap ==
  /\ pc = "swap" /\ poster = {}
  /\ swapped' = m_eventsWithContext
  /\ m_eventsWithContext' = <<>>
  /\ m_eventsWithContextEmpty' = TRUE
  /\ pc' = "drain"
  /\ UNCHANGED <<resume, eventVars, clockVars, m_stop, idVars, poster, posts, destroyVars>>

\* The delay counts from the time of the drain.
Drain ==
  /\ pc = "drain"
  /\ IF swapped = <<>>
     THEN pc' = resume /\ UNCHANGED <<eventVars, swapped, posts>>
     ELSE LET t == Head(swapped)[1]
              n == Head(swapped)[2]
              delay == posts[t][n].delay
          IN /\ InsertNew(delay)
             /\ posts' = [posts EXCEPT ![t][n].key =
                            [ts |-> m_currentTs + delay, uid |-> m_uid]]
             /\ swapped' = Tail(swapped)
             /\ UNCHANGED pc
  /\ UNCHANGED <<resume, clockVars, m_stop, idVars, m_eventsWithContext,
                 m_eventsWithContextEmpty, poster, destroyVars>>

----------------------------------------------------------------------------
(* Run and Destroy                                                         *)

\* m_stop is reset after the drain, which does not read it.
Run ==
  /\ pc = "idle"
  /\ pc' = "check" /\ resume' = "loop"
  /\ m_stop' = FALSE
  /\ UNCHANGED <<eventVars, clockVars, idVars, postVars, destroyVars>>

Earliest(k) == k \in m_events /\ \A other \in m_events \ {k} : Less(k, other)

\* Mutant: of the events due now, any one is taken.
ProcessAny ==
  /\ pc = "loop" /\ ~m_stop
  /\ \E next \in {k \in m_events : \A other \in m_events : k.ts <= other.ts} :
       /\ m_events' = m_events \ {next}
       /\ m_currentTs' = next.ts /\ m_currentUid' = next.uid
       /\ ran' = IF next \in cancelled THEN ran ELSE ran \cup {next}
       /\ pc' = IF next \in cancelled \cup stops THEN "check" ELSE "event"
       /\ m_stop' = (next \in stops \ cancelled)
  /\ m_unscheduledEvents' = m_unscheduledEvents - 1
  /\ UNCHANGED <<resume, m_uid, cancelled, ids, stops, postVars, destroyVars>>

\* The next event is taken and, unless it was cancelled, notified: a Stop event
\* only stops the loop, any other one may call the simulator.
ProcessOneEvent ==
  /\ pc = "loop" /\ ~m_stop
  /\ \E next \in m_events :
       /\ Earliest(next)
       /\ m_events' = m_events \ {next}
       /\ m_currentTs' = next.ts /\ m_currentUid' = next.uid
       /\ ran' = IF next \in cancelled THEN ran ELSE ran \cup {next}
       /\ pc' = IF next \in cancelled \cup stops THEN "check" ELSE "event"
       /\ m_stop' = (next \in stops \ cancelled)
  /\ m_unscheduledEvents' = m_unscheduledEvents - 1
  /\ UNCHANGED <<resume, m_uid, cancelled, ids, stops, postVars, destroyVars>>

EventReturns ==
  /\ pc = "event"
  /\ pc' = "check"
  /\ UNCHANGED <<resume, eventVars, clockVars, m_stop, idVars, postVars, destroyVars>>

RunReturns ==
  /\ pc = "loop" /\ (m_events = {} \/ m_stop)
  /\ pc' = "idle"
  /\ UNCHANGED <<resume, eventVars, clockVars, m_stop, idVars, postVars, destroyVars>>

Destroy ==
  /\ pc = "idle"
  /\ pc' = "destroy"
  /\ UNCHANGED <<resume, eventVars, clockVars, m_stop, idVars, postVars, destroyVars>>

\* Those scheduled by a destroy event are run as well.
DestroyOneEvent ==
  /\ pc = "destroy" /\ m_destroyEvents # <<>>
  /\ LET d == Head(m_destroyEvents) IN
       IF d \in destroyCancelled THEN UNCHANGED <<pc, destroyed>>
       ELSE pc' = "destroyEvent" /\ destroyed' = Append(destroyed, d)
  /\ m_destroyEvents' = Tail(m_destroyEvents)
  /\ UNCHANGED <<resume, eventVars, clockVars, m_stop, idVars, postVars, destroyCalls,
                 destroyCancelled>>

DestroyEventReturns ==
  /\ pc = "destroyEvent"
  /\ pc' = "destroy"
  /\ UNCHANGED <<resume, eventVars, clockVars, m_stop, idVars, postVars, destroyVars>>

\* DoDispose: posts are drained once more, then the list is emptied.
DestroyDone ==
  /\ pc = "destroy" /\ m_destroyEvents = <<>>
  /\ pc' = "check" /\ resume' = "dispose"
  /\ UNCHANGED <<eventVars, clockVars, m_stop, idVars, postVars, destroyVars>>

DoDispose ==
  /\ pc = "dispose"
  /\ IF m_events = {} THEN pc' = "gone" /\ UNCHANGED m_events
     ELSE /\ \E next \in m_events : Earliest(next) /\ m_events' = m_events \ {next}
          /\ UNCHANGED pc
  /\ UNCHANGED <<resume, m_uid, m_unscheduledEvents, clockVars, m_stop, idVars, postVars,
                 destroyVars>>

----------------------------------------------------------------------------
Call ==
  \/ \E delay \in 0 .. MaxDelay : Schedule(delay) \/ ScheduleWithContext(delay) \/ Stop(delay)
  \/ StopNow
  \/ \E id \in ids : Cancel(id) \/ Remove(id)
  \/ ScheduleDestroy
  \/ \E d \in 1 .. destroyCalls : CancelDestroy(d) \/ RemoveDestroy(d)

\* The other threads end before the simulator is destroyed.
OtherThreads ==
  /\ pc \notin {"destroy", "destroyEvent", "dispose", "gone"}
  /\ \E t \in Threads : Announce(t) \/ \E delay \in 0 .. MaxDelay : Post(t, delay)

MainThread ==
  \/ Check \/ Swap \/ Drain
  \/ Run \/ ProcessOneEvent \/ EventReturns \/ RunReturns
  \/ Destroy /\ poster = {}
  \/ DestroyOneEvent \/ DestroyEventReturns \/ DestroyDone \/ DoDispose

Next == Call \/ OtherThreads \/ MainThread

Spec == Init /\ [][Next]_simVars

----------------------------------------------------------------------------
TypeOK ==
  /\ pc \in Places /\ resume \in {"loop", "dispose"}
  /\ m_events \subseteq EventKeys /\ m_unscheduledEvents \in Nat
  /\ m_currentTs \in Nat /\ m_currentUid \in Nat /\ m_uid \in Nat
  /\ m_stop \in BOOLEAN
  /\ cancelled \subseteq ids /\ ids \subseteq EventKeys /\ stops \subseteq ids
  /\ ran \subseteq EventKeys
  /\ m_eventsWithContext \in Seq(Threads \X Nat) /\ swapped \in Seq(Threads \X Nat)
  /\ m_eventsWithContextEmpty \in BOOLEAN /\ poster \subseteq Threads
  /\ posts \in [Threads -> Seq([delay : Nat, key : EventKeys])]
  /\ m_destroyEvents \in Seq(Nat) /\ destroyCalls \in 0 .. MaxDestroy
  /\ destroyCancelled \subseteq 1 .. destroyCalls /\ destroyed \in Seq(Nat)

\* m_unscheduledEvents counts the events in the list, whatever the mix of calls
\* and posts, so the assertion at the end of Run holds.
CountAgrees == resume = "loop" => m_unscheduledEvents = Cardinality(m_events)

\* IsExpired, which looks at the clock and a flag only, says exactly whether the
\* event is still in the list and will run.  (Until DoDispose empties the list.)
ExpiryIsExact ==
  resume = "loop" => \A id \in ids : IsExpired(id) <=> id \notin m_events \ cancelled

\* What was cancelled or removed never ran and never runs: Cancel and Remove of
\* an event that has started do nothing.
CancelledNeverRuns == ran \cap cancelled = {}

\* Each post of another thread is at every moment in exactly one place: waiting,
\* being drained, in the event list under a key of its own, or past.
PostsNeitherLostNorDoubled ==
  /\ \A t \in Threads : \A n \in DOMAIN posts[t] :
       LET waiting == {i \in DOMAIN m_eventsWithContext : m_eventsWithContext[i] = <<t, n>>}
           draining == {i \in DOMAIN swapped : swapped[i] = <<t, n>>}
       IN Cardinality(waiting) + Cardinality(draining)
            = IF posts[t][n].key = NoKey THEN 1 ELSE 0
  /\ \A t \in Threads : \A n \in DOMAIN posts[t] :
       LET key == posts[t][n].key
       IN (key # NoKey /\ resume = "loop") => (key \in m_events <=> key \notin ran)

\* A post that waits is announced by the flag once its thread has left the mutex.
WaitingPostsAreAnnounced ==
  (m_eventsWithContext # <<>> /\ poster = {}) => ~m_eventsWithContextEmpty

\* Two posts of a thread keep their order unless the second asks for a shorter delay.
PostsInOrder ==
  \A t \in Threads : \A i, j \in DOMAIN posts[t] :
    ( /\ i < j
      /\ posts[t][i].delay <= posts[t][j].delay
      /\ posts[t][j].key # NoKey )
    => (posts[t][i].key # NoKey /\ Less(posts[t][i].key, posts[t][j].key))

\* Destroy events run in the order they were scheduled in, those scheduled by
\* other destroy events included; a cancelled one never does.
DestroyInOrder ==
  /\ \A i, j \in DOMAIN destroyed : i < j => destroyed[i] < destroyed[j]
  /\ \A i \in DOMAIN destroyed : destroyed[i] \notin destroyCancelled
  /\ pc = "gone" => m_destroyEvents = <<>>

\* The event list is used as EventQueue allows: nothing is inserted in the past
\* (the assertion of ProcessOneEvent) and events run in the order of their keys.
Queue == INSTANCE EventQueue
           WITH queue <- m_events, last <- [ts |-> m_currentTs, uid |-> m_currentUid]

QueueSpec == Queue!Spec
=============================================================================
