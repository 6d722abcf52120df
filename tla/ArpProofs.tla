----------------------------- MODULE ArpProofs -----------------------------
(***************************************************************************)
(* Theorems about Arp, for any set of hosts and any timeouts, retries,     *)
(* queue sizes and bounds.                                                 *)
(***************************************************************************)
EXTENDS Arp, FiniteSetTheorems, TLAPS

LEMMA AgeBounds ==
  /\ Oldest \in Nat /\ 0 \in 0 .. Oldest /\ 0 \in 0 .. m_maxRetries
  /\ m_waitReplyTimeout < Oldest
  /\ <<>> \in Seq(1 .. MaxPackets)
BY ArpAssumption DEF Oldest

LEMMA EntryParts ==
  ASSUME NEW e \in EntryTypes
  PROVE  /\ e.state \in States \cup {"none"} /\ e.age \in 0 .. Oldest
         /\ e.retries \in 0 .. m_maxRetries /\ e.pending \in Seq(1 .. MaxPackets)
         /\ e = [state |-> e.state, age |-> e.age, retries |-> e.retries, pending |-> e.pending]
BY DEF EntryTypes

LEMMA NoEntryType == NoEntry \in EntryTypes
BY AgeBounds DEF EntryTypes, NoEntry, States

LEMMA DeadType == Dead \in EntryTypes
BY AgeBounds DEF EntryTypes, Dead, States

LEMMA AskedAgainType ==
  ASSUME TypeOK, NEW h \in Again
  PROVE  AskedAgain(cache[h]) \in EntryTypes
<1>1. cache[h] \in EntryTypes /\ cache[h].retries < m_maxRetries
  BY DEF TypeOK, Again
<1>2. cache[h].retries + 1 \in 0 .. m_maxRetries
  BY <1>1, EntryParts, ArpAssumption
<1> QED
  BY <1>1, <1>2, AgeBounds DEF AskedAgain, EntryTypes

LEMMA JitterType ==
  ASSUME TypeOK, NEW h \in Hosts, NEW j \in 0 .. MaxJitter
  PROVE  [jittered EXCEPT ![h][j] = @ + 1] \in [Hosts -> [0 .. MaxJitter -> Nat]]
<1>1. jittered \in [Hosts -> [0 .. MaxJitter -> Nat]]
  BY DEF TypeOK
<1>2. jittered[h] \in [0 .. MaxJitter -> Nat]
  BY <1>1
<1>3. jittered[h][j] + 1 \in Nat
  <2>1. jittered[h][j] \in Nat
    BY <1>2
  <2> QED
    BY <2>1
<1>4. [jittered[h] EXCEPT ![j] = jittered[h][j] + 1] \in [0 .. MaxJitter -> Nat]
  BY <1>2, <1>3
<1> QED
  BY <1>1, <1>4

LEMMA RangeOfSeq ==
  ASSUME NEW S, NEW q \in Seq(S)
  PROVE  Range(q) \subseteq S
BY DEF Range

LEMMA PendingRange ==
  ASSUME TypeOK, NEW h \in Hosts
  PROVE  Range(cache[h].pending) \subseteq 1 .. MaxPackets
<1>1. cache[h].pending \in Seq(1 .. MaxPackets)
  BY EntryParts DEF TypeOK
<1> QED
  BY <1>1, RangeOfSeq

----------------------------------------------------------------------------
(* Type correctness                                                        *)

LEMMA InitType == Init => TypeOK
BY NoEntryType, ArpAssumption DEF Init, TypeOK, NotRunning

LEMMA LookupType ==
  ASSUME TypeOK, NEW h \in Hosts, Lookup(h)
  PROVE  TypeOK'
<1> DEFINE entry == cache[h]
           n == handed[h] + 1
<1>1. n \in 1 .. MaxPackets /\ handed' = [handed EXCEPT ![h] = n]
  BY ArpAssumption DEF Lookup, TypeOK
<1>2. /\ handed' \in [Hosts -> 0 .. MaxPackets]
      /\ requests' \in [Hosts -> Nat] /\ replies' \in [Hosts -> Nat]
      /\ flushes' \in 0 .. MaxFlushes
  BY <1>1, ArpAssumption DEF Lookup, TypeOK
<1>3. entry \in EntryTypes /\ entry.pending \in Seq(1 .. MaxPackets)
  BY EntryParts DEF TypeOK
<1>4. Append(entry.pending, n) \in Seq(1 .. MaxPackets)
  BY <1>1, <1>3
<1>5. CASE MarkWaitReply(h, n)
  <2>1. cache' = [cache EXCEPT ![h] = [state |-> "WAIT_REPLY", age |-> 0,
                    retries |-> entry.retries, pending |-> Append(entry.pending, n)]]
    BY <1>5 DEF MarkWaitReply
  <2>2. cache' \in [Hosts -> EntryTypes]
    <3>1. [state |-> "WAIT_REPLY", age |-> 0, retries |-> entry.retries,
           pending |-> Append(entry.pending, n)] \in EntryTypes
      BY <1>3, <1>4, EntryParts, AgeBounds DEF EntryTypes, States
    <3> QED
      BY <2>1, <3>1 DEF TypeOK
  <2>3. m_waitReplyTimer' \in NotRunning .. m_waitReplyTimeout
    BY <1>5, ArpAssumption DEF MarkWaitReply, StartWaitReplyTimer, TypeOK, NotRunning
  <2>4. jittered' \in [Hosts -> [0 .. MaxJitter -> Nat]]
    <3>1. PICK j \in 0 .. MaxJitter : jittered' = [jittered EXCEPT ![h][j] = @ + 1]
      BY <1>5 DEF MarkWaitReply
    <3> QED
      BY <3>1, JitterType DEF TypeOK
  <2>5. sent' = sent /\ dropped' = dropped
    BY <1>5 DEF MarkWaitReply
  <2> QED
    BY <1>2, <2>2, <2>3, <2>4, <2>5 DEF TypeOK
<1>6. CASE /\ dropped' = [dropped EXCEPT ![h] = @ \cup {n}]
           /\ UNCHANGED <<cache, m_waitReplyTimer, jittered, sent>>
  BY <1>1, <1>2, <1>6 DEF TypeOK
<1>7. CASE /\ sent' = [sent EXCEPT ![h] = Append(@, n)]
           /\ UNCHANGED <<cache, m_waitReplyTimer, jittered, dropped>>
  <2>1. Append(sent[h], n) \in Seq(1 .. MaxPackets)
    BY <1>1 DEF TypeOK
  <2>2. sent' \in [Hosts -> Seq(1 .. MaxPackets)]
    BY <1>7, <2>1 DEF TypeOK
  <2> QED
    BY <1>2, <1>7, <2>2 DEF TypeOK
<1>8. CASE UpdateWaitReply(h, n)
  <2>1. CASE /\ cache' = [cache EXCEPT ![h].pending = Append(@, n)]
             /\ UNCHANGED <<m_waitReplyTimer, jittered, sent, dropped>>
    <3>2. [entry EXCEPT !.pending = Append(@, n)] \in EntryTypes
      BY <1>3, <1>4 DEF EntryTypes
    <3>3. cache' = [cache EXCEPT ![h] = [entry EXCEPT !.pending = Append(@, n)]]
      BY <2>1
    <3>4. cache' \in [Hosts -> EntryTypes]
      BY <3>2, <3>3 DEF TypeOK
    <3> QED
      BY <1>2, <2>1, <3>4 DEF TypeOK
  <2> QED
    BY <1>6, <1>8, <2>1 DEF UpdateWaitReply
<1> QED
  BY <1>5, <1>6, <1>7, <1>8 DEF Lookup

LEMMA TimeoutType ==
  ASSUME TypeOK, HandleWaitReplyTimeout
  PROVE  TypeOK'
<1>1. cache' \in [Hosts -> EntryTypes]
  <2>1. \A h \in Again : AskedAgain(cache[h]) \in EntryTypes
    BY AskedAgainType
  <2>2. \A h \in Hosts : cache[h] \in EntryTypes
    BY DEF TypeOK
  <2> QED
    BY <2>1, <2>2, DeadType DEF HandleWaitReplyTimeout
<1>2. requests' \in [Hosts -> Nat]
  BY DEF HandleWaitReplyTimeout, TypeOK
<1>3. m_waitReplyTimer' \in NotRunning .. m_waitReplyTimeout
  BY ArpAssumption DEF HandleWaitReplyTimeout, NotRunning
<1>4. dropped' \in [Hosts -> SUBSET (1 .. MaxPackets)]
  <2>1. \A h \in Hosts : Range(cache[h].pending) \subseteq 1 .. MaxPackets
    BY PendingRange
  <2> QED
    BY <2>1 DEF HandleWaitReplyTimeout, TypeOK
<1> QED
  BY <1>1, <1>2, <1>3, <1>4 DEF HandleWaitReplyTimeout, TypeOK

LEMMA TickType ==
  ASSUME TypeOK, Tick
  PROVE  TypeOK'
<1>1. cache' \in [Hosts -> EntryTypes]
  <2>1. ASSUME NEW h \in Hosts, cache[h].age # Oldest
        PROVE  [cache[h] EXCEPT !.age = @ + 1] \in EntryTypes
    <3>1. cache[h] \in EntryTypes
      BY DEF TypeOK
    <3>2. cache[h].age + 1 \in 0 .. Oldest
      BY <2>1, <3>1, EntryParts, AgeBounds
    <3> QED
      BY <3>1, <3>2 DEF EntryTypes
  <2>2. \A h \in Hosts : cache[h] \in EntryTypes
    BY DEF TypeOK
  <2> QED
    BY <2>1, <2>2 DEF Tick
<1>2. m_waitReplyTimer' \in NotRunning .. m_waitReplyTimeout
  BY ArpAssumption DEF Tick, TypeOK, NotRunning
<1>3. jittered' \in [Hosts -> [0 .. MaxJitter -> Nat]]
  <2>1. \A h \in Hosts : jittered[h] \in [0 .. MaxJitter -> Nat]
    BY DEF TypeOK
  <2>2. \A h \in Hosts, j \in 0 .. MaxJitter :
           (IF j < MaxJitter THEN jittered[h][j + 1] ELSE 0) \in Nat
    <3> SUFFICES ASSUME NEW h \in Hosts, NEW j \in 0 .. MaxJitter, j < MaxJitter
                 PROVE  jittered[h][j + 1] \in Nat
      OBVIOUS
    <3>1. j + 1 \in 0 .. MaxJitter
      BY ArpAssumption
    <3> QED
      BY <2>1, <3>1
  <2> QED
    BY <2>2 DEF Tick
<1> QED
  BY <1>1, <1>2, <1>3 DEF Tick, TypeOK

LEMMA ReceiveType ==
  ASSUME TypeOK, NEW h \in Hosts, Receive(h)
  PROVE  TypeOK'
<1>1. cache' \in [Hosts -> EntryTypes]
  <2>1. [state |-> "ALIVE", age |-> 0, retries |-> 0, pending |-> <<>>] \in EntryTypes
    BY AgeBounds DEF EntryTypes, States
  <2> QED
    BY <2>1 DEF Receive, TypeOK
<1>2. sent' \in [Hosts -> Seq(1 .. MaxPackets)]
  <2>1. cache[h].pending \in Seq(1 .. MaxPackets) /\ sent[h] \in Seq(1 .. MaxPackets)
    BY EntryParts DEF TypeOK
  <2>2. sent[h] \o cache[h].pending \in Seq(1 .. MaxPackets)
    BY <2>1
  <2> QED
    BY <2>2 DEF Receive, TypeOK
<1>3. replies' \in [Hosts -> Nat]
  BY DEF Receive, TypeOK
<1> QED
  BY <1>1, <1>2, <1>3 DEF Receive, TypeOK

LEMMA FlushType ==
  ASSUME TypeOK, Flush
  PROVE  TypeOK'
<1>1. \A h \in Hosts : Range(cache[h].pending) \subseteq 1 .. MaxPackets
  BY PendingRange
<1>2. dropped' \in [Hosts -> SUBSET (1 .. MaxPackets)]
  BY <1>1 DEF Flush, TypeOK
<1>3. cache' \in [Hosts -> EntryTypes]
  BY NoEntryType DEF Flush
<1>4. flushes' \in 0 .. MaxFlushes /\ NotRunning \in NotRunning .. m_waitReplyTimeout
  BY ArpAssumption DEF Flush, TypeOK, NotRunning
<1> QED
  BY <1>2, <1>3, <1>4 DEF Flush, TypeOK

LEMMA HelperType ==
  ASSUME TypeOK, NEW h \in Hosts, AddEntry(h) \/ RemoveEntry(h)
  PROVE  TypeOK'
<1>1. CASE AddEntry(h)
  <2>1. cache' \in [Hosts -> EntryTypes]
    <3>1. cache[h] \in EntryTypes
      BY DEF TypeOK
    <3>2. [[[cache[h] EXCEPT !.state = "STATIC_AUTOGENERATED"] EXCEPT !.age = 0] EXCEPT !.retries = 0]
            \in EntryTypes
      BY <3>1, AgeBounds DEF EntryTypes, States
    <3> QED
      BY <1>1, <3>2 DEF AddEntry, TypeOK
  <2> QED
    BY <1>1, <2>1 DEF AddEntry, TypeOK
<1>2. CASE RemoveEntry(h)
  <2>1. Range(cache[h].pending) \subseteq 1 .. MaxPackets
    BY PendingRange
  <2>2. dropped' \in [Hosts -> SUBSET (1 .. MaxPackets)]
    BY <1>2, <2>1 DEF RemoveEntry, TypeOK
  <2>3. cache' \in [Hosts -> EntryTypes]
    BY <1>2, NoEntryType DEF RemoveEntry, TypeOK
  <2> QED
    BY <1>2, <2>2, <2>3 DEF RemoveEntry, TypeOK
<1> QED
  BY <1>1, <1>2

LEMMA NextType == TypeOK /\ [NextWithHelper]_arpVars => TypeOK'
<1> SUFFICES ASSUME TypeOK, [NextWithHelper]_arpVars PROVE TypeOK'
  OBVIOUS
<1>0. ASSUME NEW h \in Hosts, SendArpRequest(h)
      PROVE  TypeOK'
  <2>1. jittered[h] \in [0 .. MaxJitter -> Nat] /\ 0 \in 0 .. MaxJitter
    BY ArpAssumption DEF TypeOK
  <2>2. jittered[h][0] \in Nat /\ jittered[h][0] > 0
    BY <1>0, <2>1 DEF SendArpRequest
  <2>3. jittered[h][0] - 1 \in Nat
    BY <2>2
  <2>4. [jittered[h] EXCEPT ![0] = jittered[h][0] - 1] \in [0 .. MaxJitter -> Nat]
    BY <2>1, <2>3
  <2>5. jittered' = [jittered EXCEPT ![h] = [jittered[h] EXCEPT ![0] = jittered[h][0] - 1]]
    BY <1>0 DEF SendArpRequest
  <2>6. jittered' \in [Hosts -> [0 .. MaxJitter -> Nat]]
    BY <2>4, <2>5 DEF TypeOK
  <2>7. requests' \in [Hosts -> Nat]
    BY <1>0 DEF SendArpRequest, TypeOK
  <2> QED
    BY <1>0, <2>6, <2>7 DEF SendArpRequest, TypeOK
<1>1. ASSUME NEW h \in Hosts,
             Answer(h) \/ LoseRequest(h) \/ LoseReply(h)
      PROVE  TypeOK'
  <2>1. \A f \in [Hosts -> Nat] : [f EXCEPT ![h] = @ + 1] \in [Hosts -> Nat]
    OBVIOUS
  <2>2. \A f \in [Hosts -> Nat] : f[h] > 0 => [f EXCEPT ![h] = @ - 1] \in [Hosts -> Nat]
    OBVIOUS
  <2>3. requests' \in [Hosts -> Nat] /\ replies' \in [Hosts -> Nat]
    BY <1>1, <2>1, <2>2 DEF Answer, LoseRequest, LoseReply, TypeOK
  <2> QED
    BY <1>1, <2>3 DEF Answer, LoseRequest, LoseReply, TypeOK
<1>2. CASE UNCHANGED arpVars
  BY <1>2 DEF arpVars, TypeOK
<1> QED
  BY <1>0, <1>1, <1>2, LookupType, TimeoutType, TickType, ReceiveType, FlushType, HelperType
     DEF NextWithHelper, Next

LEMMA HelperTypeCorrect == SpecWithHelper => []TypeOK
BY InitType, NextType, PTL DEF SpecWithHelper

LEMMA NextIsAllowed == Spec => SpecWithHelper
<1>1. [Next]_arpVars => [NextWithHelper]_arpVars
  BY DEF NextWithHelper
<1> QED
  BY <1>1, PTL DEF Spec, SpecWithHelper

\* Every variable keeps its type, with the neighbour helper at work or not: no
\* entry is asked for more than m_maxRetries times over.
THEOREM TypeCorrect == Spec => []TypeOK
BY HelperTypeCorrect, NextIsAllowed

----------------------------------------------------------------------------
(* The timer of the cache                                                  *)

LEMMA CoversInit == Init => TimerCoversWaiting
BY DEF Init, TimerCoversWaiting, IsWaitReply, NoEntry

\* Steps after which fewer entries wait, and none of them for longer.
LEMMA CoversFewer ==
  ASSUME TypeOK, TimerCoversWaiting, UNCHANGED m_waitReplyTimer,
         \A h \in Hosts : IsWaitReply(h)' => IsWaitReply(h) /\ cache'[h].age = cache[h].age
  PROVE  TimerCoversWaiting'
BY DEF TimerCoversWaiting

LEMMA CoversLookup ==
  ASSUME TypeOK, TimerCoversWaiting, NEW h \in Hosts, Lookup(h)
  PROVE  TimerCoversWaiting'
<1> DEFINE n == handed[h] + 1
<1>1. CASE MarkWaitReply(h, n)
  <2>1. m_waitReplyTimer' \in 0 .. m_waitReplyTimeout /\ m_waitReplyTimer' # NotRunning
    <3>1. StartWaitReplyTimer(h) /\ m_waitReplyTimer \in NotRunning .. m_waitReplyTimeout
      BY <1>1 DEF MarkWaitReply, TypeOK
    <3> QED
      BY <3>1, ArpAssumption DEF StartWaitReplyTimer, NotRunning
  <2>2. cache'[h].age = 0 /\ \A g \in Hosts \ {h} : cache'[g] = cache[g]
    BY <1>1 DEF MarkWaitReply, TypeOK
  <2>3. \A g \in Hosts : IsWaitReply(g) => m_waitReplyTimer' = m_waitReplyTimer
    BY <1>1 DEF MarkWaitReply, StartWaitReplyTimer, TimerCoversWaiting
  <2>4. ASSUME NEW g \in Hosts, IsWaitReply(g)'
        PROVE  /\ m_waitReplyTimer' # NotRunning
               /\ cache'[g].age + m_waitReplyTimer' <= m_waitReplyTimeout
    <3>1. CASE g = h
      BY <2>1, <2>2, <3>1, ArpAssumption
    <3>2. CASE g # h
      BY <2>1, <2>2, <2>3, <2>4, <3>2 DEF TimerCoversWaiting, IsWaitReply
    <3> QED
      BY <3>1, <3>2
  <2> QED
    BY <2>4 DEF TimerCoversWaiting
<1>2. CASE UNCHANGED <<cache, m_waitReplyTimer>>
  BY <1>2 DEF TimerCoversWaiting, IsWaitReply
<1>3. CASE UpdateWaitReply(h, n)
  <2>1. UNCHANGED m_waitReplyTimer
    BY <1>3 DEF UpdateWaitReply
  <2>2. CASE cache' = [cache EXCEPT ![h].pending = Append(@, n)]
    <3>1. cache[h] \in EntryTypes
      BY DEF TypeOK
    <3>2. \A g \in Hosts : cache'[g].state = cache[g].state /\ cache'[g].age = cache[g].age
      BY <2>2, <3>1 DEF TypeOK, EntryTypes
    <3> QED
      BY <2>1, <3>2, CoversFewer DEF IsWaitReply
  <2> QED
    BY <1>2, <1>3, <2>1, <2>2 DEF UpdateWaitReply
<1> QED
  BY <1>1, <1>2, <1>3 DEF Lookup

LEMMA CoversTimeout ==
  ASSUME TypeOK, TimerCoversWaiting, HandleWaitReplyTimeout
  PROVE  TimerCoversWaiting'
<1> SUFFICES ASSUME NEW h \in Hosts, IsWaitReply(h)'
             PROVE  /\ m_waitReplyTimer' # NotRunning
                    /\ cache'[h].age + m_waitReplyTimer' <= m_waitReplyTimeout
  BY DEF TimerCoversWaiting
<1>1. h \in Again
  <2>1. CASE h \in GivenUp
    BY <2>1 DEF HandleWaitReplyTimeout, IsWaitReply, Dead, GivenUp
  <2>2. CASE h \notin Again \cup GivenUp
    BY <2>2 DEF HandleWaitReplyTimeout, IsWaitReply, GivenUp
  <2> QED
    BY <2>1, <2>2
<1>2. cache[h] \in EntryTypes
  BY DEF TypeOK
<1>3. cache'[h].age = 0
  BY <1>1, <1>2 DEF HandleWaitReplyTimeout, AskedAgain, EntryTypes
<1>4. m_waitReplyTimer' = m_waitReplyTimeout
  BY <1>1 DEF HandleWaitReplyTimeout
<1> QED
  BY <1>3, <1>4, ArpAssumption DEF NotRunning

LEMMA CoversTick ==
  ASSUME TypeOK, TimerCoversWaiting, Tick
  PROVE  TimerCoversWaiting'
<1> SUFFICES ASSUME NEW h \in Hosts, IsWaitReply(h)'
             PROVE  /\ m_waitReplyTimer' # NotRunning
                    /\ cache'[h].age + m_waitReplyTimer' <= m_waitReplyTimeout
  BY DEF TimerCoversWaiting
<1>1. cache[h] \in EntryTypes /\ m_waitReplyTimer \in NotRunning .. m_waitReplyTimeout
  BY DEF TypeOK
<1>2. IsWaitReply(h)
  BY <1>1 DEF Tick, IsWaitReply, EntryTypes
<1>3. /\ m_waitReplyTimer # NotRunning
      /\ cache[h].age + m_waitReplyTimer <= m_waitReplyTimeout
  BY <1>2 DEF TimerCoversWaiting
<1>4. m_waitReplyTimer > 0 /\ m_waitReplyTimer' = m_waitReplyTimer - 1
  BY <1>1, <1>3, ArpAssumption DEF Tick, NotRunning
<1>5. cache[h].age \in Nat
  BY <1>1, EntryParts
<1>6. cache'[h].age \in {cache[h].age, cache[h].age + 1}
  BY <1>1 DEF Tick, EntryTypes
<1> QED
  BY <1>1, <1>3, <1>4, <1>5, <1>6, ArpAssumption DEF NotRunning

LEMMA CoversStep ==
  TypeOK /\ TimerCoversWaiting /\ [NextWithHelper]_arpVars => TimerCoversWaiting'
<1> SUFFICES ASSUME TypeOK, TimerCoversWaiting, [NextWithHelper]_arpVars
             PROVE  TimerCoversWaiting'
  OBVIOUS
<1>1. CASE UNCHANGED <<cache, m_waitReplyTimer>>
  BY <1>1 DEF TimerCoversWaiting, IsWaitReply
<1>2. ASSUME NEW h \in Hosts, Receive(h) \/ AddEntry(h)
      PROVE  TimerCoversWaiting'
  <2>1. \A g \in Hosts : cache[g] \in EntryTypes
    BY DEF TypeOK
  <2>2. \A g \in Hosts \ {h} : cache'[g] = cache[g]
    BY <1>2 DEF Receive, AddEntry, TypeOK
  <2>3. cache' = cache \/ cache'[h].state # "WAIT_REPLY"
    <3>1. CASE Receive(h)
      BY <3>1 DEF Receive, TypeOK
    <3>2. CASE AddEntry(h)
      <4>1. cache'[h] = [[[cache[h] EXCEPT !.state = "STATIC_AUTOGENERATED"]
                                   EXCEPT !.age = 0] EXCEPT !.retries = 0]
        BY <3>2 DEF AddEntry, TypeOK
      <4> QED
        BY <2>1, <4>1 DEF EntryTypes
    <3> QED
      BY <1>2, <3>1, <3>2
  <2>4. UNCHANGED m_waitReplyTimer
    BY <1>2 DEF Receive, AddEntry
  <2> QED
    BY <2>2, <2>3, <2>4, CoversFewer DEF IsWaitReply
<1>3. ASSUME NEW h \in Hosts, RemoveEntry(h)
      PROVE  TimerCoversWaiting'
  <2>1. cache'[h].state # "WAIT_REPLY" /\ \A g \in Hosts \ {h} : cache'[g] = cache[g]
    BY <1>3 DEF RemoveEntry, TypeOK, NoEntry
  <2>2. UNCHANGED m_waitReplyTimer
    BY <1>3 DEF RemoveEntry
  <2> QED
    BY <2>1, <2>2, CoversFewer DEF IsWaitReply
<1>4. CASE Flush
  BY <1>4 DEF Flush, TimerCoversWaiting, IsWaitReply, NoEntry
<1>5. CASE Next
  BY <1>1, <1>2, <1>4, <1>5, CoversLookup, CoversTimeout, CoversTick
     DEF Next, SendArpRequest, Answer, LoseRequest, LoseReply
<1> QED
  BY <1>1, <1>2, <1>3, <1>5 DEF NextWithHelper, arpVars

LEMMA HelperTimerLaw == SpecWithHelper => []TimerCoversWaiting
BY CoversInit, CoversStep, HelperTypeCorrect, PTL DEF SpecWithHelper

\* The timer of the cache, one for all its entries, fires in time for each that
\* waits, also while the neighbour helper rewrites the cache: no lookup finds a
\* waiting entry expired, which ends the simulation.
THEOREM TimerLaw == /\ Spec => []TimerCoversWaiting
                    /\ SpecWithHelper => []TimerCoversWaiting
BY HelperTimerLaw, NextIsAllowed
----------------------------------------------------------------------------
(* The queue of packets, without the neighbour helper                      *)

QueueBound == IF m_pendingQueueSize = 0 THEN 1 ELSE m_pendingQueueSize

QueueLaw(entry) ==
  /\ entry.pending # <<>> <=> entry.state = "WAIT_REPLY"
  /\ Len(entry.pending) <= QueueBound

LEMMA QueueLaws == QueuedOnlyWhileWaiting <=> \A h \in Hosts : QueueLaw(cache[h])
BY DEF QueuedOnlyWhileWaiting, QueueLaw, QueueBound, IsWaitReply

LEMMA EmptyQueue ==
  ASSUME NEW e, e.pending = <<>>, e.state # "WAIT_REPLY"
  PROVE  QueueLaw(e)
BY ArpAssumption DEF QueueLaw, QueueBound

LEMMA QueueInit == Init => QueuedOnlyWhileWaiting
BY EmptyQueue, QueueLaws DEF Init, NoEntry

LEMMA AppendLaw ==
  ASSUME NEW S, NEW q \in Seq(S), NEW x \in S
  PROVE  Len(Append(q, x)) = Len(q) + 1 /\ Append(q, x) # <<>>
<1>1. Len(Append(q, x)) = Len(q) + 1 /\ Len(q) \in Nat
  OBVIOUS
<1>2. Len(<<>>) = 0
  OBVIOUS
<1> QED
  BY <1>1, <1>2

\* A step that rewrites the entry of one host.
LEMMA QueueOneEntry ==
  ASSUME QueuedOnlyWhileWaiting, NEW h \in Hosts, QueueLaw(cache[h])',
         \A g \in Hosts \ {h} : cache'[g] = cache[g]
  PROVE  QueuedOnlyWhileWaiting'
<1>1. \A g \in Hosts : QueueLaw(cache[g])'
  BY QueueLaws DEF QueueLaw
<1> QED
  BY <1>1 DEF QueuedOnlyWhileWaiting, QueueLaw, QueueBound, IsWaitReply

LEMMA QueueLookup ==
  ASSUME TypeOK, QueuedOnlyWhileWaiting, NEW h \in Hosts, Lookup(h)
  PROVE  QueuedOnlyWhileWaiting'
<1> DEFINE n == handed[h] + 1
<1>1. cache[h] \in EntryTypes /\ cache[h].pending \in Seq(1 .. MaxPackets)
  BY EntryParts DEF TypeOK
<1>2. QueueLaw(cache[h]) /\ n \in 1 .. MaxPackets
  BY QueueLaws, ArpAssumption DEF Lookup, TypeOK
<1>3. CASE MarkWaitReply(h, n) /\ cache[h].state # "WAIT_REPLY"
  <2>1. cache[h].pending = <<>>
    BY <1>2, <1>3 DEF QueueLaw
  <2>2. cache' = [cache EXCEPT ![h] = [state |-> "WAIT_REPLY", age |-> 0,
                    retries |-> cache[h].retries, pending |-> Append(cache[h].pending, n)]]
    BY <1>3 DEF MarkWaitReply
  <2>3. cache'[h].state = "WAIT_REPLY" /\ cache'[h].pending = Append(cache[h].pending, n)
    BY <2>2 DEF TypeOK
  <2>4. Len(cache'[h].pending) = 1 /\ cache'[h].pending # <<>>
    BY <1>1, <1>2, <2>1, <2>3, AppendLaw
  <2>5. QueueLaw(cache[h])'
    BY <2>3, <2>4, ArpAssumption DEF QueueLaw, QueueBound
  <2> QED
    BY <2>2, <2>5, QueueOneEntry DEF TypeOK
<1>4. CASE UNCHANGED cache
  BY <1>4 DEF QueuedOnlyWhileWaiting, IsWaitReply
<1>5. CASE UpdateWaitReply(h, n) /\ cache[h].state = "WAIT_REPLY"
  <2>1. CASE /\ Len(cache[h].pending) < m_pendingQueueSize
             /\ cache' = [cache EXCEPT ![h].pending = Append(@, n)]
    <3>1. cache'[h] = [cache[h] EXCEPT !.pending = Append(@, n)]
      BY <2>1 DEF TypeOK
    <3>2. cache'[h].state = "WAIT_REPLY" /\ cache'[h].pending = Append(cache[h].pending, n)
      BY <1>1, <1>5, <3>1 DEF EntryTypes
    <3>3. Len(cache'[h].pending) = Len(cache[h].pending) + 1 /\ cache'[h].pending # <<>>
      BY <1>1, <1>2, <3>2, AppendLaw
    <3>4. Len(cache[h].pending) \in Nat
      BY <1>1
    <3>5. QueueLaw(cache[h])'
      BY <2>1, <3>2, <3>3, <3>4, ArpAssumption DEF QueueLaw, QueueBound
    <3> QED
      BY <2>1, <3>5, QueueOneEntry DEF TypeOK
  <2>2. Len(cache[h].pending) \in Nat
    BY <1>1
  <2> QED
    BY <1>4, <1>5, <2>1, <2>2, ArpAssumption DEF UpdateWaitReply
<1> QED
  <2>1. cache[h] = NoEntry => cache[h].state # "WAIT_REPLY"
    BY DEF NoEntry
  <2> QED
    BY <1>3, <1>4, <1>5, <2>1 DEF Lookup

LEMMA QueueTimeout ==
  ASSUME TypeOK, QueuedOnlyWhileWaiting, HandleWaitReplyTimeout
  PROVE  QueuedOnlyWhileWaiting'
<1>1. \A h \in Hosts : QueueLaw(cache[h]) /\ cache[h] \in EntryTypes
  BY QueueLaws DEF TypeOK
<1>2. \A e \in EntryTypes : QueueLaw(e) => QueueLaw(AskedAgain(e))
  BY DEF QueueLaw, QueueBound, AskedAgain, EntryTypes
<1>3. QueueLaw(Dead)
  BY EmptyQueue DEF Dead
<1>4. \A h \in Hosts : QueueLaw(cache[h])'
  <2>1. \A h \in Hosts : QueueLaw(cache'[h])
    BY <1>1, <1>2, <1>3 DEF HandleWaitReplyTimeout
  <2> QED
    BY <2>1 DEF QueueLaw, QueueBound
<1> QED
  BY <1>4 DEF QueuedOnlyWhileWaiting, QueueLaw, QueueBound, IsWaitReply

LEMMA QueueTick ==
  ASSUME TypeOK, QueuedOnlyWhileWaiting, Tick
  PROVE  QueuedOnlyWhileWaiting'
<1>1. \A h \in Hosts : QueueLaw(cache[h]) /\ cache[h] \in EntryTypes
  BY QueueLaws DEF TypeOK
<1>2. \A e \in EntryTypes : QueueLaw(e) => QueueLaw([e EXCEPT !.age = @ + 1])
  BY DEF QueueLaw, QueueBound, EntryTypes
<1>3. \A h \in Hosts : QueueLaw(cache'[h])
  BY <1>1, <1>2 DEF Tick
<1> QED
  BY <1>3 DEF QueuedOnlyWhileWaiting, QueueLaw, QueueBound, IsWaitReply

LEMMA QueueStep ==
  TypeOK /\ QueuedOnlyWhileWaiting /\ [Next]_arpVars => QueuedOnlyWhileWaiting'
<1> SUFFICES ASSUME TypeOK, QueuedOnlyWhileWaiting, [Next]_arpVars
             PROVE  QueuedOnlyWhileWaiting'
  OBVIOUS
<1>1. CASE UNCHANGED cache
  BY <1>1 DEF QueuedOnlyWhileWaiting, IsWaitReply
<1>2. ASSUME NEW h \in Hosts, Receive(h)
      PROVE  QueuedOnlyWhileWaiting'
  <2>1. CASE /\ cache'[h].state = "ALIVE" /\ cache'[h].pending = <<>>
             /\ \A g \in Hosts \ {h} : cache'[g] = cache[g]
    <3>1. QueueLaw(cache[h])'
      BY <2>1, ArpAssumption DEF QueueLaw, QueueBound
    <3> QED
      BY <2>1, <3>1, QueueOneEntry
  <2> QED
    BY <1>1, <1>2, <2>1 DEF Receive, TypeOK
<1>3. CASE Flush
  <2>1. \A h \in Hosts : QueueLaw(cache'[h])
    BY <1>3, EmptyQueue DEF Flush, NoEntry
  <2> QED
    BY <2>1 DEF QueuedOnlyWhileWaiting, QueueLaw, QueueBound, IsWaitReply
<1> QED
  BY <1>1, <1>2, <1>3, QueueLookup, QueueTimeout, QueueTick
     DEF Next, SendArpRequest, Answer, LoseRequest, LoseReply, arpVars

\* Packets are queued exactly while their entry waits for a reply, and never
\* more than the queue has room for (one, even when it has none).
THEOREM QueueLawHolds == Spec => []QueuedOnlyWhileWaiting
BY QueueInit, QueueStep, TypeCorrect, PTL DEF Spec

----------------------------------------------------------------------------
(* Resolution implements Resolver                                          *)

LEMMA ResolverInit == Init => Resolution!Init
BY DEF Init, Resolution!Init, NoEntry

\* One host's queue, in the abstract state.
LEMMA WaitingOf ==
  ASSUME NEW h \in Hosts, NEW q, cache'[h].pending = q,
         \A g \in Hosts \ {h} : cache'[g].pending = cache[g].pending
  PROVE  [g \in Hosts |-> cache[g].pending]'
           = [[g \in Hosts |-> cache[g].pending] EXCEPT ![h] = q]
OBVIOUS

LEMMA SameWaiting ==
  ASSUME \A g \in Hosts : cache'[g].pending = cache[g].pending
  PROVE  UNCHANGED [g \in Hosts |-> cache[g].pending]
OBVIOUS

LEMMA ResolverLookup ==
  ASSUME TypeOK, QueuedOnlyWhileWaiting, NEW h \in Hosts, Lookup(h)
  PROVE  [Resolution!Next]_(Resolution!resolverVars)
<1> DEFINE n == handed[h] + 1
           waiting == [g \in Hosts |-> cache[g].pending]
<1>1. cache[h] \in EntryTypes /\ n \in 1 .. MaxPackets
  BY ArpAssumption DEF Lookup, TypeOK
<1>2. CASE UNCHANGED <<cache, sent>>
  BY <1>2 DEF Resolution!resolverVars
<1>3. CASE /\ cache'[h].pending = Append(cache[h].pending, n)
           /\ \A g \in Hosts \ {h} : cache'[g] = cache[g]
           /\ UNCHANGED sent
  <2>1. PICK p \in 1 .. MaxPackets : p = n
    BY <1>1
  <2>2. waiting' = [waiting EXCEPT ![h] = Append(@, p)]
    BY <1>3, <2>1, WaitingOf
  <2>3. Resolution!Queue(h, p)
    BY <1>3, <2>2 DEF Resolution!Queue
  <2> QED
    BY <2>3 DEF Resolution!Next
<1>4. CASE MarkWaitReply(h, n)
  <2>1. /\ cache'[h].pending = Append(cache[h].pending, n)
        /\ \A g \in Hosts \ {h} : cache'[g] = cache[g]
        /\ UNCHANGED sent
    BY <1>4 DEF MarkWaitReply, TypeOK
  <2> QED
    BY <1>3, <2>1
<1>5. CASE UpdateWaitReply(h, n)
  <2>1. CASE cache' = [cache EXCEPT ![h].pending = Append(@, n)] /\ UNCHANGED sent
    <3>1. cache'[h].pending = Append(cache[h].pending, n)
      BY <1>1, <2>1 DEF TypeOK, EntryTypes
    <3>2. \A g \in Hosts \ {h} : cache'[g] = cache[g]
      BY <2>1 DEF TypeOK
    <3> QED
      BY <1>3, <2>1, <3>1, <3>2
  <2> QED
    BY <1>2, <1>5, <2>1 DEF UpdateWaitReply
<1>6. CASE /\ sent' = [sent EXCEPT ![h] = Append(@, n)]
           /\ cache[h].state # "WAIT_REPLY"
           /\ UNCHANGED cache
  <2>1. PICK p \in 1 .. MaxPackets : p = n
    BY <1>1
  <2>2. waiting[h] = <<>>
    BY <1>6 DEF QueuedOnlyWhileWaiting, IsWaitReply
  <2>3. Resolution!SendAtOnce(h, p)
    BY <1>6, <2>1, <2>2 DEF Resolution!SendAtOnce
  <2> QED
    BY <2>3 DEF Resolution!Next
<1> QED
  BY <1>2, <1>4, <1>5, <1>6 DEF Lookup

LEMMA ResolverReceive ==
  ASSUME TypeOK, NEW h \in Hosts, Receive(h)
  PROVE  [Resolution!Next]_(Resolution!resolverVars)
<1> DEFINE waiting == [g \in Hosts |-> cache[g].pending]
<1>1. CASE UNCHANGED <<cache, sent>>
  BY <1>1 DEF Resolution!resolverVars
<1>2. CASE /\ cache'[h].pending = <<>> /\ \A g \in Hosts \ {h} : cache'[g] = cache[g]
           /\ sent' = [sent EXCEPT ![h] = @ \o cache[h].pending]
  <2>1. waiting' = [waiting EXCEPT ![h] = <<>>]
    BY <1>2, WaitingOf
  <2>2. Resolution!Resolve(h)
    BY <1>2, <2>1 DEF Resolution!Resolve
  <2> QED
    BY <2>2 DEF Resolution!Next
<1> QED
  BY <1>1, <1>2 DEF Receive, TypeOK

LEMMA ResolverGiveUp ==
  ASSUME TypeOK, HandleWaitReplyTimeout \/ Flush
  PROVE  [Resolution!Next]_(Resolution!resolverVars)
<1>1. CASE HandleWaitReplyTimeout
  <2>1. \A h \in Again : cache'[h].pending = cache[h].pending
    <3>1. \A h \in Again : cache[h] \in EntryTypes /\ cache'[h] = AskedAgain(cache[h])
      BY <1>1 DEF HandleWaitReplyTimeout, Again, TypeOK
    <3> QED
      BY <3>1 DEF AskedAgain, EntryTypes
  <2>2. \A h \in Hosts : cache'[h].pending = IF h \in GivenUp THEN <<>> ELSE cache[h].pending
    BY <1>1, <2>1 DEF HandleWaitReplyTimeout, GivenUp, Dead
  <2>3. UNCHANGED sent
    BY <1>1 DEF HandleWaitReplyTimeout
  <2>4. PICK hs \in SUBSET Hosts : hs = GivenUp
    BY DEF GivenUp
  <2>5. Resolution!GiveUp(hs)
    BY <2>2, <2>3, <2>4 DEF Resolution!GiveUp
  <2> QED
    BY <2>5 DEF Resolution!Next
<1>2. CASE Flush
  <2>1. Resolution!GiveUp(Hosts)
    BY <1>2 DEF Flush, NoEntry, Resolution!GiveUp
  <2> QED
    BY <2>1 DEF Resolution!Next
<1> QED
  BY <1>1, <1>2

LEMMA ResolverTick ==
  ASSUME TypeOK, Tick
  PROVE  UNCHANGED Resolution!resolverVars
<1>1. \A h \in Hosts : cache[h] \in EntryTypes
  BY DEF TypeOK
<1>2. \A h \in Hosts : cache'[h].pending = cache[h].pending
  BY <1>1 DEF Tick, EntryTypes
<1>3. UNCHANGED sent
  BY DEF Tick
<1> QED
  BY <1>2, <1>3, SameWaiting DEF Resolution!resolverVars

LEMMA ResolverStep ==
  TypeOK /\ QueuedOnlyWhileWaiting /\ [Next]_arpVars
    => [Resolution!Next]_(Resolution!resolverVars)
<1> SUFFICES ASSUME TypeOK, QueuedOnlyWhileWaiting, [Next]_arpVars
             PROVE  [Resolution!Next]_(Resolution!resolverVars)
  OBVIOUS
<1>1. CASE UNCHANGED <<cache, sent>>
  BY <1>1 DEF Resolution!resolverVars
<1> QED
  BY <1>1, ResolverLookup, ResolverReceive, ResolverGiveUp, ResolverTick
     DEF Next, SendArpRequest, Answer, LoseRequest, LoseReply, arpVars

\* Address resolution implements Resolver: packets for a host leave in the
\* order they were handed over, none overtakes one that waits, and those that
\* wait end together.
THEOREM ImplementsResolver == Spec => ResolverSpec
<1>1. TypeOK /\ QueuedOnlyWhileWaiting /\ [Next]_arpVars
        => [Resolution!Next]_(Resolution!resolverVars)
  BY ResolverStep
<1> QED
  BY <1>1, ResolverInit, TypeCorrect, QueueLawHolds, PTL
     DEF Spec, ResolverSpec, Resolution!Spec

----------------------------------------------------------------------------
(* Where packets are                                                       *)

Distinct(q) == \A i, j \in DOMAIN q : q[i] = q[j] => i = j

\* Of n packets, q wait, s were sent and d dropped; none twice.
Placed(q, s, d, n) ==
  /\ Distinct(q) /\ Distinct(s)
  /\ Range(q) \cap Range(s) = {} /\ Range(q) \cap d = {} /\ Range(s) \cap d = {}
  /\ Range(q) \cup Range(s) \cup d = 1 .. n

LEMMA RangeAppend ==
  ASSUME NEW S, NEW q \in Seq(S), NEW x \in S
  PROVE  /\ Range(Append(q, x)) = Range(q) \cup {x}
         /\ Distinct(q) /\ x \notin Range(q) => Distinct(Append(q, x))
<1>1. PICK n : n = Len(q)
  OBVIOUS
<1>2. PICK r : r = Append(q, x)
  OBVIOUS
<1>3. /\ n \in Nat /\ DOMAIN q = 1 .. n /\ DOMAIN r = 1 .. n + 1
      /\ \A i \in 1 .. n : r[i] = q[i]
      /\ r[n + 1] = x
  BY <1>1, <1>2
<1>4. 1 .. n + 1 = (1 .. n) \cup {n + 1}
  BY <1>3
<1>5. Range(r) = Range(q) \cup {x}
  BY <1>3, <1>4 DEF Range
<1>6. Distinct(q) /\ x \notin Range(q) => Distinct(r)
  BY <1>3, <1>4 DEF Distinct, Range
<1> QED
  BY <1>2, <1>5, <1>6

LEMMA RangeConcat ==
  ASSUME NEW S, NEW s \in Seq(S), NEW q \in Seq(S)
  PROVE  /\ Range(s \o q) = Range(s) \cup Range(q)
         /\ Distinct(s) /\ Distinct(q) /\ Range(s) \cap Range(q) = {} => Distinct(s \o q)
<1>1. PICK m, n : m = Len(s) /\ n = Len(q)
  OBVIOUS
<1>2. PICK r : r = s \o q
  OBVIOUS
<1>3. /\ m \in Nat /\ n \in Nat
      /\ DOMAIN s = 1 .. m /\ DOMAIN q = 1 .. n /\ DOMAIN r = 1 .. m + n
      /\ \A i \in 1 .. m + n : r[i] = IF i <= m THEN s[i] ELSE q[i - m]
  BY <1>1, <1>2
<1>4. \A i \in 1 .. m : i \in 1 .. m + n /\ r[i] = s[i]
  BY <1>3
<1>5. \A i \in 1 .. n : i + m \in 1 .. m + n /\ r[i + m] = q[i]
  BY <1>3
<1>6. \A i \in 1 .. m + n : i \in 1 .. m \/ (i - m \in 1 .. n /\ r[i] = q[i - m])
  BY <1>3
<1>7. Range(r) = Range(s) \cup Range(q)
  <2>1. Range(r) \subseteq Range(s) \cup Range(q)
    BY <1>3, <1>4, <1>6 DEF Range
  <2>2. Range(s) \subseteq Range(r)
    BY <1>3, <1>4 DEF Range
  <2>3. Range(q) \subseteq Range(r)
    BY <1>3, <1>5 DEF Range
  <2> QED
    BY <2>1, <2>2, <2>3
<1>8. ASSUME Distinct(s), Distinct(q), Range(s) \cap Range(q) = {}
      PROVE  Distinct(r)
  <2> SUFFICES ASSUME NEW i \in 1 .. m + n, NEW j \in 1 .. m + n, r[i] = r[j]
               PROVE  i = j
    BY <1>3 DEF Distinct
  <2>1. \A a \in 1 .. m, b \in 1 .. n : s[a] # q[b]
    BY <1>3, <1>8 DEF Range
  <2>2. CASE i <= m /\ j <= m
    BY <1>3, <1>8, <2>2 DEF Distinct
  <2>3. CASE i > m /\ j > m
    <3>1. i - m \in 1 .. n /\ j - m \in 1 .. n /\ q[i - m] = q[j - m]
      BY <1>3, <2>3
    <3>2. i - m = j - m
      BY <1>3, <1>8, <3>1 DEF Distinct
    <3> QED
      BY <1>3, <3>2
  <2> QED
    BY <1>3, <2>1, <2>2, <2>3
<1> QED
  BY <1>2, <1>7, <1>8

LEMMA DistinctCount ==
  ASSUME NEW S, NEW q \in Seq(S), Distinct(q)
  PROVE  IsFiniteSet(Range(q)) /\ Cardinality(Range(q)) = Len(q)
<1>1. PICK n \in Nat : n = Len(q)
  OBVIOUS
<1>2. DOMAIN q = 1 .. n
  BY <1>1
<1>3. q \in Bijection(1 .. n, Range(q))
  BY <1>2 DEF Distinct, Range, Bijection, Injection, IsInjective, Surjection
<1>4. IsFiniteSet(1 .. n) /\ Cardinality(1 .. n) = n
  BY FS_Interval
<1>5. ExistsBijection(1 .. n, Range(q))
  BY <1>3 DEF ExistsBijection
<1> QED
  BY <1>1, <1>4, <1>5, FS_Bijection

\* The moves of a host's packets: a new one, or all that wait.
LEMMA PlacedMoves ==
  ASSUME NEW S, NEW q \in Seq(S), NEW s \in Seq(S), NEW d, NEW n \in Nat,
         Placed(q, s, d, n), n + 1 \in S
  PROVE  /\ Placed(Append(q, n + 1), s, d, n + 1)
         /\ Placed(q, Append(s, n + 1), d, n + 1)
         /\ Placed(q, s, d \cup {n + 1}, n + 1)
<1>1. n + 1 \notin 1 .. n /\ 1 .. n + 1 = (1 .. n) \cup {n + 1}
  OBVIOUS
<1>2. PICK x, N : x = n + 1 /\ N = 1 .. n
  OBVIOUS
<1>3. /\ x \notin N /\ 1 .. n + 1 = N \cup {x} /\ x \in S
      /\ Range(q) \cup Range(s) \cup d = N
  BY <1>1, <1>2 DEF Placed
<1>4. /\ Range(Append(q, x)) = Range(q) \cup {x}
      /\ Distinct(q) /\ x \notin Range(q) => Distinct(Append(q, x))
      /\ Range(Append(s, x)) = Range(s) \cup {x}
      /\ Distinct(s) /\ x \notin Range(s) => Distinct(Append(s, x))
  BY <1>3, RangeAppend
<1>5. x \notin Range(q) /\ x \notin Range(s) /\ x \notin d
  BY <1>3
<1>6. /\ Placed(Append(q, x), s, d, n + 1)
      /\ Placed(q, Append(s, x), d, n + 1)
      /\ Placed(q, s, d \cup {x}, n + 1)
  BY <1>3, <1>4, <1>5 DEF Placed
<1> QED
  BY <1>2, <1>6

LEMMA PlacedEmptied ==
  ASSUME NEW S, NEW q \in Seq(S), NEW s \in Seq(S), NEW d, NEW n,
         Placed(q, s, d, n)
  PROVE  /\ Placed(<<>>, s \o q, d, n)
         /\ Placed(<<>>, s, d \cup Range(q), n)
<1>1. Range(<<>>) = {} /\ Distinct(<<>>)
  BY DEF Range, Distinct
<1>2. Range(s \o q) = Range(s) \cup Range(q) /\ Distinct(s \o q)
  BY RangeConcat DEF Placed
<1> QED
  BY <1>1, <1>2 DEF Placed

PlacedAll == \A h \in Hosts : Placed(cache[h].pending, sent[h], dropped[h], handed[h])

LEMMA PlacedLookup ==
  ASSUME TypeOK, PlacedAll, NEW h \in Hosts, Lookup(h)
  PROVE  PlacedAll'
<1> DEFINE n == handed[h] + 1
<1>0. /\ cache[h] \in EntryTypes /\ cache[h].pending \in Seq(1 .. MaxPackets)
      /\ sent[h] \in Seq(1 .. MaxPackets) /\ handed[h] \in Nat
  <2>1. cache[h] \in EntryTypes /\ sent[h] \in Seq(1 .. MaxPackets)
    BY DEF TypeOK
  <2>2. handed[h] \in 0 .. MaxPackets
    BY DEF TypeOK
  <2> QED
    BY <2>1, <2>2, EntryParts
<1>a. n \in 1 .. MaxPackets
  <2>1. n <= MaxPackets
    BY DEF Lookup
  <2> QED
    BY <1>0, <2>1, ArpAssumption
<1>b. Placed(cache[h].pending, sent[h], dropped[h], handed[h])
  BY DEF PlacedAll
<1>1. /\ cache[h] \in EntryTypes /\ cache[h].pending \in Seq(1 .. MaxPackets)
      /\ sent[h] \in Seq(1 .. MaxPackets) /\ handed[h] \in Nat /\ n \in 1 .. MaxPackets
      /\ Placed(cache[h].pending, sent[h], dropped[h], handed[h])
  BY <1>0, <1>a, <1>b
<1>2. /\ Placed(Append(cache[h].pending, n), sent[h], dropped[h], n)
      /\ Placed(cache[h].pending, Append(sent[h], n), dropped[h], n)
      /\ Placed(cache[h].pending, sent[h], dropped[h] \cup {n}, n)
  BY <1>1, PlacedMoves
<1>3. handed'[h] = n /\ \A g \in Hosts \ {h} : handed'[g] = handed[g]
  BY DEF Lookup, TypeOK
<1>4. \A g \in Hosts \ {h} : Placed(cache[g].pending, sent[g], dropped[g], handed[g])
  BY DEF PlacedAll
<1>5. CASE /\ cache'[h].pending = Append(cache[h].pending, n)
           /\ \A g \in Hosts \ {h} : cache'[g] = cache[g]
           /\ UNCHANGED <<sent, dropped>>
  BY <1>2, <1>3, <1>4, <1>5 DEF PlacedAll
<1>6. CASE /\ dropped' = [dropped EXCEPT ![h] = @ \cup {n}]
           /\ UNCHANGED <<cache, sent>>
  <2>1. dropped'[h] = dropped[h] \cup {n} /\ \A g \in Hosts \ {h} : dropped'[g] = dropped[g]
    BY <1>6 DEF TypeOK
  <2> QED
    BY <1>2, <1>3, <1>4, <1>6, <2>1 DEF PlacedAll
<1>7. CASE /\ sent' = [sent EXCEPT ![h] = Append(@, n)]
           /\ UNCHANGED <<cache, dropped>>
  <2>1. sent'[h] = Append(sent[h], n) /\ \A g \in Hosts \ {h} : sent'[g] = sent[g]
    BY <1>7 DEF TypeOK
  <2> QED
    BY <1>2, <1>3, <1>4, <1>7, <2>1 DEF PlacedAll
<1>8. CASE MarkWaitReply(h, n)
  <2>1. /\ cache'[h].pending = Append(cache[h].pending, n)
        /\ \A g \in Hosts \ {h} : cache'[g] = cache[g]
        /\ UNCHANGED <<sent, dropped>>
    BY <1>8 DEF MarkWaitReply, TypeOK
  <2> QED
    BY <1>5, <2>1
<1>9. CASE UpdateWaitReply(h, n)
  <2>1. CASE /\ cache' = [cache EXCEPT ![h].pending = Append(@, n)]
             /\ UNCHANGED <<sent, dropped>>
    <3>1. cache'[h].pending = Append(cache[h].pending, n)
      BY <1>1, <2>1 DEF TypeOK, EntryTypes
    <3>2. \A g \in Hosts \ {h} : cache'[g] = cache[g]
      BY <2>1 DEF TypeOK
    <3> QED
      BY <1>5, <2>1, <3>1, <3>2
  <2> QED
    BY <1>6, <1>9, <2>1 DEF UpdateWaitReply
<1> QED
  BY <1>6, <1>7, <1>8, <1>9 DEF Lookup

\* A host keeps its packets where they are, or all that waited were sent or dropped.
LEMMA PlacedOthers ==
  ASSUME TypeOK, PlacedAll, UNCHANGED handed,
         \A h \in Hosts :
           \/ /\ cache'[h].pending = cache[h].pending
              /\ sent'[h] = sent[h] /\ dropped'[h] = dropped[h]
           \/ /\ cache'[h].pending = <<>>
              /\ sent'[h] = sent[h] \o cache[h].pending /\ dropped'[h] = dropped[h]
           \/ /\ cache'[h].pending = <<>>
              /\ sent'[h] = sent[h] /\ dropped'[h] = dropped[h] \cup Range(cache[h].pending)
  PROVE  PlacedAll'
<1> SUFFICES ASSUME NEW h \in Hosts
             PROVE  Placed(cache'[h].pending, sent'[h], dropped'[h], handed[h])
  BY DEF PlacedAll
<1>1. /\ cache[h].pending \in Seq(1 .. MaxPackets) /\ sent[h] \in Seq(1 .. MaxPackets)
      /\ Placed(cache[h].pending, sent[h], dropped[h], handed[h])
  BY EntryParts DEF TypeOK, PlacedAll
<1>2. /\ Placed(<<>>, sent[h] \o cache[h].pending, dropped[h], handed[h])
      /\ Placed(<<>>, sent[h], dropped[h] \cup Range(cache[h].pending), handed[h])
  BY <1>1, PlacedEmptied
<1> QED
  BY <1>1, <1>2

LEMMA PlacedStep == TypeOK /\ PlacedAll /\ [Next]_arpVars => PlacedAll'
<1> SUFFICES ASSUME TypeOK, PlacedAll, [Next]_arpVars PROVE PlacedAll'
  OBVIOUS
<1>1. CASE UNCHANGED <<cache, sent, dropped, handed>>
  BY <1>1 DEF PlacedAll
<1>2. ASSUME NEW h \in Hosts, Receive(h) PROVE PlacedAll'
  <2>1. CASE /\ cache' = [cache EXCEPT ![h] = [state |-> "ALIVE", age |-> 0,
                                               retries |-> 0, pending |-> <<>>]]
             /\ sent' = [sent EXCEPT ![h] = @ \o cache[h].pending]
             /\ UNCHANGED <<dropped, handed>>
    <3>1. cache'[h].pending = <<>> /\ sent'[h] = sent[h] \o cache[h].pending
      BY <2>1 DEF TypeOK
    <3>2. \A g \in Hosts \ {h} : cache'[g] = cache[g] /\ sent'[g] = sent[g]
      BY <2>1 DEF TypeOK
    <3> QED
      BY <2>1, <3>1, <3>2, PlacedOthers
  <2> QED
    BY <1>1, <1>2, <2>1 DEF Receive
<1>3. CASE HandleWaitReplyTimeout
  <2>1. ASSUME NEW h \in Again PROVE cache'[h].pending = cache[h].pending
    <3>1. cache[h] \in EntryTypes /\ cache'[h] = AskedAgain(cache[h])
      BY <1>3, <2>1 DEF HandleWaitReplyTimeout, Again, TypeOK
    <3> QED
      BY <3>1 DEF AskedAgain, EntryTypes
  <2>2. \A h \in GivenUp : cache'[h].pending = <<>>
    BY <1>3 DEF HandleWaitReplyTimeout, GivenUp, Dead
  <2>3. \A h \in Hosts \ (Again \cup GivenUp) : cache'[h] = cache[h]
    BY <1>3 DEF HandleWaitReplyTimeout
  <2>4. \A h \in Hosts :
          dropped'[h] = IF h \in GivenUp THEN dropped[h] \cup Range(cache[h].pending) ELSE dropped[h]
    BY <1>3 DEF HandleWaitReplyTimeout, TypeOK
  <2>5. UNCHANGED <<sent, handed>> /\ Again \cap GivenUp = {}
    BY <1>3 DEF HandleWaitReplyTimeout, GivenUp
  <2> QED
    BY <2>1, <2>2, <2>3, <2>4, <2>5, PlacedOthers
<1>4. CASE Flush
  <2>1. \A h \in Hosts : /\ cache'[h].pending = <<>> /\ sent'[h] = sent[h]
                         /\ dropped'[h] = dropped[h] \cup Range(cache[h].pending)
    BY <1>4 DEF Flush, NoEntry
  <2>2. UNCHANGED handed
    BY <1>4 DEF Flush
  <2> QED
    BY <2>1, <2>2, PlacedOthers
<1>5. CASE Tick
  <2>1. \A e \in EntryTypes : [e EXCEPT !.age = @ + 1].pending = e.pending
    BY DEF EntryTypes
  <2>2. \A h \in Hosts : cache'[h].pending = cache[h].pending
    BY <1>5, <2>1 DEF Tick, TypeOK
  <2>3. UNCHANGED <<sent, dropped, handed>>
    BY <1>5 DEF Tick
  <2> QED
    BY <2>2, <2>3, PlacedOthers
<1> QED
  BY <1>1, <1>2, <1>3, <1>4, <1>5, PlacedLookup
     DEF Next, SendArpRequest, Answer, LoseRequest, LoseReply, arpVars

LEMMA DisjointSizes ==
  ASSUME NEW A, NEW B, IsFiniteSet(A), IsFiniteSet(B), A \cap B = {}
  PROVE  /\ IsFiniteSet(A \cup B)
         /\ Cardinality(A \cup B) = Cardinality(A) + Cardinality(B)
<1>1. Cardinality(A \cap B) = 0
  BY FS_EmptySet
<1>2. Cardinality(A) \in Nat /\ Cardinality(B) \in Nat
  BY FS_CardinalityType
<1>3. /\ IsFiniteSet(A \cup B)
      /\ Cardinality(A \cup B) = Cardinality(A) + Cardinality(B) - Cardinality(A \cap B)
  BY FS_Union
<1>4. Cardinality(A) + Cardinality(B) - 0 = Cardinality(A) + Cardinality(B)
  BY <1>2
<1> QED
  BY <1>1, <1>3, <1>4

\* Through every timeout, late reply and change of the link, a packet handed to
\* Lookup is in one place: it waits, was sent, or was dropped, and once.
THEOREM OnceHolds == Spec => []PacketsOnce
<1>1. Init => PlacedAll
  <2> SUFFICES ASSUME Init, NEW h \in Hosts
               PROVE  Placed(cache[h].pending, sent[h], dropped[h], handed[h])
    BY DEF PlacedAll
  <2>1. cache[h].pending = <<>> /\ sent[h] = <<>> /\ dropped[h] = {} /\ handed[h] = 0
    BY DEF Init, NoEntry
  <2> QED
    BY <2>1 DEF Placed, Distinct, Range
<1>2. TypeOK /\ PlacedAll => PacketsOnce
  <2> SUFFICES ASSUME TypeOK, PlacedAll, NEW h \in Hosts
               PROVE  LET pending == Range(cache[h].pending) IN
                      /\ pending \cup Range(sent[h]) \cup dropped[h] = 1 .. handed[h]
                      /\ Len(cache[h].pending) + Len(sent[h]) + Cardinality(dropped[h])
                           = handed[h]
    BY DEF PacketsOnce
  <2>1. PICK q, s : q = cache[h].pending /\ s = sent[h]
    OBVIOUS
  <2>2. PICK d, n : d = dropped[h] /\ n = handed[h]
    OBVIOUS
  <2>3. /\ q \in Seq(1 .. MaxPackets) /\ s \in Seq(1 .. MaxPackets)
        /\ n \in Nat /\ Placed(q, s, d, n)
    BY <2>1, <2>2, EntryParts, ArpAssumption DEF TypeOK, PlacedAll
  <2>4. /\ IsFiniteSet(Range(q)) /\ Cardinality(Range(q)) = Len(q)
        /\ IsFiniteSet(Range(s)) /\ Cardinality(Range(s)) = Len(s)
    BY <2>3, DistinctCount DEF Placed
  <2>5. IsFiniteSet(1 .. n) /\ Cardinality(1 .. n) = n
    BY <2>3, FS_Interval
  <2>6. IsFiniteSet(d)
    BY <2>3, <2>5, FS_Subset DEF Placed
  <2>7. PICK u : u = Range(q) \cup Range(s)
    OBVIOUS
  <2>8. Range(q) \cap Range(s) = {} /\ u \cap d = {} /\ u \cup d = 1 .. n
    BY <2>3, <2>7 DEF Placed
  <2>9. IsFiniteSet(u) /\ Cardinality(u) = Len(q) + Len(s)
    BY <2>4, <2>7, <2>8, DisjointSizes
  <2>10. Cardinality(u) + Cardinality(d) = n
    BY <2>5, <2>6, <2>8, <2>9, DisjointSizes
  <2> QED
    BY <2>1, <2>2, <2>7, <2>8, <2>9, <2>10
<1> QED
  BY <1>1, <1>2, PlacedStep, TypeCorrect, PTL DEF Spec
=============================================================================
