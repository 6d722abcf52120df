-------------------------------- MODULE Arp --------------------------------
(***************************************************************************)
(* Address resolution of one interface (arp-l3-protocol.cc, arp-cache.cc): *)
(* the cache of the interface, its single timer for all entries that wait  *)
(* for a reply, the requests delayed by jitter, and a network that answers *)
(* late, out of order or not at all.  Times are counted in ticks; an       *)
(* entry's m_lastSeen is kept as its age.                                  *)
(***************************************************************************)
EXTENDS Integers, Sequences, FiniteSets, Functions

CONSTANTS
  Hosts,              \* IPv4 addresses asked for
  m_aliveTimeout, m_deadTimeout, m_waitReplyTimeout,
  m_maxRetries, m_pendingQueueSize,
  MaxJitter,          \* longest jitter of a first request, in ticks
  MaxPackets,         \* bound: packets handed over per host
  MaxLookups,         \* bound: packets handed over to all hosts
  MaxFlushes          \* bound: changes of the link

ASSUME ArpAssumption ==
  /\ m_aliveTimeout \in Nat /\ m_deadTimeout \in Nat
  /\ m_waitReplyTimeout \in Nat \ {0}
  /\ m_maxRetries \in Nat /\ m_pendingQueueSize \in Nat
  /\ MaxJitter \in Nat /\ MaxPackets \in Nat /\ MaxLookups \in Nat /\ MaxFlushes \in Nat

VARIABLES
  cache,              \* m_arpCache: an entry or NoEntry for each host
  m_waitReplyTimer,   \* ticks left, or NotRunning
  jittered,           \* first requests scheduled: how many by host and ticks left
  requests,           \* requests on the air, by host
  replies,            \* replies on the air, by host
  handed,             \* packets handed to Lookup so far, by host
  sent,               \* those handed to the device, in order (history)
  dropped,            \* those dropped or discarded (history)
  flushes

arpVars == <<cache, m_waitReplyTimer, jittered, requests, replies, handed, sent, dropped, flushes>>

NotRunning == -1
States == {"ALIVE", "WAIT_REPLY", "DEAD", "STATIC_AUTOGENERATED"}
NoEntry == [state |-> "none", age |-> 0, retries |-> 0, pending |-> <<>>]

IsWaitReply(h) == cache[h].state = "WAIT_REPLY"

Timeout(state) ==
  CASE state = "WAIT_REPLY" -> m_waitReplyTimeout
    [] state = "DEAD" -> m_deadTimeout
    [] state = "ALIVE" -> m_aliveTimeout

\* An age above every timeout is as good as any other.
Oldest == m_aliveTimeout + m_deadTimeout + m_waitReplyTimeout + 1

IsExpired(entry) ==
  entry.state # "STATIC_AUTOGENERATED" /\ entry.age > Timeout(entry.state)

Init ==
  /\ cache = [h \in Hosts |-> NoEntry]
  /\ m_waitReplyTimer = NotRunning
  /\ jittered = [h \in Hosts |-> [j \in 0 .. MaxJitter |-> 0]]
  /\ requests = [h \in Hosts |-> 0] /\ replies = [h \in Hosts |-> 0]
  /\ handed = [h \in Hosts |-> 0]
  /\ sent = [h \in Hosts |-> <<>>] /\ dropped = [h \in Hosts |-> {}]
  /\ flushes = 0

----------------------------------------------------------------------------
(* Lookup: a packet for h, the n-th one.                                   *)

\* Mutant: the timer is only started with a new entry.
StartWaitReplyTimerOnce(h) ==
  m_waitReplyTimer' = IF m_waitReplyTimer = NotRunning /\ cache[h] = NoEntry
                      THEN m_waitReplyTimeout ELSE m_waitReplyTimer

StartWaitReplyTimer(h) ==
  m_waitReplyTimer' = IF m_waitReplyTimer = NotRunning
                      THEN m_waitReplyTimeout ELSE m_waitReplyTimer

LookupsLeft == FoldFunction(+, 0, handed) < MaxLookups

\* MarkWaitReply and the request scheduled with it.
MarkWaitReply(h, n) ==
  /\ cache' = [cache EXCEPT ![h] = [state |-> "WAIT_REPLY", age |-> 0,
                                    retries |-> @.retries, pending |-> Append(@.pending, n)]]
  /\ StartWaitReplyTimer(h)
  /\ \E j \in 0 .. MaxJitter : jittered' = [jittered EXCEPT ![h][j] = @ + 1]
  /\ UNCHANGED <<sent, dropped>>

\* Mutant: the packet goes in front of those that wait.
UpdateWaitReplyFirst(h, n) ==
  /\ IF Len(cache[h].pending) >= m_pendingQueueSize
     THEN /\ dropped' = [dropped EXCEPT ![h] = @ \cup {n}]
          /\ UNCHANGED cache
     ELSE /\ cache' = [cache EXCEPT ![h].pending = <<n>> \o @]
          /\ UNCHANGED dropped
  /\ UNCHANGED <<m_waitReplyTimer, jittered, sent>>

\* Mutant: the packet takes the place of the last one when the queue is full.
UpdateWaitReplyReplacing(h, n) ==
  /\ LET pending == cache[h].pending IN
       IF Len(pending) >= m_pendingQueueSize
       THEN cache' = [cache EXCEPT ![h].pending[Len(pending)] = n]
       ELSE cache' = [cache EXCEPT ![h].pending = Append(@, n)]
  /\ UNCHANGED <<m_waitReplyTimer, jittered, sent, dropped>>

UpdateWaitReply(h, n) ==
  /\ IF Len(cache[h].pending) >= m_pendingQueueSize
     THEN /\ dropped' = [dropped EXCEPT ![h] = @ \cup {n}]
          /\ UNCHANGED cache
     ELSE /\ cache' = [cache EXCEPT ![h].pending = Append(@, n)]
          /\ UNCHANGED dropped
  /\ UNCHANGED <<m_waitReplyTimer, jittered, sent>>

Lookup(h) ==
  LET entry == cache[h]
      n == handed[h] + 1
  IN /\ n <= MaxPackets /\ LookupsLeft
     /\ handed' = [handed EXCEPT ![h] = n]
     /\ \/ /\ \/ entry = NoEntry
              \/ entry.state \in {"DEAD", "ALIVE"} /\ IsExpired(entry)
           /\ MarkWaitReply(h, n)
        \/ /\ entry.state = "DEAD" /\ ~IsExpired(entry)
           /\ dropped' = [dropped EXCEPT ![h] = @ \cup {n}]
           /\ UNCHANGED <<cache, m_waitReplyTimer, jittered, sent>>
        \/ /\ entry.state \in {"ALIVE", "STATIC_AUTOGENERATED"} /\ ~IsExpired(entry)
           /\ sent' = [sent EXCEPT ![h] = Append(@, n)]
           /\ UNCHANGED <<cache, m_waitReplyTimer, jittered, dropped>>
        \/ /\ entry.state = "WAIT_REPLY" /\ ~IsExpired(entry)
           /\ UpdateWaitReply(h, n)
     /\ UNCHANGED <<requests, replies, flushes>>

----------------------------------------------------------------------------
(* Timers                                                                  *)

SendArpRequest(h) ==
  /\ jittered[h][0] > 0
  /\ jittered' = [jittered EXCEPT ![h][0] = @ - 1]
  /\ requests' = [requests EXCEPT ![h] = @ + 1]
  /\ UNCHANGED <<cache, m_waitReplyTimer, replies, handed, sent, dropped, flushes>>

\* What the timer finds: entries to ask for again, and entries to give up.
Again == {h \in Hosts : IsWaitReply(h) /\ cache[h].retries < m_maxRetries}
GivenUp == {h \in Hosts : IsWaitReply(h)} \ Again

AskedAgain(entry) == [entry EXCEPT !.retries = @ + 1, !.age = 0]
Dead == [state |-> "DEAD", age |-> 0, retries |-> 0, pending |-> <<>>]

\* Mutant: a timeout is the last one.
HandleWaitReplyTimeoutOnce ==
  /\ m_waitReplyTimer = 0
  /\ cache' = [h \in Hosts |-> IF h \in Again THEN AskedAgain(cache[h]) ELSE cache[h]]
  /\ requests' = [h \in Hosts |-> requests[h] + IF h \in Again THEN 1 ELSE 0]
  /\ m_waitReplyTimer' = NotRunning
  /\ UNCHANGED <<jittered, replies, handed, sent, dropped, flushes>>

\* Mutant: an entry given up keeps its packets.
HandleWaitReplyTimeoutKeeping ==
  /\ m_waitReplyTimer = 0
  /\ cache' = [h \in Hosts |->
       IF h \in Again THEN AskedAgain(cache[h])
       ELSE IF h \in GivenUp THEN [Dead EXCEPT !.pending = cache[h].pending] ELSE cache[h]]
  /\ requests' = [h \in Hosts |-> requests[h] + IF h \in Again THEN 1 ELSE 0]
  /\ m_waitReplyTimer' = IF Again = {} THEN NotRunning ELSE m_waitReplyTimeout
  /\ UNCHANGED <<jittered, replies, handed, sent, dropped, flushes>>

\* Every waiting entry is asked for again, or given up with its packets, at
\* whatever point of its own wait the cache's timer fires.
HandleWaitReplyTimeout ==
  /\ m_waitReplyTimer = 0
  /\ cache' = [h \in Hosts |->
       IF h \in Again THEN AskedAgain(cache[h]) ELSE IF h \in GivenUp THEN Dead ELSE cache[h]]
  /\ requests' = [h \in Hosts |-> requests[h] + IF h \in Again THEN 1 ELSE 0]
  /\ dropped' = [h \in Hosts |->
       dropped[h] \cup IF h \in GivenUp THEN Range(cache[h].pending) ELSE {}]
  /\ m_waitReplyTimer' = IF Again = {} THEN NotRunning ELSE m_waitReplyTimeout
  /\ UNCHANGED <<jittered, replies, handed, sent, flushes>>

\* Time passes only when nothing is due.
Tick ==
  /\ m_waitReplyTimer # 0 /\ \A h \in Hosts : jittered[h][0] = 0
  /\ m_waitReplyTimer' = IF m_waitReplyTimer = NotRunning THEN NotRunning
                         ELSE m_waitReplyTimer - 1
  /\ jittered' = [h \in Hosts |-> [j \in 0 .. MaxJitter |->
                    IF j < MaxJitter THEN jittered[h][j + 1] ELSE 0]]
  /\ cache' = [h \in Hosts |->
       IF cache[h].state \in {"none", "STATIC_AUTOGENERATED"} \/ cache[h].age = Oldest
       THEN cache[h] ELSE [cache[h] EXCEPT !.age = @ + 1]]
  /\ UNCHANGED <<requests, replies, handed, sent, dropped, flushes>>

----------------------------------------------------------------------------
(* The network, and what arrives from it                                   *)

\* The host's own Receive answers a request for its address.
Answer(h) ==
  /\ requests[h] > 0
  /\ requests' = [requests EXCEPT ![h] = @ - 1]
  /\ replies' = [replies EXCEPT ![h] = @ + 1]
  /\ UNCHANGED <<cache, m_waitReplyTimer, jittered, handed, sent, dropped, flushes>>

LoseRequest(h) ==
  /\ requests[h] > 0
  /\ requests' = [requests EXCEPT ![h] = @ - 1]
  /\ UNCHANGED <<cache, m_waitReplyTimer, jittered, replies, handed, sent, dropped, flushes>>

LoseReply(h) ==
  /\ replies[h] > 0
  /\ replies' = [replies EXCEPT ![h] = @ - 1]
  /\ UNCHANGED <<cache, m_waitReplyTimer, jittered, requests, handed, sent, dropped, flushes>>

\* A reply: packets that wait are sent in order; unless its entry waits, it is
\* ignored.
Receive(h) ==
  /\ replies[h] > 0
  /\ replies' = [replies EXCEPT ![h] = @ - 1]
  /\ IF IsWaitReply(h)
     THEN /\ cache' = [cache EXCEPT ![h] = [state |-> "ALIVE", age |-> 0,
                                            retries |-> 0, pending |-> <<>>]]
          /\ sent' = [sent EXCEPT ![h] = @ \o cache[h].pending]
     ELSE UNCHANGED <<cache, sent>>
  /\ UNCHANGED <<m_waitReplyTimer, jittered, requests, handed, dropped, flushes>>

\* The link went up or down: entries are deleted with the packets they hold.
Flush ==
  /\ flushes < MaxFlushes
  /\ flushes' = flushes + 1
  /\ cache' = [h \in Hosts |-> NoEntry]
  /\ dropped' = [h \in Hosts |-> dropped[h] \cup Range(cache[h].pending)]
  /\ m_waitReplyTimer' = NotRunning
  /\ UNCHANGED <<jittered, requests, replies, handed, sent>>

Next ==
  \/ \E h \in Hosts : \/ Lookup(h) \/ SendArpRequest(h)
                      \/ Answer(h) \/ LoseRequest(h) \/ LoseReply(h) \/ Receive(h)
  \/ HandleWaitReplyTimeout \/ Tick \/ Flush

Spec == Init /\ [][Next]_arpVars

\* The event loop runs what is due and moves on while anything is scheduled.
Fairness ==
  /\ WF_arpVars(Tick) /\ WF_arpVars(HandleWaitReplyTimeout)
  /\ \A h \in Hosts : WF_arpVars(SendArpRequest(h))

FairSpec == Spec /\ Fairness

----------------------------------------------------------------------------
(* NeighborCacheHelper with dynamic updates: neighbours' addresses come    *)
(* and go while the simulation runs.                                       *)

AddEntry(h) ==
  /\ cache' = [cache EXCEPT ![h].state = "STATIC_AUTOGENERATED", ![h].age = 0, ![h].retries = 0]
  /\ UNCHANGED <<m_waitReplyTimer, jittered, requests, replies, handed, sent, dropped, flushes>>

\* Of one address (Remove).
RemoveEntry(h) ==
  /\ cache[h] # NoEntry
  /\ cache' = [cache EXCEPT ![h] = NoEntry]
  /\ dropped' = [dropped EXCEPT ![h] = @ \cup Range(cache[h].pending)]
  /\ UNCHANGED <<m_waitReplyTimer, jittered, requests, replies, handed, sent, flushes>>

NextWithHelper == Next \/ \E h \in Hosts : AddEntry(h) \/ RemoveEntry(h)

SpecWithHelper == Init /\ [][NextWithHelper]_arpVars

----------------------------------------------------------------------------
EntryTypes == [state : States \cup {"none"}, age : 0 .. Oldest, retries : 0 .. m_maxRetries,
               pending : Seq(1 .. MaxPackets)]

TypeOK ==
  /\ cache \in [Hosts -> EntryTypes]
  /\ m_waitReplyTimer \in NotRunning .. m_waitReplyTimeout
  /\ jittered \in [Hosts -> [0 .. MaxJitter -> Nat]]
  /\ requests \in [Hosts -> Nat] /\ replies \in [Hosts -> Nat]
  /\ handed \in [Hosts -> 0 .. MaxPackets]
  /\ sent \in [Hosts -> Seq(1 .. MaxPackets)]
  /\ dropped \in [Hosts -> SUBSET (1 .. MaxPackets)]
  /\ flushes \in 0 .. MaxFlushes

\* The one timer serves every waiting entry in time: no entry is found expired
\* while it waits, and the NS_FATAL_ERROR of Lookup is never reached.
TimerCoversWaiting ==
  \A h \in Hosts : IsWaitReply(h) =>
    /\ m_waitReplyTimer # NotRunning
    /\ cache[h].age + m_waitReplyTimer <= m_waitReplyTimeout

\* Each packet handed over is in one place: waiting, sent or dropped, and never
\* sent or queued twice.
PacketsOnce ==
  \A h \in Hosts :
    LET pending == Range(cache[h].pending) IN
    /\ pending \cup Range(sent[h]) \cup dropped[h] = 1 .. handed[h]
    /\ Len(cache[h].pending) + Len(sent[h]) + Cardinality(dropped[h]) = handed[h]

\* ipv4.rst: packets are queued until the address is resolved or given up, never
\* more than the queue has room for.
QueuedOnlyWhileWaiting ==
  \A h \in Hosts :
    /\ cache[h].pending # <<>> <=> IsWaitReply(h)
    /\ Len(cache[h].pending) <= IF m_pendingQueueSize = 0 THEN 1 ELSE m_pendingQueueSize

\* A host's packets do not wait for ever, whatever the network does: the queue
\* is emptied (by PacketsOnce they are sent or dropped then).
EveryWaitEnds == \A h \in Hosts : cache[h].pending # <<>> ~> cache[h].pending = <<>>

\* Resolution behaves as Resolver.
Resolution == INSTANCE Resolver
                WITH Packets <- 1 .. MaxPackets,
                     waiting <- [h \in Hosts |-> cache[h].pending]

ResolverSpec == Resolution!Spec
=============================================================================
