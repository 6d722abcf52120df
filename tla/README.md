# A verification project for the power-grid simulation

The repository holds a vendored ns-3.41 and, inside it, a program of its own: a
co-simulation in which a central server and three area controllers solve an
optimal power flow together by ADMM, exchanging vectors over a simulated
wireless network. This directory models that program, and the parts of ns-3 it
rests on most (the event kernel with its event lists, ARP, and the Wi-Fi MAC), in TLA+, checks
the models with TLC and proves a good part of what is checked with TLAPS.

Paths below are relative to `src/ns-3.41/`.

## 1. Inventory

### The system

| Part | Files | State | Operations |
|---|---|---|---|
| Central server | `src/applications/model/udp-echo-server.cc` | `counter`, `current_round`, `THRESHOLD`, `m_addressList`, `ClientData[3]` (last vector, first vector, client name, number of answers), consensus and dual vectors, `args.json`, pending `TimerExpired` events | `HandleRead`, `CalculateAndSendDataBackToAreas`, `TimerExpired` |
| Area clients | `src/applications/model/udp-echo-client.cc` | `m_sent`, pending `Send` and `sendPacket` events | `Send`, `HandleRead`, `sendPacket` |
| Scenario | `scratch/script-power-grid.cc`, `config/*-conf.csv` | none of its own | builds one server and three clients, start vectors, threshold, stop time |
| Consensus update | `config/Dist_rev.jl` | reads `args.json` | one ADMM update, run by the server |
| Area optimisation | `config/solve_area1..3.jl` | none | one local optimisation, run by a client |
| Event kernel | `src/core/model/default-simulator-impl.cc`, `simulator.h`, `event-id.cc`, `event-impl.cc` | event list, clock, last uid, next uid, event count, stop flag, posts of other threads, destroy events | `Schedule`, `ScheduleWithContext`, `Cancel`, `Remove`, `IsExpired`, `Stop`, `Run`, `ScheduleDestroy`, `Destroy`, `SetScheduler` |
| Event lists | `src/core/model/map-`, `heap-`, `calendar-scheduler.cc` | a sorted map, an array, buckets with a search position | `Insert`, `PeekNext`, `RemoveNext`, `Remove` |
| ARP | `src/internet/model/arp-l3-protocol.cc`, `arp-cache.cc`, `src/internet/helper/neighbor-cache-helper.cc` | entries with state, age, retries and pending packets; one timer per cache | `Lookup`, `Receive`, `HandleWaitReplyTimeout`, `Flush`, the helper's additions and removals |
| Wi-Fi MAC | `src/wifi/model/`: `adhoc-wifi-mac.cc`, `txop.cc`, `channel-access-manager.cc`, `frame-exchange-manager.cc`, `mac-tx-middle.cc`, `mac-rx-middle.cc`, `wifi-mac-queue.cc`, `fcfs-wifi-queue-scheduler.cc`, `wifi-remote-station-manager.cc` | queues by destination, access status and its events, the MPDU being exchanged and its timer, the next sequence number, failures counted; per originator the last sequence control and collected fragments | `Queue`, `StartAccessAfterEvent`, `RequestAccess`, `StartTransmission`, `ReceivedNormalAck`, `NormalAckTimeout`, `Receive`, expiry |
| UDP sockets, IPv4, PHY | `src/internet`, `src/wifi` | receive queues, signals | a channel that delays, reorders and may lose datagrams; frames that are missed |
| Helpers, `MyApp`, other scenarios, log parser, older Julia scripts | see `PROJECT.json` | none that matters to the protocol | not modelled |

How they interact: a client sends its start vector; the server stores it in the
slot named by the vector's second float and, at the third packet of a round,
calculates and sends every client in `m_addressList` a request; a client reads
it, runs its solver, and sends the answer after the solver's time. Server and
clients share the process: an `exit(1)`, an uncaught exception or a fault in
one ends all. Every calculation schedules a `TimerExpired` event, which closes
the round it finds open: with the answers that came, with the clients' first
vectors, or by sending the previous requests again. All of them are events of
the kernel, which takes the earliest from its event list, sets the clock, and
runs it; a handler schedules others and may cancel, remove or stop. A datagram
for a neighbour whose MAC address is not known waits in the ARP cache until a
reply comes, or is dropped after the retries. Then it is a frame in the MAC's
queue, sent when the medium is free, acknowledged, and sent again if no Ack
comes; at the other end repeated frames are dropped before ARP and IP see them.

### What is hard

* The timers. None is cancelled, and the handler arms another for each it
  consumes and one more when it calculates.
* Late, lost and reordered packets of several rounds at once, with one integer
  compared with one float between them and the current calculation.
* Slots indexed by a number from the packet, which the server assigns by order
  of arrival, while everything else goes by area.
* A slot holds the last answer until a request is sent, and the request after
  that; a reset puts the first vector back.
* Vectors without names: cut by counts, printed by the script, parsed from the
  last lines of its log, and concatenated again, in four different orders.
* Failures that are printed and not handled: a failed update, an area without
  a slot, a script that exits.
* No timer in round 1; clients that repeat their start vector.
* In the kernel: events that cancel, remove and schedule others of their own
  time; an `EventId` that is a copy of a key; a flag read without its mutex.
* In the event lists: a heap hole filled from the end, a calendar whose width
  is sampled by taking events out, a search that must start early enough after
  every resize and every change of scheduler.
* In ARP: one timer for entries that began to wait at different times; replies
  that come after an entry was given up, flushed or replaced.
* In the MAC: three kinds of events that may ask for access, none of which may be
  one too few; Acks that are lost after the frame has arrived; queues per
  destination merged by time stamps; sequence numbers that come round; trains of
  fragments that another frame, an expiry or the last retry cuts short.

What makes each component correct: the server counts each area once per round
and never mixes rounds; it always has a timer pending; each request goes to
the area it is built for. A client answers each request once. Together they
keep opening rounds, whatever is lost, and the process does not die. The
vectors the server keeps are the ones the areas solve with, and the two duals
of a border balance. The kernel runs every event once, in order, unless
cancelled, and loses no post. An event list gives back the earliest event, and
all of them. ARP queues only while it waits, and no wait is for ever. The link
may lose packets, but neither repeats nor reorders what one sender sends.

The full list, with lines and the properties that watch each one, is
`hazards` in `PROJECT.json`.

## 2. Modules

| Module | Models |
|---|---|
| `GridNetwork` | areas, vectors, datagrams in flight, the process they share |
| `EchoServer` | the server: `HandleRead` (`Ignore`, `Collect`, `Complete`), `CalculateAndSendDataBackToAreas` (`ResendFirst`, `SolveAndSend`), `TimerExpired` (`CalculateWithoutRest`, `ResendInitial`, `ResendPrevious`) |
| `EchoClient` | the clients: `ClientSend`, `ClientHandleRead`, `SendPacket` |
| `PowerGrid` | the composition, its fairness, and the properties |
| `RoundBarrier` | the abstract specification: rounds closed by all answers or by a timer that fires |
| `MCPowerGrid` | `PowerGrid` for TLC, with a bound on late packets |
| `PowerGridProofs`, `PowerGridRoundProofs`, `PowerGridCountProofs` | theorems about `PowerGrid` |
| `Iteration` | the numbers: how vectors are cut, updated, printed, read, concatenated and cut again |
| `IterationProofs` | theorems about `Iteration` |
| `EventKey` | what events are ordered by |
| `EventQueue` | the abstract event list (and `MapScheduler`, which is the standard library's sorted map) |
| `Loops` | loops as functions of the number of their turns |
| `HeapScheduler`, `CalendarScheduler` | the two event lists with algorithms of their own |
| `Schedulers` | a simulator's event list through `SetScheduler`: either of them, changed at any time; refines `EventQueue` |
| `SchedulersProofs` | theorems about `Schedulers` |
| `Simulator` | the event kernel with other threads; refines `EventQueue` |
| `SimulatorProofs` | theorems about `Simulator` |
| `Resolver` | the abstract specification of address resolution |
| `Arp` | the cache, its timer, requests and replies; refines `Resolver` |
| `ArpProofs` | theorems about `Arp` |
| `LossyLink` | the abstract specification of one sender's link |
| `WifiLink` | the MAC of one sender and of its receivers; refines `LossyLink` |
| `WifiLinkProofs` | theorems about `WifiLink` |

`PowerGrid` EXTENDS `EchoServer` and `EchoClient`, which both EXTEND
`GridNetwork`. `RoundBarrier` is instantiated in `PowerGrid` with
`round <- current_round`, `answered <- AnsweredAreas` and the server's own `timers`.
`EventQueue` is instantiated three times: `Schedulers` shows that what is in the
heap or the calendar behaves as its `queue`; `Simulator` that the kernel, with
its set of keys, makes only the calls it allows. `Resolver` sees of an ARP entry
its pending packets. `LossyLink` sees of `WifiLink` the packets handed over and
those each station passed up; it is why the channel of `GridNetwork` may lose a
datagram but never doubles one. (That channel reorders: datagrams of
different senders overtake each other, and solving times differ.)

Operators named in a comment as mutants are alternatives to the definition
after them; no specification uses them. They are there to see that each
property notices a plausible mistake.

### How state and actions correspond: the protocol

* An action is one event of the simulator, a whole handler. ns-3 runs one event
  at a time, so handlers do not interleave inside. The `while` loop of the two
  `HandleRead` functions, which reads all that is queued, is one action per
  packet; nothing else can run in between, so this only adds interleavings.
* `ClientData` keeps the record of the code without `t` and `obj`. A vector is
  its layout (`form`), first float (`round`), second float (`num`) and whether
  its length is that of its layout (`size`). `nbr_response`, which is only
  compared with 1, stops at 2.
* `addressList` is `m_addressList`; as each client has one address and the csv
  files name it, an entry is the area.
* `json[a]` says whether `args.json` has an entry for area `a` and whether
  `Dist_rev.jl` can slice it; `duals` does the same for the six vectors of
  the server. Initially `args.json` is absent or complete, left by an earlier
  simulation.
* A client's script succeeds on a request of the right shape (the solver itself
  is assumed to find an answer), and fails when the number in the request cuts
  the vector into a different number of pieces than the area's script takes. On
  a request shorter than its layout the client reads past the buffer: the model
  lets it answer or die. An empty packet kills it.
* `Dist_rev.jl` fails on vectors of the wrong length after printing nine
  lengths; the last six lines are then parsed as duals of length one or zero
  (`duals = "short"`). If it fails earlier, past `MAX_ITER` or for want of an
  area's entry, a blank line is among the last six and `parseFloatVector`
  throws.
* In round 1, with a slot nobody wrote, `ClientData[0].vector.back()` or
  `end() - 24` reads through the null pointer of an empty vector: the process
  dies.
* `timers` holds the round each pending event was armed in. The event carries
  no round; it is a history variable for properties and refinement. As every
  timer waits the same `THRESHOLD`, they fire in the order of arming.
* Datagrams are sets: the channel may delay and reorder without bound and, if
  `Lossy`, drop. It does not duplicate.
* All clients start at 1.0 s and repeat their start vector every 10000 s, far
  longer than a datagram lives: `ClientSend` requires the previous turn to be
  over. With the default simulation time of 1000 s, `MaxSends` is 1.

### The numbers

`Iteration` follows the vectors themselves through a round: `StartVector` and
`FirstStored` (round 1), `Received` (an area cuts its request, its solver returns some border
solution of a small set, `Answer` puts round and number in front), `Erased` and
the entries of `args.json`, `Dist_rev.jl`'s update, `Printed`, the six-line shift
register over the log (`LastSix`), `Read`, `VecToConcat`, `VecToSend`. A round
is one step; the messages are `PowerGrid`'s business. It ends in one of the three ways
`TimerExpired` and `HandleRead` have:

* `Calculate`: some areas answered, and those that are late have answered before
  (`responded`, the areas whose `nbr_response` is above 1, which counts over all rounds).
  The slot of a late area holds what it was sent.
* `ResendInitial`: some answered, but another never did. The slots go back to the
  vectors of round 1 and with them the answers just heard, but the areas have responded: one
  of them may be late in the next round, and then the first update is made with
  its first vector.
* `ResendPrevious`: nobody answered.

`answers`, `slots` and `late` are history, for the properties about late areas.

Floats are integers scaled by `Scale`, and all numbers are multiples of `unit`, which every update halves: its quotients by `rho` and by 2 leave no
rest as long as `unit` can be halved, which `Calculate` requires (a bound on
updates, not on what is computed). The six digits of the printed text, and so
rounding, are left out. Vectors have `N` entries instead of 24. What happens
after a failed script is also left to `PowerGrid`.

### The event kernel

* `pc` is where the main thread is; between its steps other threads `Post` and
  `Announce` (the two assignments of `ScheduleWithContext` under the mutex, which
  the main thread's unlocked `Check` can see apart). `Check` may read the old
  value of the flag: it is a plain `bool`.
* What an event does is any sequence of calls: `Schedule`, `Cancel`, ... are
  enabled when `pc` is in an event, before `Run` or after it. `ScheduleNow` is
  `Schedule(0)`. A `Stop(delay)` event only sets the flag.
* An event is its key. `ids` are those of which the program holds an `EventId`,
  `cancelled` those whose `m_cancel` is set, `ran` those notified (history).
* Destroy events all carry the reserved uid 2, so they are named by the number
  of their call; their list is searched by implementation pointer in the code.
* `Room` bounds the calls: a uid is kept for each post still to come, so that
  the bound never stops a drain halfway.
* The other threads end before `Destroy`, as the code requires of its callers
  (a post after the last drain is lost with the process). The simulator is not
  started again after `Destroy`.

### The event lists

* `HeapScheduler` is the 1-based array with `BottomUp` and `TopDown`;
  `CalendarScheduler` the buckets with width, last bucket, its end and the last
  priority, with `ResizeUp`, `ResizeDown` and the sampling of `CalculateNewWidth`.
  Both orders of the buckets are checked (the attribute `Reverse` is fixed at
  the start). `MaxBuckets` bounds the number of buckets.
* A loop of the code is `Repeat`, so many turns of an operator that says what one turn
  does; where the code's loop ends earlier, the turns left change nothing. `BottomUp`
  and `TopDown` are given more turns than they can need. A fold of the
  community modules or a recursive operator would say the same, but the provers
  can reason about neither.
* The unsigned differences of `CalculateNewWidth` are differences of integers in
  the model. That is the same, because they are never negative (theorem
  `SamplesInOrder`).
* `Schedulers` inserts any key that is not before the last one, takes the next,
  removes any event of the calendar, and changes the scheduler, which drains one
  list into the other. Of the heap the passing run only takes the next event:
  `Remove` breaks it, which is a run of its own.

### ARP

* One interface with its cache. Ages are counted in ticks from `m_lastSeen` and
  stop above every timeout. Requests and replies are counted per host; the
  network answers them late, out of order or not at all. The first request of an
  entry is delayed by a jitter of `MaxJitter` ticks at most.
* `Lookup` has the five cases of the code; `HandleWaitReplyTimeout` treats all
  waiting entries whenever the one timer fires; `Receive` takes a reply only for
  an entry that waits; `Flush` is the change of the link.
* `AddEntry` and `RemoveEntry` are the dynamic updates of
  `NeighborCacheHelper`. They are not used by the scenario; only the
  theorem on the timer has them.

### The Wi-Fi MAC

* The scenario is an ad hoc 802.11b network without QoS, so one `Txop` and
  Normal Acks. One sender is modelled with the stations in its range. Other
  senders, collisions and noise show as frames (`Miss`) and Acks (`LoseAck`)
  that are not heard, at any time. RTS/CTS is not used: the
  threshold is above every frame.
* An action is one event: a packet from above (`Queue`), the two scheduled
  requests for access, the grant when the backoff is over (`GrantAccess`), the
  start of the next fragment, the end of a broadcast, an Ack, a timeout, a frame
  at a station. `StartTransmission` and `NotifyChannelReleased` are the functions
  these handlers call.
* `queue` has one sequence per destination. The scheduler orders destinations
  by the time stamp of the first MPDU; `now` is a counter that
  makes stamps of successive packets differ. Packets queued within one event
  have equal stamps in the code, which then orders them by queue.
* An Ack cannot come after its timeout: the timer is put off while a frame is
  being received (`RxStartIndication`), so `NormalAckTimeout` needs an air that is idle.
* `Expire` is the end of a lifetime (500 ms after a packet was queued, whenever
  that is noticed): the packet queued longest of those not in flight.
* `m_ssrc` is one counter for all destinations, as in the code. It is not reset
  by the Ack of a fragment that others follow.
* `FirstFragment` and `NextFragment` are new MPDUs with a new stamp, put in
  place of the old; `body` is the packet their bytes come from, which
  `GetNextFragment` takes from `m_fragmentedPacket`. The size of a packet
  is whether it is in `LongPackets`; these have `Pieces` fragments.
* A fragment's new stamp puts it, and what waits behind it for the same station,
  after packets that came later for other stations. `LossyLink` allows that
  much disorder and no more: with `Long = {}` packets arrive in order.
* `HandleFragments` has the cases of `mac-rx-middle.cc`; `NoControl` is its
  0xffff, whose fragment number 15 no fragment here has (`Pieces` is 15 at most).

## 3. Properties and runs

Passing runs:

| Run | Instance | Shows |
|---|---|---|
| `rounds` | 3 areas, rounds 1 to 5, lossy, `MAX_ITER` 4, from round 4 on at most one packet of a closed round alive | `TypeOK`; `CounterCountsAreas`; `OnePacketPerAreaAndRound`; `NothingFromTheFuture`; the server implements `RoundBarrier`; `NoMixedIterations`; `EarlyRequestsAreOwn`; `AbortHasCause`; `NoOldResults`; `TimersBounded`; `AsksEveryArea` |
| `progress` | 2 areas, rounds 1 to 4, lossy, two start vectors each, solvers that may never answer | `FirstRoundHasEveryArea`; `MiscountStaysInFirstRound`; `RoundsKeepClosing`; `FirstRoundCloses` |
| `iteration` | vectors of 3 entries, 3 possible solutions, rounds 2 to 5, two updates | `DualsBalance`; `AreasUseStoredVectors`; `OnlyPartnersFail` |
| `schedulers` | 5 events at 5 times, up to 4 buckets | `HoldsEveryEvent`; `EventsInTheirBuckets`; `SearchStartsInTime`; the lists implement `EventQueue` |
| `simulator` | 4 uids, delays 0 and 1, one thread with two posts, two destroy events | `CountAgrees`; `ExpiryIsExact`; `CancelledNeverRuns`; `PostsNeitherLostNorDoubled`; `WaitingPostsAreAnnounced`; `PostsInOrder`; `DestroyInOrder`; the kernel uses its list as `EventQueue` allows |
| `arp` | 2 hosts, 3 packets, queue of 2, one retry, one change of the link | `QueuedOnlyWhileWaiting`; `TimerCoversWaiting`; `PacketsOnce`; `EveryWaitEnds`; ARP implements `Resolver` |
| `wifi` | 2 stations, 3 packets to either or both, the first of 3 fragments, queue of 2, 2 attempts, 2 sequence numbers | `AccessIsPending`; `AckedIsForwarded`; `ForwardedOnce`; `EveryPacketLeaves`; the MAC implements `LossyLink` |

Five runs check what a comment or a document says and find it violated:

| Run | Claim | What the code does |
|---|---|---|
| `stale_timer` | a timer guards the broadcast it was armed with | a timer left from a finished round closes a later one |
| `client_number` | a request carries the client's number | it carries the client's place in the order of arrival |
| `heap_remove` | `RemoveNext` returns the earliest event | after `HeapScheduler::Remove` from the middle it may return a later one: the event put into the hole is only moved down |
| `wifi_mixed` | the next fragment is one of the current packet | it is cut from the packet that was fragmented last, for whichever station |
| `previous_data` | an area that does not answer counts with previous data (comments at `udp-echo-server.cc:90` and `:106`, `src/README.md:34`) | it counts with the request it was sent, taken for an answer |

`wifi_mixed` needs a `FragmentationThreshold` below its default of 65535, which
`cmd.Parse` of the script lets a user set. What follows from `previous_data` is in
`OnlyPartnersFail`: the update fails if area 2 or 3 is late; area 1's request happens
to be long enough, and goes into the duals.

Other disagreements met while modelling. They have no run; the models behave
like the code in each.

* `counter` counts packets, not areas: a client that repeats its start vector
  in round 1 is counted twice (`udp-echo-server.cc:433`).
* When the script fails, the last six lines of its log go out as the new
  request (`udp-echo-server.cc:564`).
* The slices of round 1 start at the round and number and end at rho
  (`udp-echo-server.cc:520`); what is stored then is one or two places off.
* `Stop(delay)` does not keep earlier events of the stop time from running
  (`simulator.h:164` says at which time it stops).
* Posts of other threads that come during the last event stay in the list when
  `Run` returns (`default-simulator-impl.cc:195`) until the next `Run` or
  `Destroy` drains them.
* A neighbour that `NeighborCacheHelper` adds while packets wait for it keeps them
  for ever (`neighbor-cache-helper.cc:377`): the entry is resolved, the reply is
  ignored, and the timer passes it over. `ipv4.rst:110` says that packets are
  queued until the address is resolved. The model has it in `AddEntry`.
* A receiver whose sender gave up within a train of fragments acknowledges every
  later whole frame of it and drops it (`mac-rx-middle.cc:235`);
  `mac-rx-middle.h:94` says a packet that is no fragment is returned. That is the
  exception `BrokenOff` in `AckedIsForwarded`.
* After the Ack of a fragment an older frame for another station may be first in
  line (`frame-exchange-manager.cc:896`), where the comment at 891 says that the
  next fragment is sent. That is what `BehindLong` in `LossyLink` allows.
* A full ARP queue drops the new packet; the comment at `arp-cache.cc:472` says
  it replaces the previous one.

### Bounds

* `total_of_node` is 3 as in the code. 2 areas are enough for
  `progress`, where areas only matter as someone who is missing or counted twice;
  its two invariants are proved for any number.
* `MaxRound` stops the handlers that open a round. Three rounds contain the
  first exchange, the first calculation and answers to its requests; in five,
  the state the second calculation leaves (permuted slots, short duals, an area
  without a slot) is calculated with, resent and answered once more. From round
  3 on every round is like the ones before it: all slots are of the open
  round (`NoMixedIterations`, proved) and every number of answers is saturated.
* `MaxLate` bounds packets of closed rounds still on their way once more than
  `FreeRounds` rounds are open; up to three there may be any number. Such a packet is
  dropped by the server or solved in vain by a client. The theorems need neither bound.
* `MaxSends` 2 suffices for double counting: two packets end round 1 with two areas.
* `iteration`: three entries tell apart a shift by one from a shift by two and a
  vector from a list of one; two updates show a start state and a state the
  program made itself; four rounds leave room for a reset or a resend before, between or
  after them. The number of updates is bounded by `Scale`, as `unit` must be halved.
* `schedulers`: five events make the calendar grow twice and shrink again; five
  times make a year of buckets wrap. Seven events are needed for the
  misplaced one in the heap, hence the larger bound of `heap_remove`.
* `simulator`: four uids make two events of one time, one of a later one and a
  Stop; two posts of one thread suffice for order and for a post during a drain.
  More threads differ by name only; the theorems are for any number.
* `arp`: two hosts are needed for entries that share the timer and began to wait
  at different times; one retry has both a timeout that asks again and one that
  gives up; three packets fill a queue of two.
* `wifi`: two stations are the least with queues to merge and a broadcast to hear at
  different times; three packets overfill the queue, and make two sequence
  numbers come round, so that a new frame has the number of the last; with two
  attempts there are a retry and a failure, and the counter of failures is
  carried over to the other station. Three fragments are
  a first, a middle and a last one. The theorems are for any of these numbers.
* Deadlock is checked for `schedulers` and `arp`. Elsewhere the process may die,
  a lost start vector stalls round 1, the simulator is gone after `Destroy`, or
  the bounds end every behaviour.

### Fairness

`progress` assumes weak fairness of `TimerExpired` (an event that is scheduled
is run, as simulated time passes, until `Simulator::Stop`), that clients start,
and that what is sent to the server is received or lost. Nothing is assumed of clients
once started: a solver may never answer. `RoundsKeepClosing` needs only the
timers, `FirstRoundCloses` only the delivery.

`arp` assumes that the event loop runs what is due: `Tick`, the timer and the
scheduled requests. Nothing is assumed of the network, which may lose every
request and every reply.

`wifi` assumes that scheduled events run, that the medium is
idle now and then (so that an access requested is granted: the backoff counts
down whenever it is), and that a frame on the air is over at some time, heard or
not. Nothing is assumed of what is heard: every frame and every Ack may be missed.
No fairness of `Queue` or `Expire` is assumed.

## 4. Proofs

### `PowerGridProofs`

Holds for every number of areas, rounds and
start vectors, lossy or not, under the assumptions named in `GridNetwork` and
`EchoServer` (the constants are numbers, there is at least one area, and the
name of an empty slot is no area).

* `TypeCorrect`: `Spec => []TypeOK`. `TypeOK` alone is not inductive: the
  number of a request is an index into `addressList`, which is only an index of
  `ClientData` if the list is no longer than the number of areas. `TypeInv`
  adds that the list repeats no area; `DistinctIsShort` gets the length from the
  theorem on injections between finite sets. `HandleReadType`, `TimerType` and
  `ClientType` treat one handler each, over lemmas on the helper operators.
* `TimersLaw`: `Spec => []TimersBounded`. It is inductive with `TypeInv`; a step
  leaves the list, appends, or removes the head and appends once or
  twice, and the lemmas `TailOrdered`, `AppendOrdered` and `AppendSame` say what
  each keeps.
* `RoundsNotAhead`: `Spec => []NothingFromTheFuture`, with lemmas on what
  `Restamped`, `Broadcast` and the calculation do to the rounds in slots and
  packets.

### `PowerGridRoundProofs`

Two more invariants of `PowerGrid`, under the same assumptions and with the
types, timers and rounds of `PowerGridProofs`.

* `OnePacketHolds`: `Spec => []OnePacketPerAreaAndRound`. The inductive `OneInv`
  says it without counting: of an area and a round there is at most one packet in
  each of `down`, `solving` and `up`, and in only one of the three. Receiving and
  answering move a packet from one set to the next; only the server adds one,
  and `ServerSends` says that whatever it sends is one packet per client at most, of
  the round it just opened, of which by `RoundsNotAhead` nothing is on its
  way yet.
* `NoMixHolds`: `Spec => []NoMixedIterations`. A resend puts requests of the
  new round only into the slots of clients, one per address, so what is needed is
  that all slots have a client once round 1 is over. The inductive `SlotInv`
  says so: the clients of the slots have been heard, and in rounds after the first
  every slot names one; hence `Restamped` and the calculation leave no slot behind.

### `PowerGridCountProofs`

The rest of the protocol's safety, under the same assumptions. One inductive
invariant, `AllInv`, is made of the five before (`TypeInv`, `TimersBounded`,
`NothingFromTheFuture`, `OneInv`, `SlotInv`) and of `CountInv`, which says what the
counter, the slots and the numbers in the vectors have to do with each other:

* In round 1 (`FirstRound`) a slot is empty or holds the start vector of its own
  area. The counter is at least the number of slots written, more if one was
  written twice, and equal to it if clients send once.
* In later rounds all areas have been heard and the counter is the number of slots that
  hold an answer. There is one numbering of the areas, an injection: their own
  index before the first calculation, their place in the client list after it.
  Slots hold the number of their client (`Filed`); a packet of the open round
  carries the number of its area, which has not answered yet (`PacketsFiled`);
  before the first calculation, or when the areas were heard in order, the
  number is the area's place and vectors are whole until duals are lost
  (`Placed`).

`CountInv` is needed because an answer is filed by the number *in* it, which the
server wrote a round earlier: that it is counted once follows only
from what was sent, what is still under way and what is held, together. Every way
of opening a round (a complete round, a timer before or after the first
calculation) goes through one description, `Opens`; `FirstOpens`, `SolveOpens`
and `ResendCounts` show that each fits it, and `CountOpens` that the invariant
is restored by it.

* `CounterHolds`, `AbortHolds` and `ImplementsBarrier` assume `MaxSends <= 1`,
  clients that send their start vector once, as the script's interval of
  10000 s has it. Without it the first two are false: a start vector that comes
  twice is counted twice in round 1. The run `progress` shows what is
  left then.
* `MiscountHolds`, `FirstRoundHolds`, `EarlyHolds`, `AskHolds` and `NoOldHolds`
  hold for any number of start vectors.
* `ImplementsBarrier`: every step of the three handlers is a step of
  `RoundBarrier` or a stutter, with the areas whose answer is held as its
  `answered`.

### `IterationProofs`

For vectors of any length above 1, any `rho`, seeds and number of rounds, under
`IterationAssumption` (the scale is a multiple of `rho`).

The inductive `IInv` says, while the script has not failed: every number in
the store and in the requests is a multiple of `unit`, every dual of `rho * unit`;
vectors have their lengths; and once there was an update, each request holds,
within round, number and `rho`, what `VecToConcat` makes of the store. That is lost by a
reset, so `Responses` has to say that none can follow: an update is only made when all
areas have responded, and they have for good.

* `DualsHold`: `[]DualsBalance`. `BorderEntry` is the algebra: with both
  quotients exact, consensus minus half of what the two sides say cancels in the
  sum of the two duals. `UpdateIs` carries it through printing, the shift register
  and reading back in the order of printing. The old duals need not
  balance: round 1's, sliced at the wrong place, do not.
* `FailHolds`: `[]OnlyPartnersFail`. By `VectorIs` an erased request, or first
  vector after a reset, has four numbers less than were sent: 2N - 1 for area 2 or 3,
  never N, as N is not 1; 4N - 1 for area 1, always enough.
* `StoredUsed`: `[]AreasUseStoredVectors`. `CutTwo` and `CutFour` undo the
  concatenation, `FramedIs` the frame, and `RestampIs` says that a resend leaves
  what is inside alone.

### `ArpProofs`

For any hosts, timeouts, retries, queue limit and bounds, under `ArpAssumption`
(they are numbers, and the reply timeout is not 0).

* `TypeCorrect`; the retries of an entry stay below the limit because only
  `Again` counts them up.
* `TimerLaw`: `[]TimerCoversWaiting`, with and without the neighbour cache
  helper. Inductive with `TypeOK`: an entry that begins to wait has age 0 and the
  timer at most `m_waitReplyTimeout` left; a tick adds to one what it takes from
  the other; the timer handler resets both. So no waiting entry is ever found
  expired, and `Lookup`'s fatal error is unreachable.
* `QueueLawHolds`: `[]QueuedOnlyWhileWaiting`, for `Spec` (`AddEntry` of the helper
  breaks it).
* `OnceHolds`: `[]PacketsOnce`. The inductive `PlacedAll` says it without counting: the
  packets that wait, were sent and were dropped are disjoint, none is twice in a
  queue, and together they are those handed over; that sizes add up follows
  at the end.
* `ImplementsResolver`: `Spec => ResolverSpec`, from the two invariants: each
  action maps to one of `Resolver` or to a stutter.

### `SchedulersProofs`

For any number of events, times and days, and either order of the buckets, under
`BoundsAssumption` and `BucketsAssumption` (the bounds are numbers, and a
calendar may have two days at least).

`SchedulersInv` is inductive (`SchedulersCorrect`). It says that no two events held
have the same uid and none is due before the last one taken; that the heap is a list
of the events held, each once, and no event in it is due before its parent
(`InHeapOrder`); and that the calendar `Holds` them: each bucket is the sorted list
of the events its days hash to (`Filed`), the search starts in the day of
`lastPrio` (`Timed`), and nothing is due before that (`Since`). None of it can be
left out: a heap out of order still holds every event but yields the wrong
one, and so does a calendar whose search starts late.

* Loops: by `Turns` a loop's function exists, and by `Kept` what each turn keeps
  holds after the last one. Induction goes through `LeastNatural`, which is
  proved from finite sets: the library's induction takes an operator.
* Heap: on its way up (`Rising`) or down (`Sinking`) one event may be out of order
  with its parent or its children, and the events around it are in order with
  each other. `RiseStep` and `SinkStep` keep that for one turn; what is left
  of the way shrinks, so the turns given are enough. `RootFirst`: the root is
  the earliest.
* Calendar: `SortedInsert`, `SortedRemove` and `SortedNext` are about one
  bucket, `Refiled` carries an operation on one bucket to the calendar. The search is
  arithmetic (`YearDay`): the days of a year go through all buckets
  once, an event due k days after the last one is found on turn k at the latest
  (`DueFound`), and what a bucket offers before the end of a day is of that
  day (`FoundDue`). So the first day found has the earliest event (`NextThisYear`),
  and with none found the minimum is taken over all buckets (`NextLater`).
* Resizing: sampling takes events out and puts them back (`ResampledIs`), and moving
  them bucket by bucket files each in the new calendar (`MovedIs`), whatever its
  number of days and their width. `SamplesInOrder`: samples come in the order of
  their times, so no subtraction wraps around.
* `SetSchedulerHolds`: draining yields each event once, filling takes each up, and a
  calendar that starts at time 0 starts its search before all of them.

From the invariant follow `HeapHoldsEveryEvent`, `BucketsAreRight` (with a
bijection between the places of the calendar and the events held),
`SearchIsInTime` and the refinement `ImplementsQueue`.

### `SimulatorProofs`

For any number of threads, posts, delays and destroy events, under
`SimulatorAssumption` (finitely many threads, numbers, no key cut off, a uid
for every post). One inductive invariant, `IInv`, carries all the safety properties of
the run:

* `LoopInv` (where the main thread can be), `ListInv` (waiting keys are distinct
  and later than the clock's key; the count), `IdInv` (an id given out is in the
  list, cancelled, or not later than the clock's key);
* `PostTypes`, `PostPlaces`, `PostLine` (a post without a key is at one place of
  one of the two lists; posts of a thread stay in line), `PostKeys` (a key given
  to a post is nobody's id, due at most its delay after now, in the list until it
  has run);
* `DestroyInv` (pending destroy events are in order and later than those run);
* `UidInv` (with a uid kept for each post to come, uids and time stamps
  never pass their bounds).

`Made` ties time to uids (an event is due at most `MaxDelay` after the one
made before it), which is what bounds time stamps. From the invariant follow
`TypeCorrect`, `CountHolds`, `ExpiryHolds`, `CancelHolds`, `PostsHold`,
`PostOrderHolds`, `DestroyOrderHolds` and the refinement `ImplementsQueue`;
`AnnouncementHolds` is inductive by itself.

### `WifiLinkProofs`

For any stations, queue limit, retries, sequence modulus, fragments and packets,
under `WifiAssumption` and `NoMpduAssumption` (`NoMpdu` is no exchange).

* `TypeCorrect`, `AccessHolds`: the inductive `Base` adds `ExchangeOK` to the
  two: while the timer runs, what is exchanged is the first MPDU of its
  queue. Without it neither the types (a timeout takes the tail of that queue)
  nor the wake-ups would be kept. One lemma per handler, over four on the shapes
  of sequences with a new head, a spared head or a tail.
* `OnceHolds`: `[]ForwardedOnce`, with fragments. What makes it inductive is
  `Fresh`. `QueuesInOrder`: packets in a queue increase. `QueuedAreNew`: a
  queued packet was passed up nowhere, except the one at the head that is being
  exchanged or repeated, which its receiver then knows as the last it saw and the
  sender marks as a retry (`Repeated`). So a second copy is a duplicate to the
  receiver, whatever the modulus (`NotPassedBefore`).

`OrderInv` adds what is needed for order and for Acks, with fragments:

* `Ordered`, for the refinement. `Pieced`: only the first MPDU of a station's queue
  may be a fragment, and its packet is long. `Stamped`: an MPDU that is no fragment
  has an older stamp than any of a later packet; a fragment's stamp is renewed and
  says nothing. `Ahead`: all that waits `Follows` what is exchanged, and what was
  passed up: it was handed over later, or it goes behind a long packet to another
  station. `OldestFirst` shows that the scheduler's choice by stamp keeps that. Steps
  that serve, drop or renew MPDUs share one description, `Drawn`: each MPDU in a queue
  was there, no further ahead, or is a fragment cut from the first.
* `Trains`, for the Acks. A station is `InTrain` when it awaits the fragment that is
  first in the queue, has just collected it (and the Ack is due or was lost), took
  the first for a repetition of an older frame with its number, or has passed the
  packet up; outside a train it awaits none. That is lost only when the sender gives up
  a long packet, and then every packet that still waits for the station is later
  (`Broken`), which is how `BrokenOff` comes about. `LastKnown`: a number remembered,
  while no fragments are awaited, is that of a frame passed up.
* `AcksHold`: `[]AckedIsForwarded`; `ImplementsLossyLink`: `Spec => LinkSpec`.

### Only model-checked

Every safety property and refinement of the passing runs is stated by a theorem.
`HeapScheduler::Remove` is outside the theorems, as it breaks the order of the heap (run
`heap_remove`). Liveness (`RoundsKeepClosing`, `FirstRoundCloses`, `EveryWaitEnds`,
`EveryPacketLeaves`) stays with TLC, as the prover does not handle fairness and
ENABLED.

## 5. Not modelled

* Text: the six digits a float is printed with, the format of logs.
* Durations of the protocol. Whether a threshold of 8 s is met by solvers that take
  more than 8 s is left open: both orders occur in `PowerGrid`.
* Solver failures on well-formed requests; what the solvers compute.
* Histories, residuals and stop criterion of `Dist_rev.jl`.
* Of the kernel: the list and priority-queue schedulers, the real-time and
  distributed simulators, contexts, a second life after `Destroy`. The uid has 32
  bits in the code and is not checked for overflow; the model ends before.
* Of ARP: permanent entries, which nothing here creates, and the answering
  side's own cache.
* Of Wi-Fi: RTS/CTS, QoS, aggregation, block Acks, infrastructure and mesh modes,
  which the scenario does not use; the backoff's lengths, rate control and the
  PHY, whose outcome (a frame is heard or missed) is left open.
* The UDP socket's receive queue and IPv4 fragmentation, which are part of the
  channel here.
* Socket setup and teardown, tracing, statistics, mobility.
* All other models of the vendored ns-3, most of the repository's lines (LTE, TCP, routing protocols, ...): the
  program does not run them, and nothing here depends on them.

## 6. Plan

*Done:* the protocol with the proofs of all its safety properties; the numbers
(`Iteration`), likewise; the event lists, the kernel and ARP, each with proofs of all its
safety properties and of its refinement; the Wi-Fi MAC, likewise.

Left, in this order:

1. The composition of `Arp`, `WifiLink` and the channel of `GridNetwork`: a lost
   datagram is then one that ARP or the MAC dropped.
2. `GridTimed`: a clock, the threshold and solving times; refines `PowerGrid` and
   asks when a round is cut short.
3. The UDP socket's receive queue, with its limit in bytes.
