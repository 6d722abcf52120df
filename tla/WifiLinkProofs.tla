--------------------------- MODULE WifiLinkProofs ---------------------------
(***************************************************************************)
(* Theorems about WifiLink, for any stations, queue limit, number of       *)
(* retransmissions, sequence numbers, fragments and packets.               *)
(***************************************************************************)
EXTENDS WifiLink, TLAPS

(* What the actions do to one of the queues                                *)

LEMMA AppendShape ==
  ASSUME NEW S, NEW q \in Seq(S), NEW m \in S
  PROVE  /\ Append(q, m) \in Seq(S) /\ Len(Append(q, m)) = Len(q) + 1
         /\ \A i \in DOMAIN Append(q, m) :
              Append(q, m)[i] = IF i = Len(q) + 1 THEN m ELSE q[i]
OBVIOUS

LEMMA TailShape ==
  ASSUME NEW S, NEW q \in Seq(S), q # <<>>
  PROVE  /\ Head(q) = q[1] /\ Head(q) \in S /\ 1 \in DOMAIN q
         /\ Tail(q) \in Seq(S) /\ Len(Tail(q)) = Len(q) - 1
         /\ \A i \in DOMAIN Tail(q) : i + 1 \in DOMAIN q /\ Tail(q)[i] = q[i + 1]
OBVIOUS

LEMMA NewHeadShape ==
  ASSUME NEW S, NEW q \in Seq(S), q # <<>>, NEW m \in S
  PROVE  /\ <<m>> \o Tail(q) \in Seq(S) /\ DOMAIN (<<m>> \o Tail(q)) = DOMAIN q
         /\ <<m>> \o Tail(q) # <<>> /\ Head(<<m>> \o Tail(q)) = m
         /\ \A i \in DOMAIN q : (<<m>> \o Tail(q))[i] = IF i = 1 THEN m ELSE q[i]
<1> DEFINE r == <<m>> \o Tail(q)
<1>1. Tail(q) \in Seq(S) /\ Len(Tail(q)) = Len(q) - 1 /\ Len(q) \in Nat /\ Len(q) > 0
  OBVIOUS
<1>2. r \in Seq(S) /\ Len(r) = Len(q)
  BY <1>1
<1>3. \A i \in 1 .. Len(q) : r[i] = IF i = 1 THEN m ELSE q[i]
  BY <1>1
<1> QED
  BY <1>1, <1>2, <1>3

LEMMA SpareHeadShape ==
  ASSUME NEW S, NEW q \in Seq(S), q # <<>>, Tail(q) # <<>>
  PROVE  LET r == <<Head(q)>> \o Tail(Tail(q)) IN
         /\ r \in Seq(S) /\ Len(r) = Len(q) - 1 /\ r # <<>> /\ Head(r) = Head(q)
         /\ \A i \in DOMAIN r : i \in DOMAIN q /\ i + 1 \in DOMAIN q
                                /\ r[i] = IF i = 1 THEN q[1] ELSE q[i + 1]
<1>1. Tail(q) \in Seq(S) /\ Len(Tail(q)) = Len(q) - 1 /\ Len(q) \in Nat /\ Len(q) > 1
  OBVIOUS
<1>2. /\ Tail(Tail(q)) \in Seq(S) /\ Len(Tail(Tail(q))) = Len(q) - 2
      /\ \A i \in 1 .. Len(q) - 2 : Tail(Tail(q))[i] = q[i + 2]
  BY <1>1
<1>3. Head(q) \in S /\ Head(q) = q[1]
  OBVIOUS
<1> DEFINE r == <<Head(q)>> \o Tail(Tail(q))
<1>4. r \in Seq(S) /\ Len(r) = Len(q) - 1
  BY <1>1, <1>2, <1>3
<1>5. \A i \in 1 .. Len(q) - 1 : r[i] = IF i = 1 THEN q[1] ELSE q[i + 1]
  BY <1>1, <1>2, <1>3
<1>6. DOMAIN q = 1 .. Len(q) /\ DOMAIN r = 1 .. Len(q) - 1
  BY <1>1, <1>4
<1>7. r # <<>> /\ Head(r) = Head(q)
  BY <1>1, <1>3, <1>4, <1>5
<1> HIDE DEF r
<1>8. \A i \in DOMAIN r : i \in DOMAIN q /\ i + 1 \in DOMAIN q
                         /\ r[i] = IF i = 1 THEN q[1] ELSE q[i + 1]
  BY <1>1, <1>5, <1>6
<1> QED
  BY <1>4, <1>7, <1>8 DEF r

----------------------------------------------------------------------------
(* The inductive invariant                                                 *)

\* An exchange with one station is about the first MPDU queued for it, and the
\* timer runs until it is over.
ExchangeOK ==
  /\ m_txTimer <=> m_mpdu # NoMpdu /\ m_mpdu.to # Broadcast
  /\ m_txTimer => /\ queue[m_mpdu.to] # <<>> /\ Head(queue[m_mpdu.to]) = m_mpdu.mpdu
                  /\ ~NeedFragmentation(m_mpdu.mpdu, m_mpdu.to)
                  /\ left \subseteq {m_mpdu.to}
  /\ air = "ack" => m_txTimer /\ left = {}
  /\ air = "data" => m_mpdu # NoMpdu

Base == TypeOK /\ AccessIsPending /\ ExchangeOK

\* m may be an MPDU of a packet for d.
Known(m, d) ==
  /\ m.packet \in DOMAIN destination /\ destination[m.packet] = d
  /\ d = Broadcast => ~m.more

QueuesInOrder ==
  /\ \A d \in Destinations : \A i \in DOMAIN queue[d] :
       /\ Known(queue[d][i], d)
       /\ \A j \in DOMAIN queue[d] : i < j => queue[d][i].packet < queue[d][j].packet
  /\ m_mpdu # NoMpdu => Known(m_mpdu.mpdu, m_mpdu.to)
  /\ m_mpdu # NoMpdu /\ m_mpdu.to = Broadcast =>
       \A i \in DOMAIN queue[Broadcast] : m_mpdu.mpdu.packet < queue[Broadcast][i].packet

PassedUp(s, p) == \E i \in DOMAIN forwarded[s] : forwarded[s][i].packet = p

\* The first MPDU for s will be sent again, or is about to be found unanswered,
\* and s knows it for a duplicate.
Repeated(s) ==
  /\ ~queue[s][1].more /\ ~NeedFragmentation(queue[s][1], s)
  /\ ~rx[s].defragmenting /\ rx[s].last = Control(queue[s][1])
  /\ queue[s][1].retry \/ (m_txTimer /\ m_mpdu.to = s /\ left = {})

\* What a station has passed up and is queued still is a repeated first MPDU.
QueuedAreNew ==
  \A s \in Stations :
    /\ \A p \in Packets : PassedUp(s, p) => p \in DOMAIN destination
    /\ \A d \in Destinations : \A i \in DOMAIN queue[d] :
         PassedUp(s, queue[d][i].packet) => d = s /\ i = 1 /\ Repeated(s)
    /\ m_mpdu # NoMpdu /\ m_mpdu.to = Broadcast /\ s \in left =>
         ~PassedUp(s, m_mpdu.mpdu.packet)


----------------------------------------------------------------------------
(* MPDUs                                                                   *)

LEMMA MpduParts ==
  ASSUME NEW m \in Mpdus
  PROVE  /\ m.packet \in Packets /\ m.seq \in Numbers
         /\ m.frag \in 0 .. Pieces - 1 /\ m.more \in BOOLEAN /\ m.retry \in BOOLEAN
         /\ m.body \in Packets \cup {0} /\ m.stamp \in Nat
         /\ m.more => m.frag + 1 < Pieces
         /\ m = [packet |-> m.packet, seq |-> m.seq, frag |-> m.frag, more |-> m.more,
                 retry |-> m.retry, body |-> m.body, stamp |-> m.stamp]
BY DEF Mpdus

LEMMA MpduMade ==
  ASSUME NEW p \in Packets, NEW n \in Numbers, NEW f \in 0 .. Pieces - 1,
         NEW mo \in BOOLEAN, NEW re \in BOOLEAN, NEW b \in Packets \cup {0}, NEW t \in Nat,
         mo => f + 1 < Pieces
  PROVE  [packet |-> p, seq |-> n, frag |-> f, more |-> mo, retry |-> re,
          body |-> b, stamp |-> t] \in Mpdus
BY DEF Mpdus

LEMMA NextNumberType ==
  ASSUME TypeOK
  PROVE  NextSequenceNumber \in Numbers
BY WifiAssumption DEF TypeOK, NextSequenceNumber, Numbers

LEMMA WholeType ==
  ASSUME TypeOK, NEW p \in Packets
  PROVE  Whole(p) \in Mpdus
<1>1. 0 \in Numbers /\ 0 \in 0 .. Pieces - 1 /\ now \in Nat
  BY WifiAssumption DEF TypeOK, Numbers
<1> QED
  BY <1>1, MpduMade DEF Whole

\* What a transmission makes of the first MPDU, and of the one it sends.
LEMMA NumberedType ==
  ASSUME TypeOK, NEW m \in Mpdus
  PROVE  /\ Numbered(m) \in Mpdus
         /\ Numbered(m).packet = m.packet /\ Numbered(m).more = m.more
         /\ Numbered(m).frag = m.frag /\ Numbered(m).retry = m.retry
         /\ Numbered(m).stamp = m.stamp /\ Numbered(m).body = m.body
         /\ m.retry => Numbered(m) = m
<1>1. m_sequence \in Numbers
  BY DEF TypeOK
<1>2. [m EXCEPT !.seq = m_sequence] =
        [packet |-> m.packet, seq |-> m_sequence, frag |-> m.frag, more |-> m.more,
         retry |-> m.retry, body |-> m.body, stamp |-> m.stamp]
  BY MpduParts
<1>3. [m EXCEPT !.seq = m_sequence] \in Mpdus
  BY <1>1, <1>2, MpduParts, MpduMade
<1> QED
  BY <1>2, <1>3 DEF Numbered

LEMMA FirstFragmentType ==
  ASSUME TypeOK, NEW m \in Mpdus, ~IsFragment(m)
  PROVE  /\ FirstFragment(m) \in Mpdus
         /\ FirstFragment(m).packet = m.packet /\ FirstFragment(m).more
         /\ FirstFragment(m).frag = m.frag /\ FirstFragment(m).seq = m.seq
<1>1. now \in Nat
  BY DEF TypeOK
<1>2. m.frag = 0 /\ 0 + 1 < Pieces
  BY WifiAssumption DEF IsFragment, Mpdus
<1> QED
  BY <1>1, <1>2 DEF FirstFragment, Mpdus

LEMMA NextFragmentType ==
  ASSUME TypeOK, NEW m \in Mpdus, m.more
  PROVE  /\ NextFragment(m) \in Mpdus /\ NextFragment(m).packet = m.packet
         /\ NextFragment(m).frag = m.frag + 1
<1> DEFINE more == m.frag + 2 < Pieces
<1>1. now \in Nat /\ m_fragmentedPacket \in Packets \cup {0}
  BY DEF TypeOK
<1>2. /\ m.frag + 1 \in 0 .. Pieces - 1 /\ more \in BOOLEAN
      /\ more => (m.frag + 1) + 1 < Pieces
  BY WifiAssumption DEF Mpdus
<1> HIDE DEF more
<1>3. NextFragment(m) = [m EXCEPT !.frag = m.frag + 1, !.more = more,
                                  !.body = m_fragmentedPacket, !.stamp = now]
  BY DEF NextFragment, more, Mpdus
<1> QED
  BY <1>1, <1>2, <1>3 DEF Mpdus

LEMMA RetryType ==
  ASSUME NEW m \in Mpdus
  PROVE  /\ [m EXCEPT !.retry = TRUE] \in Mpdus
         /\ [m EXCEPT !.retry = TRUE].retry
         /\ [m EXCEPT !.retry = TRUE].packet = m.packet
         /\ [m EXCEPT !.retry = TRUE].seq = m.seq
         /\ [m EXCEPT !.retry = TRUE].frag = m.frag
         /\ [m EXCEPT !.retry = TRUE].more = m.more
         /\ [m EXCEPT !.retry = TRUE].stamp = m.stamp
BY DEF Mpdus

----------------------------------------------------------------------------
(* Types, and that access is asked for                                     *)

LEMMA InitBase == Init => Base
<1> SUFFICES ASSUME Init PROVE Base
  OBVIOUS
<1>1. 0 \in Numbers /\ <<>> \in Seq(Mpdus) /\ <<>> \in Seq(Destinations)
  BY WifiAssumption DEF Numbers
<1>2. TypeOK
  <2>1. rx \in [Stations -> RxStatus]
    <3>1. [defragmenting |-> FALSE, last |-> NoControl, fragments |-> <<>>] \in RxStatus
      BY DEF RxStatus, Controls
    <3> QED
      BY <3>1 DEF Init
  <2>2. forwarded \in [Stations -> Seq(Frames)]
    BY DEF Init
  <2>3. destination \in Seq(Destinations) /\ Len(destination) <= MaxPackets
    BY WifiAssumption DEF Init
  <2>4. queue \in [Destinations -> Seq(Mpdus)]
    BY DEF Init
  <2> QED
    BY <1>1, <2>1, <2>2, <2>3, <2>4 DEF Init, TypeOK
<1>3. AccessIsPending
  BY DEF Init, AccessIsPending, HasFramesToTransmit
<1>4. ExchangeOK
  BY DEF Init, ExchangeOK
<1> QED
  BY <1>2, <1>3, <1>4 DEF Base

LEMMA QueueBase ==
  ASSUME Base, NEW d \in Destinations, Queue(d)
  PROVE  Base'
<1> DEFINE p == Len(destination) + 1
<1>1. TypeOK /\ AccessIsPending /\ ExchangeOK
  BY DEF Base
<1>2. p \in Packets /\ Whole(p) \in Mpdus
  <2>1. p \in Packets
    BY <1>1 DEF TypeOK, Packets, Queue
  <2> QED
    BY <1>1, <2>1, WholeType
<1>3. queue' = queue \/ queue' = [queue EXCEPT ![d] = Append(queue[d], Whole(p))]
  BY DEF Queue
<1>4. queue' \in [Destinations -> Seq(Mpdus)]
  <2>1. queue \in [Destinations -> Seq(Mpdus)] /\ queue[d] \in Seq(Mpdus)
    BY <1>1 DEF TypeOK
  <2>2. Append(queue[d], Whole(p)) \in Seq(Mpdus)
    BY <1>2, <2>1, AppendShape
  <2> QED
    BY <1>3, <2>1, <2>2
<1>5. /\ destination' \in Seq(Destinations) /\ Len(destination') <= MaxPackets
      /\ lost' \subseteq Packets /\ now' \in Nat
  BY <1>1, <1>2 DEF TypeOK, Queue
<1>6. TypeOK'
  BY <1>1, <1>4, <1>5 DEF TypeOK, Queue, exchangeVars, stationVars
<1>7. AccessIsPending'
  BY <1>1 DEF AccessIsPending, Queue, exchangeVars
<1>8. ExchangeOK'
  <2>1. ASSUME m_txTimer
        PROVE  queue'[m_mpdu.to] # <<>> /\ Head(queue'[m_mpdu.to]) = Head(queue[m_mpdu.to])
    <3>1. m_mpdu.to \in Destinations /\ queue[m_mpdu.to] \in Seq(Mpdus) /\ queue[m_mpdu.to] # <<>>
      BY <1>1, <2>1 DEF ExchangeOK, TypeOK, Exchanges
    <3>2. CASE queue' = queue
      BY <3>1, <3>2
    <3>3. CASE queue' = [queue EXCEPT ![d] = Append(queue[d], Whole(p))]
      <4>1. /\ Append(queue[m_mpdu.to], Whole(p)) # <<>>
            /\ Head(Append(queue[m_mpdu.to], Whole(p))) = Head(queue[m_mpdu.to])
        BY <1>2, <3>1
      <4> QED
        BY <1>1, <3>1, <3>3, <4>1 DEF TypeOK
    <3> QED
      BY <1>3, <3>2, <3>3
  <2> QED
    BY <1>1, <2>1 DEF ExchangeOK, Queue, exchangeVars, NeedFragmentation, IsFragment
<1> QED
  BY <1>6, <1>7, <1>8 DEF Base

LEMMA ExpireBase ==
  ASSUME Base, NEW d \in Destinations, Expire(d)
  PROVE  Base'
<1> DEFINE spared == <<Head(queue[d])>> \o Tail(Tail(queue[d]))
<1>1. TypeOK /\ AccessIsPending /\ ExchangeOK
  BY DEF Base
<1>2. queue \in [Destinations -> Seq(Mpdus)] /\ queue[d] \in Seq(Mpdus)
  BY <1>1 DEF TypeOK
<1>3. InFlight(d) => queue[d] # <<>> /\ Tail(queue[d]) # <<>>
  BY <1>1 DEF ExchangeOK, Expire, NotInFlight, InFlight
<1>4. ~InFlight(d) => queue[d] # <<>>
  BY DEF Expire, NotInFlight
<1>5. queue' = [queue EXCEPT ![d] = IF InFlight(d) THEN spared ELSE Tail(queue[d])]
  BY DEF Expire
<1>6. InFlight(d) => spared \in Seq(Mpdus) /\ spared # <<>> /\ Head(spared) = Head(queue[d])
  BY <1>2, <1>3, SpareHeadShape
<1>7. ~InFlight(d) => Tail(queue[d]) \in Seq(Mpdus)
  BY <1>2, <1>4, TailShape
<1> HIDE DEF spared
<1>8. queue' \in [Destinations -> Seq(Mpdus)]
  BY <1>2, <1>5, <1>6, <1>7
<1>9. NotInFlight(d) \in Seq(Mpdus) /\ NotInFlight(d) # <<>>
  BY <1>2, <1>3, <1>4, TailShape DEF NotInFlight, Expire
<1>10. lost' \subseteq Packets
  <2>1. Head(NotInFlight(d)) \in Mpdus
    BY <1>9, TailShape
  <2>2. Head(NotInFlight(d)).packet \in Packets
    BY <2>1, MpduParts
  <2> QED
    BY <1>1, <2>2 DEF Expire, TypeOK
<1>11. TypeOK'
  BY <1>1, <1>8, <1>10 DEF TypeOK, Expire, accessVars, exchangeVars, stationVars
<1>12. HasFramesToTransmit' => HasFramesToTransmit
  BY <1>2, <1>3, <1>4, <1>5 DEF HasFramesToTransmit
<1>13. AccessIsPending'
  BY <1>1, <1>12 DEF AccessIsPending, Expire, accessVars, exchangeVars
<1>14. ASSUME m_txTimer
       PROVE  queue'[m_mpdu.to] # <<>> /\ Head(queue'[m_mpdu.to]) = Head(queue[m_mpdu.to])
  <2>1. m_mpdu.to \in Destinations /\ queue[m_mpdu.to] # <<>>
    BY <1>1, <1>14 DEF ExchangeOK, TypeOK, Exchanges
  <2>2. CASE m_mpdu.to = d
    <3>1. InFlight(d)
      BY <1>14, <2>2 DEF InFlight
    <3> QED
      BY <1>2, <1>5, <1>6, <2>2, <3>1
  <2>3. CASE m_mpdu.to # d
    BY <1>2, <1>5, <2>1, <2>3
  <2> QED
    BY <2>2, <2>3
<1>15. ExchangeOK'
  BY <1>1, <1>14 DEF ExchangeOK, Expire, exchangeVars, NeedFragmentation, IsFragment
<1> QED
  BY <1>11, <1>13, <1>15 DEF Base

LEMMA AccessEventsBase ==
  ASSUME Base, StartAccessAfterEvent \/ RequestAccess
  PROVE  Base'
<1>1. TypeOK /\ AccessIsPending /\ ExchangeOK
  BY DEF Base
<1>2. UNCHANGED <<queue, now, m_sequence, m_ssrc, m_fragmentedPacket, sifsEvent, m_mpdu, m_txTimer,
                  air, left, rx, destination, forwarded, acked, lost>>
  BY DEF StartAccessAfterEvent, RequestAccess, queueVars, exchangeVars, stationVars, history
<1>3. /\ access' \in {"NOT_REQUESTED", "REQUESTED", "GRANTED"}
      /\ accessEvent' \in BOOLEAN /\ requestEvent' \in BOOLEAN
  BY <1>1 DEF TypeOK, StartAccessAfterEvent, RequestAccess
<1>4. TypeOK'
  BY <1>1, <1>2, <1>3 DEF TypeOK
<1>5. AccessIsPending'
  BY <1>1, <1>2 DEF AccessIsPending, TypeOK, HasFramesToTransmit, StartAccessAfterEvent,
     RequestAccess
<1>6. ExchangeOK'
  BY <1>1, <1>2 DEF ExchangeOK, NeedFragmentation, IsFragment
<1> QED
  BY <1>4, <1>5, <1>6 DEF Base

\* A new exchange begins when none is under way.
LEMMA Idle ==
  ASSUME Base, access = "REQUESTED" \/ sifsEvent
  PROVE  m_mpdu = NoMpdu /\ ~m_txTimer
BY DEF Base, AccessIsPending, ExchangeOK

LEMMA TransmitBase ==
  ASSUME Base, ~m_txTimer, NEW d \in Destinations, queue[d] # <<>>, NEW m \in Mpdus,
         ~NeedFragmentation(m, d), Transmit(d, m)
  PROVE  /\ queue' \in [Destinations -> Seq(Mpdus)] /\ m_mpdu' \in Exchanges
         /\ m_txTimer' \in BOOLEAN /\ air' \in {"idle", "data", "ack"}
         /\ left' \subseteq Stations /\ m_mpdu' # NoMpdu /\ ExchangeOK'
<1>1. queue \in [Destinations -> Seq(Mpdus)] /\ queue[d] \in Seq(Mpdus)
  BY DEF Base, TypeOK
<1>2. Tail(queue[d]) \in Seq(Mpdus)
  BY <1>1, TailShape
<1>3. /\ <<m>> \o Tail(queue[d]) \in Seq(Mpdus) /\ <<m>> \o Tail(queue[d]) # <<>>
      /\ Head(<<m>> \o Tail(queue[d])) = m
  BY <1>1, NewHeadShape
<1>4. m_mpdu' = [mpdu |-> m, to |-> d] /\ air' = "data"
  BY DEF Transmit
<1>5. m_mpdu' \in Exchanges /\ m_mpdu' # NoMpdu /\ m_mpdu'.mpdu = m /\ m_mpdu'.to = d
  BY <1>4, NoMpduAssumption DEF Exchanges
<1>6. CASE d = Broadcast
  <2>1. /\ queue' = [queue EXCEPT ![d] = Tail(queue[d])]
        /\ m_txTimer' = FALSE /\ left' = Stations
    BY <1>6 DEF Transmit
  <2>2. ExchangeOK'
    BY <1>4, <1>5, <1>6, <2>1 DEF ExchangeOK
  <2> QED
    BY <1>1, <1>2, <1>4, <1>5, <2>1, <2>2
<1>7. CASE d # Broadcast
  <2>1. /\ queue' = [queue EXCEPT ![d] = <<m>> \o Tail(queue[d])]
        /\ m_txTimer' = TRUE /\ left' = {d}
    BY <1>7 DEF Transmit
  <2>2. queue'[d] # <<>> /\ Head(queue'[d]) = m
    BY <1>1, <1>3, <2>1
  <2>3. ExchangeOK'
    BY <1>4, <1>5, <1>7, <2>1, <2>2 DEF ExchangeOK, NeedFragmentation, IsFragment
  <2>4. left' \subseteq Stations
    BY <1>7, <2>1 DEF Destinations
  <2> QED
    BY <1>1, <1>3, <1>4, <1>5, <2>1, <2>3, <2>4
<1> QED
  BY <1>6, <1>7

\* What StartTransmission sends.
LEMMA Sent ==
  ASSUME Base, NEW d \in Destinations, queue[d] # <<>>
  PROVE  LET m == Numbered(Head(queue[d])) IN
         /\ Head(queue[d]) \in Mpdus /\ m \in Mpdus
         /\ NeedFragmentation(m, d) => /\ FirstFragment(m) \in Mpdus
                                       /\ ~NeedFragmentation(FirstFragment(m), d)
<1>1. Head(queue[d]) \in Mpdus
  BY TailShape DEF Base, TypeOK
<1> DEFINE m == Numbered(Head(queue[d]))
<1>2. m \in Mpdus
  BY <1>1, NumberedType DEF Base
<1> HIDE DEF m
<1>3. ASSUME NeedFragmentation(m, d)
      PROVE  FirstFragment(m) \in Mpdus /\ ~NeedFragmentation(FirstFragment(m), d)
  <2>1. ~IsFragment(m)
    BY <1>3 DEF NeedFragmentation
  <2>2. FirstFragment(m) \in Mpdus /\ FirstFragment(m).more
    BY <1>2, <2>1, FirstFragmentType DEF Base
  <2> QED
    BY <2>2 DEF NeedFragmentation, IsFragment
<1> QED
  BY <1>1, <1>2, <1>3 DEF m

LEMMA StartTransmissionBase ==
  ASSUME Base, access = "REQUESTED" \/ sifsEvent, sifsEvent' = FALSE,
         UNCHANGED <<accessEvent, stationVars, history>>, StartTransmission
  PROVE  Base'
<1>1. TypeOK /\ AccessIsPending /\ ExchangeOK /\ m_mpdu = NoMpdu /\ ~m_txTimer
  BY Idle DEF Base
<1>2. CASE ~HasFramesToTransmit /\ NotifyChannelReleased /\ UNCHANGED <<queueVars, exchangeVars>>
  <2> USE <1>2 DEF NotifyChannelReleased, queueVars, exchangeVars, stationVars, history
  <2>1. TypeOK'
    <3>1. (requestEvent \/ HasFramesToTransmit') \in BOOLEAN
      BY <1>1 DEF TypeOK
    <3> QED
      BY <1>1, <3>1 DEF TypeOK
  <2>2. AccessIsPending'
    BY <1>1, <1>2 DEF AccessIsPending
  <2>3. ExchangeOK'
    BY <1>1, <1>2 DEF ExchangeOK
  <2> QED
    BY <2>1, <2>2, <2>3 DEF Base
<1>3. ASSUME NEW d \in Destinations, IsNext(d), access' = "GRANTED",
             m_sequence' = IF IsFragment(Numbered(Head(queue[d]))) \/ Numbered(Head(queue[d])).retry
                           THEN m_sequence ELSE NextSequenceNumber,
             UNCHANGED <<m_ssrc, requestEvent>>,
             NEW m \in Mpdus, ~NeedFragmentation(m, d), Transmit(d, m),
             now' \in Nat, m_fragmentedPacket' \in Packets \cup {0}
      PROVE  Base'
  <2>1. queue[d] # <<>>
    BY <1>3 DEF IsNext
  <2>2. /\ queue' \in [Destinations -> Seq(Mpdus)] /\ m_mpdu' \in Exchanges
        /\ m_txTimer' \in BOOLEAN /\ air' \in {"idle", "data", "ack"}
        /\ left' \subseteq Stations /\ m_mpdu' # NoMpdu /\ ExchangeOK'
    BY <1>1, <1>3, <2>1, TransmitBase
  <2>3. m_sequence' \in Numbers
    BY <1>1, <1>3, NextNumberType DEF TypeOK
  <2>4. TypeOK'
    BY <1>1, <1>3, <2>2, <2>3 DEF TypeOK, stationVars, history
  <2>5. AccessIsPending'
    BY <1>3, <2>2 DEF AccessIsPending
  <2> QED
    BY <2>2, <2>4, <2>5 DEF Base
<1>4. ASSUME NEW d \in Destinations, IsNext(d)
      PROVE  LET m == Numbered(Head(queue[d])) IN
             /\ m \in Mpdus /\ m.packet \in Packets
             /\ NeedFragmentation(m, d) => /\ FirstFragment(m) \in Mpdus
                                           /\ ~NeedFragmentation(FirstFragment(m), d)
  BY <1>4, Sent, MpduParts DEF IsNext
<1>5. now \in Nat /\ now + 1 \in Nat /\ m_fragmentedPacket \in Packets \cup {0}
  BY <1>1 DEF TypeOK
<1> QED
  BY <1>2, <1>3, <1>4, <1>5 DEF StartTransmission

LEMMA SendingBase ==
  ASSUME Base, GrantAccess \/ SendNextFragment
  PROVE  Base'
<1>1. CASE GrantAccess
  <2>1. sifsEvent = FALSE
    BY <1>1 DEF GrantAccess, Base, AccessIsPending, TypeOK
  <2> QED
    BY <1>1, <2>1, StartTransmissionBase DEF GrantAccess
<1>2. CASE SendNextFragment
  BY <1>2, StartTransmissionBase DEF SendNextFragment
<1> QED
  BY <1>1, <1>2

\* The exchange is over and nothing of it is on the air.
LEMMA ReleasedPending ==
  ASSUME NotifyChannelReleased, m_mpdu' = NoMpdu, sifsEvent' = FALSE
  PROVE  AccessIsPending'
BY DEF NotifyChannelReleased, AccessIsPending

LEMMA TransmissionEndsBase ==
  ASSUME Base, TransmissionEnds
  PROVE  Base'
<1> USE DEF TransmissionEnds, queueVars, stationVars, history
<1>1. TypeOK /\ AccessIsPending /\ ExchangeOK
  BY DEF Base
<1>2. m_mpdu # NoMpdu /\ ~m_txTimer /\ sifsEvent = FALSE
  BY <1>1 DEF ExchangeOK, AccessIsPending, TypeOK
<1>3. AccessIsPending'
  BY <1>2, ReleasedPending
<1>4. TypeOK'
  BY <1>1 DEF TypeOK, NotifyChannelReleased, HasFramesToTransmit
<1>5. ExchangeOK'
  BY <1>2 DEF ExchangeOK
<1> QED
  BY <1>3, <1>4, <1>5 DEF Base

\* What the sender waits for an Ack of.
LEMMA Awaited ==
  ASSUME Base, m_txTimer
  PROVE  /\ m_mpdu \in Exchanges /\ m_mpdu.mpdu \in Mpdus /\ m_mpdu.to \in Stations
         /\ m_mpdu # NoMpdu /\ ~sifsEvent
         /\ queue[m_mpdu.to] \in Seq(Mpdus) /\ queue[m_mpdu.to] # <<>>
         /\ Head(queue[m_mpdu.to]) = m_mpdu.mpdu
<1>1. TypeOK /\ AccessIsPending /\ ExchangeOK
  BY DEF Base
<1>2. m_mpdu # NoMpdu /\ m_mpdu.to # Broadcast /\ ~sifsEvent
  BY <1>1 DEF ExchangeOK, AccessIsPending
<1>3. m_mpdu \in Exchanges
  BY <1>1, <1>2 DEF TypeOK
<1> QED
  BY <1>1, <1>2, <1>3 DEF ExchangeOK, TypeOK, Exchanges, Destinations

LEMMA ReceivedNormalAckBase ==
  ASSUME Base, ReceivedNormalAck
  PROVE  Base'
<1> DEFINE m == m_mpdu.mpdu
           d == m_mpdu.to
<1>1. TypeOK /\ AccessIsPending /\ ExchangeOK /\ m_txTimer
  BY DEF Base, ReceivedNormalAck
<1>2. /\ m \in Mpdus /\ d \in Stations /\ d \in Destinations /\ m_mpdu # NoMpdu /\ ~sifsEvent
      /\ queue[d] \in Seq(Mpdus) /\ queue[d] # <<>>
  BY <1>1, Awaited DEF Destinations
<1>3. /\ air' = "idle" /\ m_txTimer' = FALSE /\ m_mpdu' = NoMpdu
      /\ UNCHANGED <<m_sequence, accessEvent, m_fragmentedPacket, left, rx, forwarded,
                     destination, lost>>
  BY DEF ReceivedNormalAck, stationVars
<1>4. CASE m.more
  <2>1. /\ queue' = [queue EXCEPT ![d] = <<NextFragment(m)>> \o Tail(queue[d])]
        /\ now' = now + 1 /\ sifsEvent' = TRUE
        /\ UNCHANGED <<m_ssrc, acked, access, requestEvent>>
    BY <1>4 DEF ReceivedNormalAck, TransmissionSucceeded
  <2>2. <<NextFragment(m)>> \o Tail(queue[d]) \in Seq(Mpdus)
    BY <1>1, <1>2, <1>4, NextFragmentType, NewHeadShape
  <2>3. queue' \in [Destinations -> Seq(Mpdus)]
    BY <1>1, <2>1, <2>2 DEF TypeOK
  <2>4. TypeOK'
    <3>1. now' \in Nat /\ sifsEvent' \in BOOLEAN
      BY <1>1, <2>1 DEF TypeOK
    <3> HIDE DEF m, d
    <3> QED
      BY <1>1, <1>3, <2>1, <2>3, <3>1 DEF TypeOK
  <2>5. AccessIsPending'
    BY <1>1, <1>2, <1>3, <2>1 DEF AccessIsPending
  <2>6. ExchangeOK'
    BY <1>3 DEF ExchangeOK
  <2> QED
    BY <2>4, <2>5, <2>6 DEF Base
<1>5. CASE ~m.more
  <2>1. /\ queue' = [queue EXCEPT ![d] = Tail(queue[d])] /\ m_ssrc' = 0
        /\ acked' = acked \cup {[packet |-> m.packet, seq |-> m.seq, to |-> d]}
        /\ NotifyChannelReleased /\ UNCHANGED <<now, sifsEvent>>
    BY <1>5 DEF ReceivedNormalAck, TransmissionSucceeded
  <2>2. queue' \in [Destinations -> Seq(Mpdus)]
    BY <1>1, <1>2, <2>1, TailShape DEF TypeOK
  <2>3. acked' \subseteq [packet : Packets, seq : Numbers, to : Stations]
    BY <1>1, <1>2, <2>1, MpduParts DEF TypeOK
  <2>4. AccessIsPending'
    BY <1>1, <1>2, <1>3, <2>1, ReleasedPending DEF TypeOK
  <2>5. TypeOK'
    BY <1>1, <1>3, <2>1, <2>2, <2>3 DEF TypeOK, NotifyChannelReleased, HasFramesToTransmit
  <2>6. ExchangeOK'
    BY <1>3 DEF ExchangeOK
  <2> QED
    BY <2>4, <2>5, <2>6 DEF Base
<1> QED
  BY <1>4, <1>5

LEMMA NormalAckTimeoutBase ==
  ASSUME Base, NormalAckTimeout
  PROVE  Base'
<1> DEFINE d == m_mpdu.to
           again == [Head(queue[d]) EXCEPT !.retry = TRUE]
<1>1. TypeOK /\ AccessIsPending /\ ExchangeOK /\ m_txTimer
  BY DEF Base, NormalAckTimeout
<1>2. /\ m_mpdu.mpdu \in Mpdus /\ d \in Destinations /\ m_mpdu # NoMpdu /\ ~sifsEvent
      /\ queue[d] \in Seq(Mpdus) /\ queue[d] # <<>> /\ Head(queue[d]) = m_mpdu.mpdu
  BY <1>1, Awaited DEF Destinations
<1>3. /\ air' = "idle" /\ m_txTimer' = FALSE /\ m_mpdu' = NoMpdu /\ NotifyChannelReleased
      /\ UNCHANGED <<now, m_sequence, accessEvent, sifsEvent, m_fragmentedPacket, left, rx,
                     forwarded, destination, acked>>
  BY DEF NormalAckTimeout, stationVars
<1>4. \/ /\ m_ssrc' = m_ssrc + 1 /\ lost' = lost
         /\ queue' = [queue EXCEPT ![d] = <<again>> \o Tail(queue[d])]
      \/ /\ m_ssrc' = 0 /\ lost' = lost \cup {m_mpdu.mpdu.packet}
         /\ queue' = [queue EXCEPT ![d] = Tail(queue[d])]
  BY DEF NormalAckTimeout
<1>5. <<again>> \o Tail(queue[d]) \in Seq(Mpdus) /\ Tail(queue[d]) \in Seq(Mpdus)
  BY <1>2, RetryType, NewHeadShape, TailShape
<1> HIDE DEF again
<1>6. queue' \in [Destinations -> Seq(Mpdus)] /\ lost' \subseteq Packets /\ m_ssrc' \in Nat
  <2>1. queue \in [Destinations -> Seq(Mpdus)] /\ lost \subseteq Packets /\ m_ssrc \in Nat
    BY <1>1 DEF TypeOK
  <2>2. m_mpdu.mpdu.packet \in Packets
    BY <1>2, MpduParts
  <2> HIDE DEF d
  <2>3. queue' \in [Destinations -> Seq(Mpdus)]
    BY <1>2, <1>4, <1>5, <2>1
  <2> QED
    BY <1>4, <2>1, <2>2, <2>3
<1>7. AccessIsPending'
  BY <1>1, <1>2, <1>3, ReleasedPending DEF TypeOK
<1>8. TypeOK'
  BY <1>1, <1>3, <1>6 DEF TypeOK, NotifyChannelReleased, HasFramesToTransmit
<1>9. ExchangeOK'
  BY <1>3 DEF ExchangeOK
<1> QED
  BY <1>7, <1>8, <1>9 DEF Base

LEMMA LostOnAirBase ==
  ASSUME Base, LoseAck \/ \E s \in Stations : Miss(s)
  PROVE  Base'
<1> USE DEF LoseAck, Miss, queueVars, accessVars, stationVars, history
<1>1. TypeOK /\ AccessIsPending /\ ExchangeOK
  BY DEF Base
<1>2. /\ UNCHANGED <<queue, now, m_sequence, access, accessEvent, requestEvent, sifsEvent, m_ssrc,
                     m_fragmentedPacket, m_mpdu, m_txTimer, rx, destination, forwarded, acked,
                     lost>>
      /\ left' \subseteq left /\ air' \in {air, "idle"}
  OBVIOUS
<1>3. TypeOK'
  BY <1>1, <1>2 DEF TypeOK
<1>4. AccessIsPending'
  BY <1>1, <1>2 DEF AccessIsPending, HasFramesToTransmit
<1>5. ExchangeOK'
  BY <1>1, <1>2 DEF ExchangeOK, NeedFragmentation, IsFragment
<1> QED
  BY <1>3, <1>4, <1>5 DEF Base

LEMMA ControlType ==
  ASSUME NEW m \in Mpdus
  PROVE  Control(m) \in Controls /\ Control(m) # NoControl
BY MpduParts DEF Control, Controls, NoControl, Numbers

\* What becomes of a frame at a station: nothing, a part is kept, or it is
\* passed up.
LEMMA Received ==
  ASSUME TypeOK, NEW s \in Stations, NEW m \in Mpdus, NEW to,
         MacRxMiddleReceive(s, m, to)
  PROVE  \/ UNCHANGED stationVars /\ (IsDuplicate(s, m) \/ rx[s].defragmenting)
         \/ /\ m.more /\ ~IsDuplicate(s, m) /\ forwarded' = forwarded
            /\ \E r \in RxStatus : /\ r.last = Control(m) /\ r.defragmenting
                                   /\ rx' = [rx EXCEPT ![s] = r]
         \/ /\ ~m.more /\ ~IsDuplicate(s, m)
            /\ \E bodies \in Seq(Packets \cup {0}) : Forward(s, m, bodies)
            /\ \E r \in RxStatus :
                 /\ ~r.defragmenting
                 /\ \/ r.last = Control(m) /\ (to # Broadcast \/ rx[s].defragmenting)
                    \/ to = Broadcast /\ r = rx[s] /\ ~rx[s].defragmenting
                 /\ rx' = [rx EXCEPT ![s] = r]
<1>1. rx \in [Stations -> RxStatus] /\ rx[s] \in RxStatus
  BY DEF TypeOK
<1>2. Control(m) \in Controls /\ m.body \in Packets \cup {0}
  BY ControlType, MpduParts
<1> DEFINE kept == Append(rx[s].fragments, m.body)
<1>3. kept \in Seq(Packets \cup {0}) /\ <<m.body>> \in Seq(Packets \cup {0})
  BY <1>1, <1>2 DEF RxStatus
<1>4. CASE ~IsDuplicate(s, m) /\ HandleFragments(s, m)
  <2> HIDE DEF kept
  <2>1. CASE /\ m.more
             /\ rx' = [rx EXCEPT ![s] = [defragmenting |-> TRUE, last |-> Control(m),
                                         fragments |-> kept]]
             /\ UNCHANGED forwarded
    <3> DEFINE r == [defragmenting |-> TRUE, last |-> Control(m), fragments |-> kept]
    <3>1. r \in RxStatus /\ r.last = Control(m) /\ r.defragmenting
      BY <1>2, <1>3 DEF RxStatus
    <3> QED
      BY <1>4, <2>1, <3>1
  <2>2. CASE /\ ~m.more
             /\ rx' = [rx EXCEPT ![s] = [defragmenting |-> FALSE, last |-> Control(m),
                                         fragments |-> <<>>]]
             /\ Forward(s, m, kept)
    <3> DEFINE r == [defragmenting |-> FALSE, last |-> Control(m), fragments |-> <<>>]
    <3>1. r \in RxStatus /\ r.last = Control(m) /\ ~r.defragmenting
      BY <1>2 DEF RxStatus
    <3>2. rx[s].defragmenting
      BY <1>4, <2>2 DEF HandleFragments
    <3> QED
      BY <1>3, <1>4, <2>2, <3>1, <3>2
  <2> QED
    BY <1>4, <2>1, <2>2 DEF HandleFragments, kept
<1>5. CASE /\ ~IsDuplicate(s, m) /\ ~rx[s].defragmenting /\ ~m.more
           /\ rx' = IF to = Broadcast THEN rx ELSE [rx EXCEPT ![s].last = Control(m)]
           /\ Forward(s, m, <<m.body>>)
  <2>1. CASE to = Broadcast
    <3>1. rx' = [rx EXCEPT ![s] = rx[s]]
      BY <1>1, <1>5, <2>1
    <3> QED
      BY <1>1, <1>3, <1>5, <2>1, <3>1
  <2>2. CASE to # Broadcast
    <3> DEFINE r == [rx[s] EXCEPT !.last = Control(m)]
    <3>1. r \in RxStatus /\ r.last = Control(m) /\ r.defragmenting = rx[s].defragmenting
      BY <1>1, <1>2 DEF RxStatus
    <3>2. rx' = [rx EXCEPT ![s] = r]
      BY <1>1, <1>5, <2>2
    <3> QED
      BY <1>3, <1>5, <2>2, <3>1, <3>2
  <2> QED
    BY <2>1, <2>2
<1> QED
  BY <1>4, <1>5 DEF MacRxMiddleReceive

LEMMA ReceiveBase ==
  ASSUME Base, NEW s \in Stations, Receive(s)
  PROVE  Base'
<1> DEFINE m == m_mpdu.mpdu
<1>1. TypeOK /\ AccessIsPending /\ ExchangeOK
  BY DEF Base
<1>2. m_mpdu # NoMpdu /\ m_mpdu \in Exchanges /\ m \in Mpdus
  BY <1>1 DEF Receive, ExchangeOK, TypeOK, Exchanges
<1>3. rx' \in [Stations -> RxStatus] /\ forwarded' \in [Stations -> Seq(Frames)]
  <2>1. rx \in [Stations -> RxStatus] /\ forwarded \in [Stations -> Seq(Frames)]
    BY <1>1 DEF TypeOK
  <2>2. ASSUME NEW bodies \in Seq(Packets \cup {0}), Forward(s, m, bodies)
        PROVE  forwarded' \in [Stations -> Seq(Frames)]
    <3>1. [packet |-> m.packet, seq |-> m.seq, bodies |-> bodies] \in Frames
      BY <1>2, MpduParts DEF Frames
    <3>2. Append(forwarded[s], [packet |-> m.packet, seq |-> m.seq, bodies |-> bodies])
            \in Seq(Frames)
      BY <2>1, <3>1, AppendShape
    <3> QED
      BY <2>1, <2>2, <3>2 DEF Forward
  <2>3. MacRxMiddleReceive(s, m, m_mpdu.to)
    BY DEF Receive
  <2> HIDE DEF m
  <2>4. forwarded' = forwarded \/ \E bodies \in Seq(Packets \cup {0}) : Forward(s, m, bodies)
    BY <1>1, <1>2, <2>3, Received DEF stationVars
  <2>5. rx' = rx \/ \E r \in RxStatus : rx' = [rx EXCEPT ![s] = r]
    BY <1>1, <1>2, <2>3, Received DEF stationVars
  <2>6. rx' \in [Stations -> RxStatus]
    BY <2>1, <2>5
  <2> QED
    BY <2>1, <2>2, <2>4, <2>6
<1>4. /\ UNCHANGED <<queue, now, m_sequence, access, accessEvent, requestEvent, sifsEvent, m_ssrc,
                     m_fragmentedPacket, m_mpdu, m_txTimer, destination, acked, lost>>
      /\ left' = left \ {s} /\ air = "data" /\ s \in left
      /\ air' = IF m_mpdu.to = Broadcast THEN air ELSE "ack"
  BY DEF Receive, queueVars, accessVars, history
<1>5. TypeOK'
  BY <1>1, <1>3, <1>4 DEF TypeOK
<1>6. AccessIsPending'
  BY <1>1, <1>4 DEF AccessIsPending, HasFramesToTransmit
<1>7. ExchangeOK'
  BY <1>1, <1>2, <1>4 DEF ExchangeOK, NeedFragmentation, IsFragment
<1> QED
  BY <1>5, <1>6, <1>7 DEF Base

LEMMA BaseStep == Base /\ [Next]_wifiVars => Base'
<1> SUFFICES ASSUME Base, [Next]_wifiVars PROVE Base'
  OBVIOUS
<1>1. CASE Next
  BY <1>1, QueueBase, ExpireBase, AccessEventsBase, SendingBase, TransmissionEndsBase,
     ReceivedNormalAckBase, NormalAckTimeoutBase, LostOnAirBase, ReceiveBase DEF Next
<1>2. CASE UNCHANGED wifiVars
  BY <1>2 DEF wifiVars, queueVars, accessVars, exchangeVars, stationVars, history, Base, TypeOK,
     AccessIsPending, ExchangeOK, HasFramesToTransmit, NeedFragmentation, IsFragment
<1> QED
  BY <1>1, <1>2

LEMMA BaseHolds == Spec => []Base
BY InitBase, BaseStep, PTL DEF Spec

\* Types: sequence and fragment numbers stay below their bounds, whatever is
\* lost or sent again.
THEOREM TypeCorrect == Spec => []TypeOK
BY BaseHolds, PTL DEF Base

\* Access to the channel is asked for whenever an MPDU waits, and no exchange
\* starts before the one under way is over.
THEOREM AccessHolds == Spec => []AccessIsPending
BY BaseHolds, PTL DEF Base

----------------------------------------------------------------------------
(* A packet is passed up once                                              *)

Fresh == QueuesInOrder /\ QueuedAreNew

LEMMA InitFresh == Init => Fresh /\ ForwardedOnce
<1> SUFFICES ASSUME Init PROVE Fresh /\ ForwardedOnce
  OBVIOUS
<1>1. /\ \A d \in Destinations : DOMAIN queue[d] = {}
      /\ \A s \in Stations : DOMAIN forwarded[s] = {}
      /\ m_mpdu = NoMpdu
  BY DEF Init
<1> QED
  BY <1>1 DEF Fresh, QueuesInOrder, QueuedAreNew, PassedUp, ForwardedOnce

LEMMA QueueFresh ==
  ASSUME Base, Fresh, NEW d \in Destinations, Queue(d)
  PROVE  Fresh'
<1> DEFINE p == Len(destination) + 1
<1>1. TypeOK /\ QueuesInOrder /\ QueuedAreNew
  BY DEF Base, Fresh
<1>2. /\ destination \in Seq(Destinations) /\ destination' = Append(destination, d)
      /\ p \in Packets /\ p \notin DOMAIN destination
      /\ \A q \in DOMAIN destination : q \in DOMAIN destination' /\ q < p
                                       /\ destination'[q] = destination[q]
      /\ p \in DOMAIN destination' /\ destination'[p] = d
  BY <1>1 DEF TypeOK, Queue, Packets
<1>3. /\ UNCHANGED <<m_mpdu, m_txTimer, left, rx, forwarded>>
      /\ queue' = queue \/ queue' = [queue EXCEPT ![d] = Append(queue[d], Whole(p))]
  BY DEF Queue, exchangeVars, stationVars
<1>4. Whole(p) \in Mpdus /\ Whole(p).packet = p /\ ~Whole(p).more
  BY <1>1, <1>2, WholeType DEF Whole
<1>5. \A e \in Destinations : \A i \in DOMAIN queue'[e] :
        \/ i \in DOMAIN queue[e] /\ queue'[e][i] = queue[e][i]
        \/ e = d /\ queue'[e][i] = Whole(p) /\ \A j \in DOMAIN queue'[e] : j <= i
  <2>1. queue \in [Destinations -> Seq(Mpdus)] /\ queue[d] \in Seq(Mpdus)
    BY <1>1 DEF TypeOK
  <2> HIDE DEF p
  <2>2. CASE queue' = queue
    BY <2>2
  <2>3. CASE queue' = [queue EXCEPT ![d] = Append(queue[d], Whole(p))]
    <3>1. \A i \in DOMAIN Append(queue[d], Whole(p)) :
            \/ i \in DOMAIN queue[d] /\ Append(queue[d], Whole(p))[i] = queue[d][i]
            \/ /\ Append(queue[d], Whole(p))[i] = Whole(p)
               /\ \A j \in DOMAIN Append(queue[d], Whole(p)) : j <= i
      BY <1>4, <2>1
    <3> QED
      BY <2>1, <2>3, <3>1
  <2> QED
    BY <1>3, <2>2, <2>3
<1>6. ASSUME NEW e \in Destinations, NEW i \in DOMAIN queue'[e]
      PROVE  Known(queue[e][i], e)'
  <2> HIDE DEF p
  <2>1. CASE i \in DOMAIN queue[e] /\ queue'[e][i] = queue[e][i]
    BY <1>1, <1>2, <2>1 DEF QueuesInOrder, Known
  <2>2. CASE e = d /\ queue'[e][i] = Whole(p)
    BY <1>2, <1>4, <2>2 DEF Known
  <2> QED
    BY <1>5, <2>1, <2>2
<1>7. ASSUME NEW e \in Destinations, NEW i \in DOMAIN queue'[e], NEW j \in DOMAIN queue'[e], i < j
      PROVE  queue'[e][i].packet < queue'[e][j].packet
  <2>1. i \in DOMAIN queue[e] /\ queue'[e][i] = queue[e][i]
    <3>1. queue' \in [Destinations -> Seq(Mpdus)]
      BY QueueBase DEF Base, TypeOK
    <3>2. i \in Nat /\ j \in Nat
      BY <1>7, <3>1
    <3> QED
      BY <1>5, <1>7, <3>2
  <2> HIDE DEF p
  <2>2. CASE j \in DOMAIN queue[e] /\ queue'[e][j] = queue[e][j]
    BY <1>1, <1>7, <2>1, <2>2 DEF QueuesInOrder
  <2>3. CASE queue'[e][j] = Whole(p)
    BY <1>1, <1>2, <1>4, <2>1, <2>3 DEF QueuesInOrder, Known
  <2> QED
    BY <1>5, <2>2, <2>3
<1>8. QueuesInOrder'
  <2> HIDE DEF p
  <2>1. m_mpdu # NoMpdu => Known(m_mpdu.mpdu, m_mpdu.to)'
    BY <1>1, <1>2, <1>3 DEF QueuesInOrder, Known
  <2>2. m_mpdu # NoMpdu /\ m_mpdu.to = Broadcast =>
          \A i \in DOMAIN queue'[Broadcast] :
            m_mpdu.mpdu.packet < queue'[Broadcast][i].packet
    BY <1>1, <1>2, <1>4, <1>5 DEF QueuesInOrder, Known, Destinations
  <2>3. m_mpdu' = m_mpdu
    BY <1>3
  <2>4. \A e \in Destinations : \A i \in DOMAIN queue'[e] :
          /\ Known(queue[e][i], e)'
          /\ \A j \in DOMAIN queue'[e] : i < j => queue'[e][i].packet < queue'[e][j].packet
    BY <1>6, <1>7
  <2> QED
    BY <2>1, <2>2, <2>3, <2>4 DEF QueuesInOrder
<1>9. QueuedAreNew'
  <2> HIDE DEF p
  <2>1. \A s \in Stations, q \in Packets : PassedUp(s, q)' <=> PassedUp(s, q)
    BY <1>3 DEF PassedUp
  <2>2. ASSUME NEW s \in Stations, NEW e \in Destinations, NEW i \in DOMAIN queue'[e],
               PassedUp(s, queue'[e][i].packet)
        PROVE  i \in DOMAIN queue[e] /\ queue'[e][i] = queue[e][i]
    <3>1. ~PassedUp(s, p)
      BY <1>1, <1>2 DEF QueuedAreNew
    <3> QED
      BY <1>4, <1>5, <2>2, <3>1
  <2>3. \A s \in Stations : \A q : PassedUp(s, q)' <=> PassedUp(s, q)
    BY <1>3 DEF PassedUp
  <2> QED
    BY <1>1, <1>2, <1>3, <2>2, <2>3
    DEF QueuedAreNew, Repeated, NeedFragmentation, IsFragment, Control
<1> QED
  BY <1>8, <1>9 DEF Fresh

\* f tells where the MPDUs that are in the queue for e after a step were before.
Moves(e, f) ==
  /\ f \in [DOMAIN queue'[e] -> DOMAIN queue[e]]
  /\ \A i, j \in DOMAIN queue'[e] : i < j => f[i] < f[j]
  /\ \A i \in DOMAIN queue'[e] : /\ queue'[e][i].packet = queue[e][f[i]].packet
                                 /\ e = Broadcast => ~queue'[e][i].more

\* A step that only takes MPDUs from the queues or sends them again.
LEMMA OrderKept ==
  ASSUME QueuesInOrder, destination' = destination,
         \A e \in Destinations : \E f : Moves(e, f)
  PROVE  /\ \A e \in Destinations : \A i \in DOMAIN queue'[e] :
              /\ Known(queue[e][i], e)'
              /\ \A j \in DOMAIN queue'[e] : i < j => queue'[e][i].packet < queue'[e][j].packet
         /\ m_mpdu' = m_mpdu => QueuesInOrder'
         /\ m_mpdu' = NoMpdu => QueuesInOrder'
<1>1. ASSUME NEW e \in Destinations, NEW i \in DOMAIN queue'[e]
      PROVE  /\ Known(queue[e][i], e)'
             /\ \A j \in DOMAIN queue'[e] : i < j => queue'[e][i].packet < queue'[e][j].packet
  <2>1. PICK f : Moves(e, f)
    OBVIOUS
  <2> QED
    BY <2>1 DEF QueuesInOrder, Known, Moves
<1>2. \A p : (\A i \in DOMAIN queue[Broadcast] : p < queue[Broadcast][i].packet)
             => (\A i \in DOMAIN queue'[Broadcast] : p < queue'[Broadcast][i].packet)
  <2>1. PICK f : Moves(Broadcast, f)
    BY DEF Destinations
  <2> QED
    BY <2>1 DEF Moves
<1>3. ASSUME m_mpdu' = m_mpdu PROVE QueuesInOrder'
  <2>1. m_mpdu # NoMpdu => Known(m_mpdu.mpdu, m_mpdu.to)'
    BY <1>3 DEF QueuesInOrder, Known
  <2> QED
    BY <1>1, <1>2, <1>3, <2>1 DEF QueuesInOrder
<1>4. ASSUME m_mpdu' = NoMpdu PROVE QueuesInOrder'
  BY <1>1, <1>4 DEF QueuesInOrder
<1> QED
  BY <1>1, <1>3, <1>4

LEMMA SameQueue ==
  ASSUME QueuesInOrder, NEW e \in Destinations, queue[e] \in Seq(Mpdus), queue'[e] = queue[e]
  PROVE  \E f : Moves(e, f)
<1> DEFINE f == [i \in DOMAIN queue[e] |-> i]
<1>1. Moves(e, f)
  BY DEF Moves, QueuesInOrder, Known
<1> QED
  BY <1>1

LEMMA ShorterQueue ==
  ASSUME QueuesInOrder, NEW e \in Destinations, queue[e] \in Seq(Mpdus), queue[e] # <<>>,
         queue'[e] = Tail(queue[e])
  PROVE  \E f : Moves(e, f)
<1> DEFINE f == [i \in DOMAIN Tail(queue[e]) |-> i + 1]
<1>1. \A i \in DOMAIN Tail(queue[e]) : /\ i + 1 \in DOMAIN queue[e] /\ i \in Nat
                                       /\ Tail(queue[e])[i] = queue[e][i + 1]
  BY TailShape
<1>2. Moves(e, f)
  BY <1>1 DEF Moves, QueuesInOrder, Known
<1> QED
  BY <1>2

LEMMA NewHeadQueue ==
  ASSUME QueuesInOrder, NEW e \in Destinations, queue[e] \in Seq(Mpdus), queue[e] # <<>>,
         NEW m \in Mpdus, m.packet = queue[e][1].packet, e = Broadcast => ~m.more,
         queue'[e] = <<m>> \o Tail(queue[e])
  PROVE  \E f : Moves(e, f)
<1> DEFINE f == [i \in DOMAIN queue[e] |-> i]
<1>1. /\ DOMAIN queue'[e] = DOMAIN queue[e]
      /\ \A i \in DOMAIN queue[e] : queue'[e][i] = IF i = 1 THEN m ELSE queue[e][i]
  BY NewHeadShape
<1>2. Moves(e, f)
  BY <1>1 DEF Moves, QueuesInOrder, Known
<1> QED
  BY <1>2

LEMMA SparedQueue ==
  ASSUME QueuesInOrder, NEW e \in Destinations, queue[e] \in Seq(Mpdus), queue[e] # <<>>,
         Tail(queue[e]) # <<>>, queue'[e] = <<Head(queue[e])>> \o Tail(Tail(queue[e]))
  PROVE  \E f : Moves(e, f)
<1> DEFINE q == queue[e]
           r == <<Head(q)>> \o Tail(Tail(q))
           f == [i \in DOMAIN r |-> IF i = 1 THEN 1 ELSE i + 1]
<1>1. r \in Seq(Mpdus) /\ \A i \in DOMAIN r : /\ i \in DOMAIN q /\ i + 1 \in DOMAIN q
                                              /\ r[i] = IF i = 1 THEN q[1] ELSE q[i + 1]
  <2> HIDE DEF q
  <2>1. q \in Seq(Mpdus) /\ q # <<>> /\ Tail(q) # <<>>
    BY DEF q
  <2> QED
    BY <2>1, SpareHeadShape
<1>2. queue'[e] = r
  OBVIOUS
<1> HIDE DEF r
<1>3. \A i \in DOMAIN r : i \in Nat /\ i > 0
  BY <1>1
<1>4. \A i \in DOMAIN r : f[i] \in DOMAIN q /\ r[i] = q[f[i]]
  BY <1>1, <1>3
<1>5. \A i, j \in DOMAIN r : i < j => f[i] < f[j]
  BY <1>3
<1>6. f \in [DOMAIN r -> DOMAIN q]
  BY <1>4
<1> HIDE DEF f
<1>7. \A i \in DOMAIN q : e = Broadcast => ~q[i].more
  BY DEF QueuesInOrder, Known
<1>8. Moves(e, f)
  BY <1>2, <1>4, <1>5, <1>6, <1>7 DEF Moves
<1> QED
  BY <1>8

LEMMA ExpireFresh ==
  ASSUME Base, Fresh, NEW d \in Destinations, Expire(d)
  PROVE  Fresh'
<1> DEFINE spared == <<Head(queue[d])>> \o Tail(Tail(queue[d]))
<1>1. TypeOK /\ ExchangeOK /\ QueuesInOrder /\ QueuedAreNew
  BY DEF Base, Fresh
<1>2. queue \in [Destinations -> Seq(Mpdus)] /\ queue[d] \in Seq(Mpdus)
  BY <1>1 DEF TypeOK
<1>3. /\ InFlight(d) => queue[d] # <<>> /\ Tail(queue[d]) # <<>>
      /\ ~InFlight(d) => queue[d] # <<>>
  BY <1>1 DEF ExchangeOK, Expire, NotInFlight, InFlight
<1>4. queue' = [queue EXCEPT ![d] = IF InFlight(d) THEN spared ELSE Tail(queue[d])]
  BY DEF Expire
<1>5. UNCHANGED <<m_mpdu, m_txTimer, left, rx, forwarded, destination>>
  BY DEF Expire, exchangeVars, stationVars
<1>6. \A e \in Destinations : \E f : Moves(e, f)
  <2>1. ASSUME NEW e \in Destinations, e # d PROVE \E f : Moves(e, f)
    BY <1>1, <1>2, <1>4, <2>1, SameQueue
  <2>2. CASE InFlight(d)
    BY <1>1, <1>2, <1>3, <1>4, <2>1, <2>2, SparedQueue
  <2>3. CASE ~InFlight(d)
    BY <1>1, <1>2, <1>3, <1>4, <2>1, <2>3, ShorterQueue
  <2> QED
    BY <2>2, <2>3
<1>7. QueuesInOrder'
  BY <1>1, <1>5, <1>6, OrderKept
<1>8. \A e \in Destinations : \A i \in DOMAIN queue'[e] :
        \/ i \in DOMAIN queue[e] /\ queue'[e][i] = queue[e][i]
        \/ i + 1 \in DOMAIN queue[e] /\ queue'[e][i] = queue[e][i + 1] /\ i + 1 # 1
  <2> HIDE DEF spared
  <2>1. CASE InFlight(d)
    <3>1. spared \in Seq(Mpdus) /\ \A i \in DOMAIN spared :
            /\ i \in DOMAIN queue[d] /\ i + 1 \in DOMAIN queue[d]
            /\ spared[i] = IF i = 1 THEN queue[d][1] ELSE queue[d][i + 1]
      BY <1>2, <1>3, <2>1, SpareHeadShape DEF spared
    <3>2. \A i \in DOMAIN spared : i + 1 # 1
      BY <3>1
    <3> QED
      BY <1>2, <1>4, <2>1, <3>1, <3>2
  <2>2. CASE ~InFlight(d)
    <3>1. Tail(queue[d]) \in Seq(Mpdus) /\ \A i \in DOMAIN Tail(queue[d]) :
            i + 1 \in DOMAIN queue[d] /\ Tail(queue[d])[i] = queue[d][i + 1]
      BY <1>2, <1>3, <2>2, TailShape
    <3>2. \A i \in DOMAIN Tail(queue[d]) : i + 1 # 1
      BY <3>1
    <3> QED
      BY <1>2, <1>4, <2>2, <3>1, <3>2
  <2> QED
    BY <2>1, <2>2
<1>9. QueuedAreNew'
  <2>1. \A s \in Stations : \A q : PassedUp(s, q)' <=> PassedUp(s, q)
    BY <1>5 DEF PassedUp
  <2>2. ASSUME NEW s \in Stations, NEW e \in Destinations, NEW i \in DOMAIN queue'[e],
               PassedUp(s, queue'[e][i].packet)
        PROVE  e = s /\ i = 1 /\ Repeated(s)'
    <3>1. e = s /\ i = 1 /\ Repeated(s) /\ queue'[e][i] = queue[e][i]
      BY <1>1, <1>8, <2>2 DEF QueuedAreNew
    <3> QED
      BY <1>5, <3>1 DEF Repeated, NeedFragmentation, IsFragment, Control
  <2> QED
    BY <1>1, <1>5, <2>1, <2>2 DEF QueuedAreNew
<1> QED
  BY <1>7, <1>9 DEF Fresh

\* Steps after which the queues, the stations and what they are sent are as
\* before.
LEMMA QuietFresh ==
  ASSUME Base, Fresh, UNCHANGED <<queue, rx, forwarded, destination>>,
         \/ UNCHANGED <<m_mpdu, m_txTimer>> /\ left' \subseteq left
         \/ ~m_txTimer /\ m_mpdu' = NoMpdu
  PROVE  Fresh'
<1>1. TypeOK /\ QueuesInOrder /\ QueuedAreNew
  BY DEF Base, Fresh
<1>2. \A e \in Destinations : \E f : Moves(e, f)
  BY <1>1, SameQueue DEF TypeOK
<1>3. QueuesInOrder'
  BY <1>1, <1>2, OrderKept
<1>4. \A s \in Stations : \A q : PassedUp(s, q)' <=> PassedUp(s, q)
  BY DEF PassedUp
<1>5. \A s \in Stations : Repeated(s) => Repeated(s)'
  BY DEF Repeated, NeedFragmentation, IsFragment, Control
<1>6. QueuedAreNew'
  BY <1>1, <1>4, <1>5 DEF QueuedAreNew
<1> QED
  BY <1>3, <1>6 DEF Fresh

LEMMA TransmitFresh ==
  ASSUME Base, Fresh, ~m_txTimer, NEW d \in Destinations, queue[d] # <<>>,
         UNCHANGED <<rx, forwarded, destination>>,
         NEW m \in Mpdus, m.packet = Head(queue[d]).packet,
         ~NeedFragmentation(m, d), d = Broadcast => ~m.more,
         Head(queue[d]).retry /\ ~NeedFragmentation(Head(queue[d]), d) => m = Head(queue[d]),
         Transmit(d, m)
  PROVE  Fresh'
<1> DEFINE resent == <<m>> \o Tail(queue[d])
<1>1. TypeOK /\ QueuesInOrder /\ QueuedAreNew
  BY DEF Base, Fresh
<1>2. /\ queue \in [Destinations -> Seq(Mpdus)] /\ queue[d] \in Seq(Mpdus)
      /\ Head(queue[d]) = queue[d][1] /\ 1 \in DOMAIN queue[d]
  BY <1>1, TailShape DEF TypeOK
<1>3. /\ m_mpdu' # NoMpdu /\ m_mpdu'.mpdu = m /\ m_mpdu'.to = d
      /\ queue' = [queue EXCEPT ![d] = IF d = Broadcast THEN Tail(queue[d]) ELSE resent]
      /\ d = Broadcast => ~m_txTimer' /\ left' = Stations
      /\ d # Broadcast => m_txTimer' /\ left' = {d}
  BY NoMpduAssumption DEF Transmit, Exchanges
<1>4. resent \in Seq(Mpdus) /\ DOMAIN resent = DOMAIN queue[d]
      /\ \A i \in DOMAIN queue[d] : resent[i] = IF i = 1 THEN m ELSE queue[d][i]
  BY <1>2, NewHeadShape
<1>5. Tail(queue[d]) \in Seq(Mpdus) /\ \A i \in DOMAIN Tail(queue[d]) :
        i + 1 \in DOMAIN queue[d] /\ Tail(queue[d])[i] = queue[d][i + 1] /\ i + 1 > 1
  BY <1>2, TailShape
<1>6. \A e \in Destinations : \E f : Moves(e, f)
  <2>1. ASSUME NEW e \in Destinations, e # d PROVE \E f : Moves(e, f)
    BY <1>1, <1>2, <1>3, <2>1, SameQueue
  <2>2. CASE d = Broadcast
    BY <1>1, <1>2, <1>3, <2>1, <2>2, ShorterQueue
  <2>3. CASE d # Broadcast
    BY <1>1, <1>2, <1>3, <2>1, <2>3, NewHeadQueue
  <2> QED
    BY <2>2, <2>3
<1> HIDE DEF resent
<1>7. Known(m, d)
  BY <1>1, <1>2 DEF QueuesInOrder, Known
<1>8. QueuesInOrder'
  <2>1. d = Broadcast => \A i \in DOMAIN queue'[Broadcast] : m.packet < queue'[Broadcast][i].packet
    BY <1>1, <1>2, <1>3, <1>5 DEF QueuesInOrder
  <2>2. Known(m_mpdu.mpdu, m_mpdu.to)'
    BY <1>3, <1>7 DEF Known
  <2> QED
    BY <1>1, <1>3, <1>6, <2>1, <2>2, OrderKept DEF QueuesInOrder
<1>9. QueuedAreNew'
  <2>1. \A s \in Stations : \A q : PassedUp(s, q)' <=> PassedUp(s, q)
    BY DEF PassedUp
  <2>2. ASSUME NEW s \in Stations, NEW e \in Destinations, NEW i \in DOMAIN queue'[e],
               PassedUp(s, queue'[e][i].packet)
        PROVE  e = s /\ i = 1 /\ Repeated(s)'
    <3>1. CASE e # d
      <4>1. queue'[e] = queue[e] /\ e = s /\ i = 1 /\ Repeated(s)
        BY <1>1, <1>2, <1>3, <2>2, <3>1 DEF QueuedAreNew
      <4> QED
        BY <4>1 DEF Repeated, NeedFragmentation, IsFragment, Control
    <3>2. CASE e = d /\ d = Broadcast
      <4>1. i + 1 \in DOMAIN queue[d] /\ queue'[d][i] = queue[d][i + 1]
        BY <1>2, <1>3, <1>5, <2>2, <3>2
      <4>2. d = s
        BY <1>1, <2>2, <3>2, <4>1 DEF QueuedAreNew
      <4> QED
        BY <3>2, <4>2, WifiAssumption
    <3>3. CASE e = d /\ d # Broadcast
      <4>1. queue'[d] = resent /\ i \in DOMAIN queue[d]
        BY <1>2, <1>3, <1>4, <2>2, <3>3
      <4>2. queue'[d][i].packet = queue[d][i].packet
        BY <1>2, <1>4, <4>1
      <4>3. d = s /\ i = 1 /\ Repeated(s)
        BY <1>1, <2>2, <3>3, <4>1, <4>2 DEF QueuedAreNew
      <4>4. queue'[s][1] = queue[s][1]
        BY <1>2, <1>4, <4>1, <4>3 DEF Repeated
      <4> QED
        BY <3>3, <4>3, <4>4 DEF Repeated, NeedFragmentation, IsFragment, Control
    <3> QED
      BY <3>1, <3>2, <3>3
  <2>3. ASSUME NEW s \in Stations, d = Broadcast PROVE ~PassedUp(s, m.packet)
    <3>1. d # s
      BY <2>3, WifiAssumption
    <3> QED
      BY <1>1, <1>2, <3>1 DEF QueuedAreNew
  <2> QED
    BY <1>1, <1>3, <2>1, <2>2, <2>3 DEF QueuedAreNew
<1> QED
  BY <1>8, <1>9 DEF Fresh

LEMMA SendingFresh ==
  ASSUME Base, Fresh, GrantAccess \/ SendNextFragment
  PROVE  Fresh'
<1>1. TypeOK /\ QueuesInOrder /\ QueuedAreNew /\ m_mpdu = NoMpdu /\ ~m_txTimer
  BY Idle DEF Base, Fresh, GrantAccess, SendNextFragment
<1>2. StartTransmission /\ UNCHANGED <<rx, forwarded, destination>>
  BY DEF GrantAccess, SendNextFragment, stationVars, history
<1>3. CASE UNCHANGED <<queueVars, exchangeVars>>
  BY <1>2, <1>3, QuietFresh DEF queueVars, exchangeVars
<1>4. ASSUME NEW d \in Destinations, IsNext(d),
             \/ /\ NeedFragmentation(Numbered(Head(queue[d])), d)
                /\ Transmit(d, FirstFragment(Numbered(Head(queue[d]))))
             \/ /\ ~NeedFragmentation(Numbered(Head(queue[d])), d)
                /\ Transmit(d, Numbered(Head(queue[d])))
      PROVE  Fresh'
  <2> DEFINE h == Head(queue[d])
             m == Numbered(h)
  <2>1. queue[d] # <<>> /\ h \in Mpdus /\ m \in Mpdus /\ h = queue[d][1] /\ 1 \in DOMAIN queue[d]
    BY <1>1, <1>4, Sent, TailShape DEF IsNext, TypeOK
  <2>2. /\ m.packet = h.packet /\ m.more = h.more /\ m.frag = h.frag
        /\ h.retry => m = h
        /\ d = Broadcast => ~h.more
    <3>1. d = Broadcast => ~h.more
      BY <1>1, <2>1 DEF QueuesInOrder, Known
    <3> QED
      BY <1>1, <2>1, <3>1, NumberedType
  <2> HIDE DEF h, m
  <2>3. CASE NeedFragmentation(m, d) /\ Transmit(d, FirstFragment(m))
    <3>1. ~IsFragment(m) /\ d # Broadcast
      BY <2>3 DEF NeedFragmentation
    <3>2. /\ FirstFragment(m) \in Mpdus /\ FirstFragment(m).packet = m.packet
          /\ FirstFragment(m).more
      BY <1>1, <2>1, <3>1, FirstFragmentType
    <3>3. ~NeedFragmentation(FirstFragment(m), d)
      BY <3>2 DEF NeedFragmentation, IsFragment
    <3>4. ~(h.retry /\ ~NeedFragmentation(h, d))
      BY <2>2, <2>3
    <3> QED
      BY <1>1, <1>2, <2>1, <2>2, <2>3, <3>1, <3>2, <3>3, <3>4, TransmitFresh DEF h
  <2>4. CASE ~NeedFragmentation(m, d) /\ Transmit(d, m)
    BY <1>1, <1>2, <2>1, <2>2, <2>4, TransmitFresh DEF h
  <2> QED
    BY <1>4, <2>3, <2>4 DEF h, m
<1> QED
  BY <1>2, <1>3, <1>4 DEF StartTransmission

LEMMA AnswerFresh ==
  ASSUME Base, Fresh, ReceivedNormalAck \/ NormalAckTimeout
  PROVE  Fresh'
<1> DEFINE d == m_mpdu.to
           q == queue[d]
<1>1. TypeOK /\ ExchangeOK /\ QueuesInOrder /\ QueuedAreNew /\ m_txTimer
  BY DEF Base, Fresh, ReceivedNormalAck, NormalAckTimeout
<1>2. /\ m_mpdu.mpdu \in Mpdus /\ d \in Stations /\ d \in Destinations /\ d # Broadcast
      /\ queue \in [Destinations -> Seq(Mpdus)] /\ q \in Seq(Mpdus) /\ q # <<>>
      /\ Head(q) = m_mpdu.mpdu /\ Head(q) = q[1] /\ 1 \in DOMAIN q
  BY <1>1, Awaited, TailShape, WifiAssumption DEF Destinations, TypeOK
<1>3. m_mpdu' = NoMpdu /\ UNCHANGED <<left, rx, forwarded, destination>>
  BY DEF ReceivedNormalAck, NormalAckTimeout, stationVars
<1>4. \/ queue' = [queue EXCEPT ![d] = Tail(q)]
      \/ \E m \in Mpdus :
           /\ m.packet = q[1].packet
           /\ q[1].more \/ m = [q[1] EXCEPT !.retry = TRUE]
           /\ queue' = [queue EXCEPT ![d] = <<m>> \o Tail(q)]
  <2>1. CASE ReceivedNormalAck
    <3>1. CASE m_mpdu.mpdu.more
      <4>1. NextFragment(q[1]) \in Mpdus /\ NextFragment(q[1]).packet = q[1].packet
        BY <1>1, <1>2, <3>1, NextFragmentType
      <4> QED
        BY <1>2, <2>1, <3>1, <4>1 DEF ReceivedNormalAck
    <3>2. CASE ~m_mpdu.mpdu.more
      BY <2>1, <3>2 DEF ReceivedNormalAck
    <3> QED
      BY <3>1, <3>2
  <2>2. CASE NormalAckTimeout
    <3>1. /\ [q[1] EXCEPT !.retry = TRUE] \in Mpdus
          /\ [q[1] EXCEPT !.retry = TRUE].packet = q[1].packet
      BY <1>2, RetryType
    <3>2. \/ queue' = [queue EXCEPT ![d] = Tail(q)]
          \/ queue' = [queue EXCEPT ![d] = <<[q[1] EXCEPT !.retry = TRUE]>> \o Tail(q)]
      BY <1>2, <2>2 DEF NormalAckTimeout
    <3> QED
      BY <3>1, <3>2
  <2> QED
    BY <2>1, <2>2
<1> HIDE DEF d, q
<1>5. q = queue[d]
  BY DEF q
<1>6. \A e \in Destinations : e # d => queue'[e] = queue[e] /\ \E f : Moves(e, f)
  <2>1. ASSUME NEW e \in Destinations, e # d PROVE queue'[e] = queue[e]
    BY <1>2, <1>4, <2>1
  <2> QED
    BY <1>1, <1>2, <2>1, SameQueue
<1>7. \A s \in Stations : \A p : PassedUp(s, p)' <=> PassedUp(s, p)
  BY <1>3 DEF PassedUp
<1>8. ASSUME NEW s \in Stations, NEW e \in Destinations, NEW i \in DOMAIN queue'[e],
             PassedUp(s, queue'[e][i].packet), e # d
      PROVE  e = s /\ i = 1 /\ Repeated(s)'
  <2>1. e = s /\ i = 1 /\ Repeated(s) /\ queue'[e] = queue[e]
    BY <1>1, <1>6, <1>8 DEF QueuedAreNew
  <2>2. queue[s][1].retry
    BY <1>8, <2>1 DEF Repeated, d
  <2> QED
    BY <1>3, <2>1, <2>2 DEF Repeated, NeedFragmentation, IsFragment, Control
<1>9. ASSUME QueuesInOrder',
             \A s \in Stations : \A i \in DOMAIN queue'[d] :
               PassedUp(s, queue'[d][i].packet) => d = s /\ i = 1 /\ Repeated(s)'
      PROVE  Fresh'
  <2>1. \A s \in Stations : \A e \in Destinations : \A i \in DOMAIN queue'[e] :
          PassedUp(s, queue'[e][i].packet) => e = s /\ i = 1 /\ Repeated(s)'
    BY <1>8, <1>9
  <2>2. \A s \in Stations : \A p \in Packets : PassedUp(s, p) => p \in DOMAIN destination
    BY <1>1 DEF QueuedAreNew
  <2>3. QueuedAreNew'
    BY <1>3, <1>7, <2>1, <2>2 DEF QueuedAreNew
  <2> QED
    BY <1>9, <2>3 DEF Fresh
<1>10. CASE queue' = [queue EXCEPT ![d] = Tail(q)]
  <2>1. queue'[d] = Tail(q) /\ \A i \in DOMAIN Tail(q) : i + 1 \in DOMAIN q /\ i + 1 # 1
                                                         /\ Tail(q)[i] = q[i + 1]
    BY <1>2, <1>10, TailShape
  <2>2. \E f : Moves(d, f)
    BY <1>1, <1>2, <1>5, <2>1, ShorterQueue
  <2>3. QueuesInOrder'
    BY <1>1, <1>3, <1>6, <2>2, OrderKept
  <2>4. \A s \in Stations : \A i \in DOMAIN queue'[d] : ~PassedUp(s, queue'[d][i].packet)
    BY <1>1, <1>2, <1>5, <2>1 DEF QueuedAreNew
  <2> QED
    BY <1>9, <2>3, <2>4
<1>11. ASSUME NEW m \in Mpdus, m.packet = q[1].packet,
              q[1].more \/ m = [q[1] EXCEPT !.retry = TRUE],
              queue' = [queue EXCEPT ![d] = <<m>> \o Tail(q)]
       PROVE  Fresh'
  <2>1. /\ queue'[d] = <<m>> \o Tail(q) /\ DOMAIN queue'[d] = DOMAIN q
        /\ \A i \in DOMAIN q : queue'[d][i] = IF i = 1 THEN m ELSE q[i]
    BY <1>2, <1>11, NewHeadShape
  <2>2. \E f : Moves(d, f)
    BY <1>1, <1>2, <1>5, <1>11, <2>1, NewHeadQueue
  <2>3. QueuesInOrder'
    BY <1>1, <1>3, <1>6, <2>2, OrderKept
  <2>4. ASSUME NEW s \in Stations, NEW i \in DOMAIN queue'[d], PassedUp(s, queue'[d][i].packet)
        PROVE  d = s /\ i = 1 /\ Repeated(s)'
    <3>1. d = s /\ i = 1 /\ Repeated(s)
      BY <1>1, <1>2, <1>5, <1>11, <2>1, <2>4 DEF QueuedAreNew
    <3>2. m = [q[1] EXCEPT !.retry = TRUE] /\ q[1] \in Mpdus
      BY <1>2, <1>5, <1>11, <3>1 DEF Repeated
    <3>3. /\ m.retry /\ m.more = q[1].more /\ m.frag = q[1].frag /\ m.seq = q[1].seq
      BY <3>2, RetryType
    <3>4. queue'[s][1] = m /\ queue[s][1] = q[1] /\ rx' = rx
      BY <1>2, <1>3, <1>5, <2>1, <3>1
    <3> QED
      BY <1>11, <3>1, <3>3, <3>4 DEF Repeated, NeedFragmentation, IsFragment, Control
  <2> QED
    BY <1>9, <2>3, <2>4
<1> QED
  BY <1>4, <1>10, <1>11

LEMMA PassedUpNext ==
  ASSUME TypeOK, NEW s \in Stations, NEW m \in Mpdus, NEW bodies \in Seq(Packets \cup {0}),
         Forward(s, m, bodies)
  PROVE  /\ \A t \in Stations : \A p : PassedUp(t, p)' <=> PassedUp(t, p) \/ (t = s /\ p = m.packet)
         /\ ForwardedOnce /\ ~PassedUp(s, m.packet) => ForwardedOnce'
<1> DEFINE f == [packet |-> m.packet, seq |-> m.seq, bodies |-> bodies]
<1>1. forwarded \in [Stations -> Seq(Frames)] /\ forwarded[s] \in Seq(Frames)
  BY DEF TypeOK
<1>2. f \in Frames /\ f.packet = m.packet
  BY MpduParts DEF Frames
<1>3. forwarded' = [forwarded EXCEPT ![s] = Append(forwarded[s], f)]
  BY DEF Forward
<1> HIDE DEF f
<1>4. /\ Len(forwarded[s]) + 1 \in DOMAIN Append(forwarded[s], f)
      /\ \A i \in DOMAIN Append(forwarded[s], f) :
           \/ i \in DOMAIN forwarded[s] /\ Append(forwarded[s], f)[i] = forwarded[s][i]
           \/ i = Len(forwarded[s]) + 1
      /\ Append(forwarded[s], f)[Len(forwarded[s]) + 1] = f
      /\ \A i \in DOMAIN forwarded[s] :
           i \in DOMAIN Append(forwarded[s], f) /\ Append(forwarded[s], f)[i] = forwarded[s][i]
  BY <1>1, <1>2
<1>5. forwarded'[s] = Append(forwarded[s], f)
  BY <1>1, <1>3
<1>6. \A t \in Stations : t # s => forwarded'[t] = forwarded[t]
  BY <1>1, <1>3
<1>7. ASSUME NEW t \in Stations, NEW p
      PROVE  PassedUp(t, p)' <=> PassedUp(t, p) \/ (t = s /\ p = m.packet)
  <2>1. CASE t = s
    BY <1>2, <1>4, <1>5, <2>1 DEF PassedUp
  <2>2. CASE t # s
    BY <1>6, <2>2 DEF PassedUp
  <2> QED
    BY <2>1, <2>2
<1>8. ASSUME ForwardedOnce, ~PassedUp(s, m.packet) PROVE ForwardedOnce'
  <2>1. \A i \in DOMAIN forwarded[s] : forwarded[s][i].packet # m.packet
    BY <1>8 DEF PassedUp
  <2>2. \A i, j \in DOMAIN forwarded'[s] :
          forwarded'[s][i].packet = forwarded'[s][j].packet => i = j
    BY <1>2, <1>4, <1>5, <1>8, <2>1 DEF ForwardedOnce
  <2> QED
    BY <1>6, <1>8, <2>2 DEF ForwardedOnce
<1> QED
  BY <1>7, <1>8

\* What was passed up is known for a duplicate.
LEMMA NotPassedBefore ==
  ASSUME Base, Fresh, NEW s \in Stations, Receive(s), ~IsDuplicate(s, m_mpdu.mpdu)
  PROVE  ~PassedUp(s, m_mpdu.mpdu.packet)
<1> DEFINE m == m_mpdu.mpdu
           to == m_mpdu.to
<1>1. TypeOK /\ ExchangeOK /\ QueuesInOrder /\ QueuedAreNew
  BY DEF Base, Fresh
<1>2. m_mpdu # NoMpdu /\ s \in left
  BY <1>1 DEF Receive, ExchangeOK
<1>3. to = Broadcast \/ (to = s /\ m_txTimer /\ queue[s] # <<>> /\ Head(queue[s]) = m)
  BY <1>1, <1>2 DEF ExchangeOK
<1>4. CASE to = Broadcast
  BY <1>1, <1>2, <1>4 DEF QueuedAreNew
<1>5. CASE to = s
  <2>1. queue[s][1] = m /\ 1 \in DOMAIN queue[s] /\ s \in Destinations
    BY <1>1, <1>3, <1>5, TailShape, WifiAssumption DEF TypeOK, Destinations
  <2>2. PassedUp(s, m.packet) => Repeated(s)
    BY <1>1, <2>1 DEF QueuedAreNew
  <2>3. ~Repeated(s)
    BY <1>2, <2>1 DEF Repeated, IsDuplicate
  <2> QED
    BY <2>2, <2>3
<1> QED
  BY <1>3, <1>4, <1>5

LEMMA ReceiveFresh ==
  ASSUME Base, Fresh, ForwardedOnce, NEW s \in Stations, Receive(s)
  PROVE  Fresh' /\ ForwardedOnce'
<1> DEFINE m == m_mpdu.mpdu
           to == m_mpdu.to
<1>1. TypeOK /\ ExchangeOK /\ QueuesInOrder /\ QueuedAreNew
  BY DEF Base, Fresh
<1>2. /\ m_mpdu # NoMpdu /\ m_mpdu \in Exchanges /\ m \in Mpdus /\ to \in Destinations
      /\ MacRxMiddleReceive(s, m, to) /\ s \in left /\ left' = left \ {s}
      /\ UNCHANGED <<queue, m_mpdu, m_txTimer, destination>>
  BY <1>1 DEF Receive, ExchangeOK, TypeOK, Exchanges, queueVars, history
<1>3. to = Broadcast \/ (to = s /\ m_txTimer /\ queue[s] # <<>> /\ Head(queue[s]) = m
                         /\ ~NeedFragmentation(m, s) /\ left' = {})
  BY <1>1, <1>2 DEF ExchangeOK
<1>4. to = s => queue[s] \in Seq(Mpdus) /\ queue[s][1] = m /\ 1 \in DOMAIN queue[s]
  BY <1>1, <1>2, <1>3, TailShape, WifiAssumption DEF TypeOK, Destinations
<1>5. Known(m, to) /\ s # Broadcast
  BY <1>1, <1>2, WifiAssumption DEF QueuesInOrder
<1> HIDE DEF m, to
<1>6. \A e \in Destinations : \E f : Moves(e, f)
  BY <1>1, <1>2, SameQueue DEF TypeOK
<1>7. QueuesInOrder'
  BY <1>1, <1>2, <1>6, OrderKept
<1>8. CASE UNCHANGED stationVars
  <2>1. UNCHANGED <<rx, forwarded>>
    BY <1>8 DEF stationVars
  <2>2. Fresh'
    BY <1>2, <2>1, QuietFresh
  <2> QED
    BY <2>1, <2>2 DEF ForwardedOnce
<1>9. CASE m.more /\ forwarded' = forwarded /\ \E r \in RxStatus : rx' = [rx EXCEPT ![s] = r]
  <2>1. to = s /\ ~Repeated(s)
    BY <1>3, <1>4, <1>5, <1>9 DEF Known, Repeated
  <2>2. \A t \in Stations : \A p : PassedUp(t, p)' <=> PassedUp(t, p)
    BY <1>9 DEF PassedUp
  <2>3. \A t \in Stations : t # s => rx'[t] = rx[t]
    BY <1>1, <1>9 DEF TypeOK
  <2>4. ASSUME NEW t \in Stations, Repeated(t) PROVE Repeated(t)'
    BY <1>2, <2>1, <2>3, <2>4 DEF Repeated, NeedFragmentation, IsFragment, Control
  <2>5. QueuedAreNew'
    BY <1>1, <1>2, <2>2, <2>4 DEF QueuedAreNew
  <2> QED
    BY <1>7, <1>9, <2>5 DEF Fresh, ForwardedOnce
<1>10. ASSUME ~m.more, ~IsDuplicate(s, m), NEW bodies \in Seq(Packets \cup {0}),
              Forward(s, m, bodies), NEW r \in RxStatus, ~r.defragmenting,
              \/ r.last = Control(m) /\ (to # Broadcast \/ rx[s].defragmenting)
              \/ to = Broadcast /\ r = rx[s] /\ ~rx[s].defragmenting,
              rx' = [rx EXCEPT ![s] = r]
       PROVE  Fresh' /\ ForwardedOnce'
  <2>1. ~PassedUp(s, m.packet)
    BY <1>10, NotPassedBefore DEF m
  <2>2. /\ ForwardedOnce'
        /\ \A t \in Stations : \A p : PassedUp(t, p)' <=> PassedUp(t, p) \/ (t = s /\ p = m.packet)
    BY <1>1, <1>2, <1>10, <2>1, PassedUpNext
  <2>3. rx'[s] = r /\ \A t \in Stations : t # s => rx'[t] = rx[t]
    BY <1>1, <1>10 DEF TypeOK
  <2>4. ASSUME NEW t \in Stations, NEW e \in Destinations, NEW i \in DOMAIN queue[e],
               PassedUp(t, queue[e][i].packet)
        PROVE  e = t /\ i = 1 /\ Repeated(t)'
    <3>1. e = t /\ i = 1 /\ Repeated(t)
      BY <1>1, <2>4 DEF QueuedAreNew
    <3>2. CASE t # s
      BY <1>2, <2>3, <3>1, <3>2 DEF Repeated, NeedFragmentation, IsFragment, Control
    <3>3. CASE t = s
      <4>1. to = Broadcast
        BY <1>3, <1>4, <2>1, <2>4, <3>1, <3>3
      <4>2. rx'[s] = rx[s]
        BY <1>10, <2>3, <3>1, <3>3, <4>1 DEF Repeated
      <4> QED
        BY <1>2, <3>1, <3>3, <4>2 DEF Repeated, NeedFragmentation, IsFragment, Control
    <3> QED
      BY <3>2, <3>3
  <2>5. ASSUME NEW e \in Destinations, NEW i \in DOMAIN queue[e], queue[e][i].packet = m.packet
        PROVE  e = s /\ i = 1 /\ Repeated(s)'
    <3>1. Known(queue[e][i], e) /\ e = to
      BY <1>1, <1>5, <2>5 DEF QueuesInOrder, Known
    <3>2. to = s
      <4>1. CASE to = Broadcast
        <5>1. m.packet < queue[e][i].packet
          BY <1>1, <1>2, <3>1, <4>1 DEF QueuesInOrder, m, to
        <5>2. m.packet \in Int
          BY <1>2, MpduParts DEF Packets
        <5> QED
          BY <2>5, <5>1, <5>2
      <4> QED
        BY <1>3, <4>1
    <3>3. i = 1
      <4>1. 1 < i => m.packet < queue[e][i].packet
        BY <1>1, <1>4, <3>1, <3>2 DEF QueuesInOrder
      <4>2. ~(m.packet < m.packet)
        <5>1. m.packet \in Int
          BY <1>2, MpduParts DEF Packets
        <5> QED
          BY <5>1
      <4>3. ~(1 < i)
        BY <2>5, <4>1, <4>2
      <4>4. i \in Nat /\ i > 0
        BY <1>1 DEF TypeOK
      <4> QED
        BY <4>3, <4>4
    <3>4. Repeated(s)'
      BY <1>2, <1>3, <1>4, <1>5, <1>10, <2>3, <3>2
      DEF Repeated, NeedFragmentation, IsFragment, Control, to
    <3> QED
      BY <3>1, <3>2, <3>3, <3>4
  <2>6. \A t \in Stations : \A p \in Packets : PassedUp(t, p)' => p \in DOMAIN destination
    BY <1>1, <1>5, <2>2 DEF QueuedAreNew, Known
  <2>7. \A t \in left' : t \in Stations /\ t # s /\ t \in left
    BY <1>1, <1>2 DEF TypeOK
  <2>8. QueuedAreNew'
    BY <1>1, <1>2, <2>2, <2>4, <2>5, <2>6, <2>7 DEF QueuedAreNew
  <2> QED
    BY <1>7, <2>2, <2>8 DEF Fresh
<1> QED
  BY <1>1, <1>2, <1>8, <1>9, <1>10, Received

OnceInv == Base /\ Fresh /\ ForwardedOnce

LEMMA OnceStep == OnceInv /\ [Next]_wifiVars => OnceInv'
<1> SUFFICES ASSUME OnceInv, [Next]_wifiVars PROVE OnceInv'
  OBVIOUS
<1>1. Base /\ Fresh /\ ForwardedOnce /\ Base'
  BY BaseStep DEF OnceInv
<1>2. ASSUME UNCHANGED forwarded, Fresh' PROVE OnceInv'
  BY <1>1, <1>2 DEF OnceInv, ForwardedOnce
<1>3. ASSUME NEW d \in Destinations, Queue(d) PROVE OnceInv'
  BY <1>1, <1>2, <1>3, QueueFresh DEF Queue, stationVars
<1>4. ASSUME NEW d \in Destinations, Expire(d) PROVE OnceInv'
  BY <1>1, <1>2, <1>4, ExpireFresh DEF Expire, stationVars
<1>5. ASSUME StartAccessAfterEvent \/ RequestAccess \/ LoseAck \/ (\E s \in Stations : Miss(s))
      PROVE  OnceInv'
  <2>1. /\ UNCHANGED <<queue, rx, forwarded, destination, m_mpdu, m_txTimer>>
        /\ left' \subseteq left
    BY <1>5 DEF StartAccessAfterEvent, RequestAccess, LoseAck, Miss, queueVars, exchangeVars,
       stationVars, history
  <2> QED
    BY <1>1, <1>2, <2>1, QuietFresh
<1>6. ASSUME GrantAccess \/ SendNextFragment PROVE OnceInv'
  BY <1>1, <1>2, <1>6, SendingFresh DEF GrantAccess, SendNextFragment, stationVars
<1>7. ASSUME TransmissionEnds PROVE OnceInv'
  <2>1. UNCHANGED <<queue, rx, forwarded, destination>> /\ m_mpdu' = NoMpdu
    BY <1>7 DEF TransmissionEnds, queueVars, stationVars, history
  <2>2. ~m_txTimer
    BY <1>1, <1>7 DEF TransmissionEnds, Base, ExchangeOK
  <2> QED
    BY <1>1, <1>2, <2>1, <2>2, QuietFresh
<1>8. ASSUME ReceivedNormalAck \/ NormalAckTimeout PROVE OnceInv'
  BY <1>1, <1>2, <1>8, AnswerFresh DEF ReceivedNormalAck, NormalAckTimeout, stationVars
<1>9. ASSUME NEW s \in Stations, Receive(s) PROVE OnceInv'
  BY <1>1, <1>9, ReceiveFresh DEF OnceInv
<1>10. CASE UNCHANGED wifiVars
  <2>1. UNCHANGED <<queue, rx, forwarded, destination, m_mpdu, m_txTimer, left>>
    BY <1>10 DEF wifiVars, queueVars, exchangeVars, stationVars, history
  <2> QED
    BY <1>1, <1>2, <2>1, QuietFresh
<1> QED
  BY <1>3, <1>4, <1>5, <1>6, <1>7, <1>8, <1>9, <1>10 DEF Next

LEMMA OnceInvHolds == Spec => []OnceInv
<1>1. Init => OnceInv
  BY InitBase, InitFresh DEF OnceInv
<1> QED
  BY <1>1, OnceStep, PTL DEF Spec

\* A station passes a packet up once, however often the sender, who misses the
\* Acks, sends it or a fragment of it again.
THEOREM OnceHolds == Spec => []ForwardedOnce
BY OnceInvHolds, PTL DEF OnceInv

----------------------------------------------------------------------------
(* Order: packets reach a station in order, but for those that pass a long *)
(* packet for another station                                              *)

\* Only the first MPDU of a queue may be a fragment, that of a long packet.
Pieced ==
  /\ \A d \in Destinations : \A i \in DOMAIN queue[d] :
       IsFragment(queue[d][i]) => /\ i = 1 /\ d # Broadcast
                                  /\ queue[d][i].packet \in LongPackets
  /\ m_mpdu # NoMpdu /\ m_mpdu.to = Broadcast => ~IsFragment(m_mpdu.mpdu)

\* An MPDU that is no fragment has an older stamp than any of a later packet.
Stamped ==
  \A d \in Destinations : \A i \in DOMAIN queue[d] :
    /\ queue[d][i].stamp < now
    /\ ~IsFragment(queue[d][i]) =>
         \A e \in Destinations : \A j \in DOMAIN queue[e] :
           queue[d][i].packet < queue[e][j].packet => queue[d][i].stamp < queue[e][j].stamp

\* Of packets with these destinations, p may reach a station after q, or is q.
Follows(to, q, p) ==
  q <= p \/ (to[q] # to[p] /\ \E r \in LongPackets : r <= p /\ to[r] = to[p])

FollowsAll(q) ==
  \A d \in Destinations : \A i \in DOMAIN queue[d] : Follows(destination, q, queue[d][i].packet)

\* All that waits may follow what is exchanged, and either what was passed up.
Ahead ==
  /\ m_mpdu # NoMpdu => FollowsAll(m_mpdu.mpdu.packet)
  /\ \A s \in Stations : \A p \in Packets : PassedUp(s, p) =>
       /\ FollowsAll(p)
       /\ m_mpdu # NoMpdu => Follows(destination, p, m_mpdu.mpdu.packet)

Ordered == Pieced /\ Stamped /\ Ahead

LEMMA InitOrder == Init => Ordered
<1> SUFFICES ASSUME Init PROVE Ordered
  OBVIOUS
<1>1. /\ \A d \in Destinations : DOMAIN queue[d] = {}
      /\ \A s \in Stations : DOMAIN forwarded[s] = {}
      /\ m_mpdu = NoMpdu
  BY DEF Init
<1> QED
  BY <1>1 DEF Ordered, Pieced, Stamped, Ahead, FollowsAll, PassedUp

LEMMA FollowsGrows ==
  ASSUME TypeOK, NEW d,
         NEW q \in DOMAIN destination, NEW p \in DOMAIN destination, Follows(destination, q, p)
  PROVE  Follows(Append(destination, d), q, p)
<1> DEFINE to == Append(destination, d)
<1>1. /\ destination \in Seq(Destinations) /\ p \in Nat /\ LongPackets \subseteq Nat \ {0}
      /\ DOMAIN destination = 1 .. Len(destination) /\ Len(destination) \in Nat
  BY WifiAssumption DEF TypeOK
<1>2. \A r \in 1 .. Len(destination) : to[r] = destination[r]
  BY <1>1
<1> HIDE DEF to
<1>3. CASE q <= p
  BY <1>3 DEF Follows
<1>4. CASE /\ destination[q] # destination[p]
           /\ \E r \in LongPackets : r <= p /\ destination[r] = destination[p]
  <2>1. PICK r \in LongPackets : r <= p /\ destination[r] = destination[p]
    BY <1>4
  <2>2. r \in 1 .. Len(destination)
    BY <1>1, <2>1
  <2>3. to[r] = to[p] /\ to[q] # to[p]
    BY <1>1, <1>2, <1>4, <2>1, <2>2
  <2> QED
    BY <2>1, <2>3 DEF Follows, to
<1> QED
  BY <1>3, <1>4 DEF Follows

\* m, the i-th of those for d after the step, is an MPDU of q, with no more
\* before it than there were, or a fragment cut of the first.
From(m, i, q, d) ==
  \E k \in DOMAIN q :
    /\ i <= k /\ m.packet = q[k].packet
    /\ \/ m.stamp = q[k].stamp /\ (IsFragment(m) <=> IsFragment(q[k]))
       \/ /\ IsFragment(m) /\ i = 1 /\ d # Broadcast /\ m.packet \in LongPackets
          /\ m.stamp = now /\ now' = now + 1

Drawn ==
  \A d \in Destinations : \A i \in DOMAIN queue'[d] : From(queue'[d][i], i, queue[d], d)

LEMMA OneQueueDrawn ==
  ASSUME OnceInv, NEW d \in Destinations,
         \A e \in Destinations : e # d => queue'[e] = queue[e],
         \A i \in DOMAIN queue'[d] : From(queue'[d][i], i, queue[d], d)
  PROVE  Drawn
<1> SUFFICES ASSUME NEW e \in Destinations, NEW i \in DOMAIN queue'[e]
             PROVE  From(queue'[e][i], i, queue[e], e)
  BY DEF Drawn
<1>1. CASE e = d
  BY <1>1
<1>2. CASE e # d
  <2>1. i \in DOMAIN queue[e] /\ queue'[e][i] = queue[e][i] /\ i \in Nat
    BY <1>2 DEF OnceInv, Base, TypeOK
  <2>2. i <= i
    BY <2>1
  <2> QED
    BY <2>1, <2>2 DEF From
<1> QED
  BY <1>1, <1>2

\* What the queues hold when the MPDUs are typed.
LEMMA QueuedType ==
  ASSUME TypeOK, NEW d \in Destinations, NEW i \in DOMAIN queue[d]
  PROVE  /\ queue[d] \in Seq(Mpdus) /\ queue[d] # <<>> /\ queue[d][i] \in Mpdus
         /\ i \in Nat /\ i > 0 /\ queue[d][i].packet \in Packets /\ queue[d][i].packet \in Int
         /\ queue[d][i].stamp \in Nat /\ now \in Nat
<1>1. queue[d] \in Seq(Mpdus) /\ now \in Nat
  BY DEF TypeOK
<1>2. queue[d][i] \in Mpdus /\ i \in Nat /\ i > 0 /\ queue[d] # <<>>
  BY <1>1
<1> QED
  BY <1>1, <1>2, MpduParts DEF Packets

LEMMA DrawnKept ==
  ASSUME OnceInv, OnceInv', Ordered, Drawn, now' \in {now, now + 1},
         m_mpdu' # NoMpdu /\ m_mpdu'.to = Broadcast => ~IsFragment(m_mpdu'.mpdu)
  PROVE  Pieced' /\ Stamped'
<1>1. TypeOK /\ TypeOK' /\ Pieced /\ Stamped
  BY DEF OnceInv, Base, Ordered
<1>2. Pieced'
  <2> SUFFICES ASSUME NEW d \in Destinations, NEW i \in DOMAIN queue'[d], IsFragment(queue'[d][i])
               PROVE  i = 1 /\ d # Broadcast /\ queue'[d][i].packet \in LongPackets
    BY DEF Pieced, IsFragment
  <2>1. PICK k \in DOMAIN queue[d] :
          /\ i <= k /\ queue'[d][i].packet = queue[d][k].packet
          /\ \/ IsFragment(queue[d][k])
             \/ i = 1 /\ d # Broadcast /\ queue'[d][i].packet \in LongPackets
    BY DEF Drawn, From
  <2>2. CASE IsFragment(queue[d][k])
    <3>1. k = 1 /\ d # Broadcast /\ queue[d][k].packet \in LongPackets
      BY <1>1, <2>2 DEF Pieced
    <3>2. i \in Nat /\ i > 0
      BY <1>1 DEF TypeOK
    <3> QED
      BY <2>1, <3>1, <3>2
  <2> QED
    BY <2>1, <2>2
<1>3. Stamped'
  <2> SUFFICES ASSUME NEW d \in Destinations, NEW i \in DOMAIN queue'[d]
               PROVE  /\ queue'[d][i].stamp < now'
                      /\ ~IsFragment(queue'[d][i]) =>
                           \A e \in Destinations : \A j \in DOMAIN queue'[e] :
                             queue'[d][i].packet < queue'[e][j].packet =>
                               queue'[d][i].stamp < queue'[e][j].stamp
    BY DEF Stamped, IsFragment
  <2>1. \A e \in Destinations : \A j \in DOMAIN queue'[e] : \E k \in DOMAIN queue[e] :
          /\ queue'[e][j].packet = queue[e][k].packet
          /\ \/ /\ queue'[e][j].stamp = queue[e][k].stamp
                /\ IsFragment(queue'[e][j]) <=> IsFragment(queue[e][k])
             \/ IsFragment(queue'[e][j]) /\ queue'[e][j].stamp = now /\ now' = now + 1
    BY DEF Drawn, From
  <2>2. PICK k \in DOMAIN queue[d] :
          /\ queue'[d][i].packet = queue[d][k].packet
          /\ \/ /\ queue'[d][i].stamp = queue[d][k].stamp
                /\ IsFragment(queue'[d][i]) <=> IsFragment(queue[d][k])
             \/ IsFragment(queue'[d][i]) /\ queue'[d][i].stamp = now /\ now' = now + 1
    BY <2>1
  <2>3. queue[d][k].stamp \in Nat /\ now \in Nat /\ queue[d][k].stamp < now
    BY <1>1, QueuedType DEF Stamped
  <2>4. queue'[d][i].stamp < now'
    BY <2>2, <2>3
  <2>5. ASSUME ~IsFragment(queue'[d][i]), NEW e \in Destinations, NEW j \in DOMAIN queue'[e],
               queue'[d][i].packet < queue'[e][j].packet
        PROVE  queue'[d][i].stamp < queue'[e][j].stamp
    <3>1. queue'[d][i].stamp = queue[d][k].stamp /\ ~IsFragment(queue[d][k])
      BY <2>2, <2>5
    <3>2. PICK n \in DOMAIN queue[e] :
            /\ queue'[e][j].packet = queue[e][n].packet
            /\ queue'[e][j].stamp = queue[e][n].stamp \/ queue'[e][j].stamp = now
      BY <2>1
    <3>3. queue[d][k].stamp < queue[e][n].stamp
      BY <1>1, <2>2, <2>5, <3>1, <3>2 DEF Stamped
    <3> QED
      BY <2>3, <3>1, <3>2, <3>3
  <2> QED
    BY <2>4, <2>5
<1> QED
  BY <1>2, <1>3

LEMMA FollowsAllKept ==
  ASSUME Drawn, destination' = destination
  PROVE  \A q : FollowsAll(q) => FollowsAll(q)'
<1> SUFFICES ASSUME NEW q, FollowsAll(q), NEW d \in Destinations, NEW i \in DOMAIN queue'[d]
             PROVE  Follows(destination', q, queue'[d][i].packet)
  BY DEF FollowsAll
<1>1. PICK k \in DOMAIN queue[d] : queue'[d][i].packet = queue[d][k].packet
  BY DEF Drawn, From
<1>2. Follows(destination, q, queue[d][k].packet)
  BY DEF FollowsAll
<1> QED
  BY <1>1, <1>2

LEMMA OrderedKept ==
  ASSUME OnceInv, OnceInv', Ordered, Drawn, now' \in {now, now + 1},
         UNCHANGED <<destination, forwarded>>, m_mpdu' \in {m_mpdu, NoMpdu}
  PROVE  Ordered'
<1>1. Pieced' /\ Stamped'
  <2>1. m_mpdu' # NoMpdu /\ m_mpdu'.to = Broadcast => ~IsFragment(m_mpdu'.mpdu)
    BY DEF Ordered, Pieced
  <2> QED
    BY <2>1, DrawnKept
<1>2. \A s \in Stations : \A p : PassedUp(s, p)' <=> PassedUp(s, p)
  BY DEF PassedUp
<1>3. \A q, p : Follows(destination', q, p) <=> Follows(destination, q, p)
  OBVIOUS
<1>4. \A q : FollowsAll(q) => FollowsAll(q)'
  BY FollowsAllKept
<1>5. Ahead'
  BY <1>2, <1>3, <1>4 DEF Ordered, Ahead
<1> QED
  BY <1>1, <1>5 DEF Ordered

LEMMA QueueOrder ==
  ASSUME OnceInv, OnceInv', Ordered, NEW d \in Destinations, Queue(d)
  PROVE  Ordered'
<1> DEFINE p == Len(destination) + 1
           w == Whole(p)
<1>1. TypeOK /\ TypeOK' /\ QueuesInOrder /\ QueuedAreNew /\ Pieced /\ Stamped /\ Ahead
  BY DEF OnceInv, Base, Fresh, Ordered
<1>2. /\ Len(destination) \in Nat /\ DOMAIN destination = 1 .. Len(destination)
      /\ now \in Nat /\ now' = now + 1 /\ destination' = Append(destination, d)
      /\ UNCHANGED <<m_mpdu, rx, forwarded>>
      /\ queue' = queue \/ queue' = [queue EXCEPT ![d] = Append(queue[d], w)]
  BY <1>1 DEF Queue, TypeOK, exchangeVars, stationVars
<1>3. w.packet = p /\ ~IsFragment(w) /\ w.stamp = now /\ w \in Mpdus
  <2>1. p \in Packets
    BY <1>1 DEF TypeOK, Packets, Queue
  <2> QED
    BY <1>1, <2>1, WholeType DEF Whole, IsFragment
<1>4. p = Len(destination) + 1
  OBVIOUS
<1> HIDE DEF p, w
<1>5. \A e \in Destinations : \A i \in DOMAIN queue'[e] :
        \/ i \in DOMAIN queue[e] /\ queue'[e][i] = queue[e][i]
        \/ queue'[e][i] = w
  <2>1. queue \in [Destinations -> Seq(Mpdus)] /\ queue[d] \in Seq(Mpdus)
    BY <1>1 DEF TypeOK
  <2>2. \A i \in DOMAIN Append(queue[d], w) :
          \/ i \in DOMAIN queue[d] /\ Append(queue[d], w)[i] = queue[d][i]
          \/ Append(queue[d], w)[i] = w
    BY <1>3, <2>1
  <2> QED
    BY <1>2, <2>1, <2>2
<1>6. \A e \in Destinations : \A i \in DOMAIN queue[e] :
        /\ queue[e][i].packet \in DOMAIN destination /\ queue[e][i].packet < p
        /\ queue[e][i].stamp < now /\ queue[e][i].stamp \in Nat
  BY <1>1, <1>2, <1>4, QueuedType DEF QueuesInOrder, Known, Stamped
<1>7. Pieced'
  BY <1>1, <1>2, <1>3, <1>5 DEF Pieced, IsFragment
<1>8. Stamped'
  <2> SUFFICES ASSUME NEW e \in Destinations, NEW i \in DOMAIN queue'[e]
               PROVE  /\ queue'[e][i].stamp < now'
                      /\ ~IsFragment(queue'[e][i]) =>
                           \A c \in Destinations : \A j \in DOMAIN queue'[c] :
                             queue'[e][i].packet < queue'[c][j].packet =>
                               queue'[e][i].stamp < queue'[c][j].stamp
    BY DEF Stamped, IsFragment
  <2>1. CASE queue'[e][i] = w
    <3>1. ~(p < p)
      BY <1>2, <1>4
    <3>2. \A c \in Destinations : \A j \in DOMAIN queue'[c] : ~(p < queue'[c][j].packet)
      <4>1. \A c \in Destinations : \A j \in DOMAIN queue[c] : ~(p < queue[c][j].packet)
        BY <1>1, <1>2, <1>4, <1>6, QueuedType
      <4> QED
        BY <1>3, <1>5, <3>1, <4>1
    <3> QED
      BY <1>2, <1>3, <2>1, <3>2
  <2>2. CASE i \in DOMAIN queue[e] /\ queue'[e][i] = queue[e][i]
    <3>1. queue[e][i].stamp < now /\ queue[e][i].stamp \in Nat
      BY <1>6, <2>2
    <3>2. ASSUME ~IsFragment(queue[e][i]), NEW c \in Destinations, NEW j \in DOMAIN queue'[c],
                 queue[e][i].packet < queue'[c][j].packet
          PROVE  queue[e][i].stamp < queue'[c][j].stamp
      <4>1. CASE queue'[c][j] = w
        BY <1>3, <3>1, <4>1
      <4>2. CASE j \in DOMAIN queue[c] /\ queue'[c][j] = queue[c][j]
        BY <1>1, <2>2, <3>2, <4>2 DEF Stamped
      <4> QED
        BY <1>5, <4>1, <4>2
    <3> QED
      BY <1>2, <2>2, <3>1, <3>2
  <2> QED
    BY <1>5, <2>1, <2>2
<1>9. ASSUME NEW n \in DOMAIN destination, FollowsAll(n)
      PROVE  FollowsAll(n)'
  <2>1. n <= p
    BY <1>2, <1>4
  <2> SUFFICES ASSUME NEW e \in Destinations, NEW i \in DOMAIN queue'[e]
               PROVE  Follows(destination', n, queue'[e][i].packet)
    BY DEF FollowsAll
  <2>2. CASE queue'[e][i] = w
    BY <1>3, <2>1, <2>2 DEF Follows
  <2>3. CASE i \in DOMAIN queue[e] /\ queue'[e][i] = queue[e][i]
    <3>1. Follows(destination, n, queue[e][i].packet) /\ queue[e][i].packet \in DOMAIN destination
      BY <1>6, <1>9, <2>3 DEF FollowsAll
    <3> QED
      BY <1>1, <1>2, <2>3, <3>1, FollowsGrows
  <2> QED
    BY <1>5, <2>2, <2>3
<1>10. \A s \in Stations : \A n : PassedUp(s, n)' <=> PassedUp(s, n)
  BY <1>2 DEF PassedUp
<1>11. /\ m_mpdu # NoMpdu => m_mpdu.mpdu.packet \in DOMAIN destination
       /\ \A s \in Stations : \A n \in Packets : PassedUp(s, n) => n \in DOMAIN destination
  BY <1>1 DEF QueuesInOrder, Known, QueuedAreNew
<1>12. ASSUME NEW n \in DOMAIN destination, m_mpdu # NoMpdu,
              Follows(destination, n, m_mpdu.mpdu.packet)
       PROVE  Follows(destination', n, m_mpdu'.mpdu.packet)
  BY <1>1, <1>2, <1>11, <1>12, FollowsGrows
<1>13. Ahead'
  BY <1>1, <1>2, <1>9, <1>10, <1>11, <1>12 DEF Ahead
<1> QED
  BY <1>7, <1>8, <1>13 DEF Ordered

LEMMA ExpireDrawn ==
  ASSUME OnceInv, NEW d \in Destinations, Expire(d)
  PROVE  Drawn /\ UNCHANGED <<now, destination, forwarded, m_mpdu>>
<1>1. TypeOK /\ ExchangeOK
  BY DEF OnceInv, Base
<1>2. queue \in [Destinations -> Seq(Mpdus)] /\ queue[d] \in Seq(Mpdus)
  BY <1>1 DEF TypeOK
<1>3. /\ InFlight(d) => queue[d] # <<>> /\ Tail(queue[d]) # <<>>
      /\ ~InFlight(d) => queue[d] # <<>>
  BY <1>1 DEF ExchangeOK, Expire, NotInFlight, InFlight
<1> DEFINE spared == <<Head(queue[d])>> \o Tail(Tail(queue[d]))
<1>4. queue' = [queue EXCEPT ![d] = IF InFlight(d) THEN spared ELSE Tail(queue[d])]
  BY DEF Expire
<1> HIDE DEF spared
<1>5. /\ \A e \in Destinations : e # d => queue'[e] = queue[e]
      /\ queue'[d] = IF InFlight(d) THEN spared ELSE Tail(queue[d])
  BY <1>2, <1>4
<1>6. ASSUME NEW i \in DOMAIN queue'[d] PROVE From(queue'[d][i], i, queue[d], d)
  <2>1. CASE InFlight(d)
    <3>1. /\ i \in DOMAIN queue[d] /\ i + 1 \in DOMAIN queue[d]
          /\ spared[i] = IF i = 1 THEN queue[d][1] ELSE queue[d][i + 1]
      BY <1>2, <1>3, <1>5, <1>6, <2>1, SpareHeadShape DEF spared
    <3>2. i \in Nat /\ i <= i /\ i <= i + 1
      BY <1>2, <3>1
    <3> QED
      BY <1>5, <2>1, <3>1, <3>2 DEF From
  <2>2. CASE ~InFlight(d)
    <3>1. i + 1 \in DOMAIN queue[d] /\ Tail(queue[d])[i] = queue[d][i + 1] /\ i \in Nat
      BY <1>2, <1>3, <1>5, <1>6, <2>2, TailShape
    <3>2. i <= i + 1
      BY <3>1
    <3> QED
      BY <1>5, <2>2, <3>1, <3>2 DEF From
  <2> QED
    BY <2>1, <2>2
<1>7. UNCHANGED <<now, destination, forwarded, m_mpdu>>
  BY DEF Expire, exchangeVars, stationVars
<1> QED
  BY <1>5, <1>6, <1>7, OneQueueDrawn

\* All that waits may follow the MPDU that is served first.
LEMMA OldestFirst ==
  ASSUME OnceInv, Ordered, NEW d \in Destinations, IsNext(d)
  PROVE  FollowsAll(Head(queue[d]).packet)
<1>1. TypeOK /\ QueuesInOrder /\ Pieced /\ Stamped
  BY DEF OnceInv, Base, Fresh, Ordered
<1>2. queue[d] # <<>> /\ queue[d] \in Seq(Mpdus)
  BY <1>1 DEF IsNext, TypeOK
<1> DEFINE h == Head(queue[d])
<1>3. h = queue[d][1] /\ 1 \in DOMAIN queue[d]
  BY <1>2, TailShape
<1>4. h.packet \in Int /\ h.stamp \in Nat
  BY <1>1, <1>3, QueuedType
<1> SUFFICES ASSUME NEW e \in Destinations, NEW i \in DOMAIN queue[e]
             PROVE  Follows(destination, h.packet, queue[e][i].packet)
  BY DEF FollowsAll
<1> DEFINE x == queue[e][i].packet
           g == queue[e][1]
<1>5. /\ queue[e] \in Seq(Mpdus) /\ queue[e] # <<>> /\ x \in Int /\ i \in Nat /\ i > 0
  BY <1>1, QueuedType
<1>6. Head(queue[e]) = g /\ 1 \in DOMAIN queue[e]
  BY <1>5, TailShape
<1>7. g.packet \in Int /\ g.stamp \in Nat
  BY <1>1, <1>6, QueuedType
<1>8. h.stamp <= g.stamp
  BY <1>5, <1>6 DEF IsNext
<1>9. g.packet <= x
  <2>1. CASE i = 1
    BY <1>5, <2>1
  <2>2. CASE 1 < i
    <3>1. g.packet < x
      BY <1>1, <1>6, <2>2 DEF QueuesInOrder
    <3> QED
      BY <1>5, <1>7, <3>1
  <2> QED
    BY <1>5, <2>1, <2>2
<1>10. destination[h.packet] = d /\ destination[g.packet] = e /\ destination[x] = e
  BY <1>1, <1>3, <1>6 DEF QueuesInOrder, Known
<1>11. IsFragment(g) => g.packet \in LongPackets
  BY <1>1, <1>6 DEF Pieced
<1>12. ~IsFragment(g) /\ g.packet < h.packet => g.stamp < h.stamp
  BY <1>1, <1>3, <1>6 DEF Stamped
<1>13. d = e => h = g
  BY <1>3
<1> HIDE DEF h, x, g
<1>14. CASE d = e \/ ~IsFragment(g)
  <2>1. ~(g.packet < h.packet)
    BY <1>4, <1>7, <1>8, <1>12, <1>13, <1>14
  <2>2. h.packet <= x
    BY <1>4, <1>5, <1>7, <1>9, <2>1
  <2> QED
    BY <2>2 DEF Follows, x
<1>15. CASE d # e /\ IsFragment(g)
  BY <1>9, <1>10, <1>11, <1>15 DEF Follows, x
<1> QED
  BY <1>14, <1>15

\* m takes the place of h, the first MPDU for d, in an exchange or in the queue.
Replaces(m, h, d) ==
  /\ m.packet = h.packet
  /\ \/ m.stamp = h.stamp /\ (IsFragment(m) <=> IsFragment(h))
     \/ /\ IsFragment(m) /\ d # Broadcast /\ m.packet \in LongPackets
        /\ m.stamp = now /\ now' = now + 1

LEMMA FirstDrawn ==
  ASSUME OnceInv, NEW d \in Destinations, queue[d] # <<>>, NEW m \in Mpdus,
         \/ queue' = [queue EXCEPT ![d] = Tail(queue[d])]
         \/ /\ queue' = [queue EXCEPT ![d] = <<m>> \o Tail(queue[d])]
            /\ Replaces(m, Head(queue[d]), d)
  PROVE  Drawn
<1>1. queue \in [Destinations -> Seq(Mpdus)] /\ queue[d] \in Seq(Mpdus)
  BY DEF OnceInv, Base, TypeOK
<1> DEFINE q == queue[d]
<1>2. /\ q \in Seq(Mpdus) /\ q # <<>> /\ Head(q) = q[1] /\ 1 \in DOMAIN q
      /\ \A i \in DOMAIN q : i \in Nat
  BY <1>1, TailShape
<1>3. CASE queue' = [queue EXCEPT ![d] = Tail(q)]
  <2>1. queue'[d] = Tail(q) /\ \A e \in Destinations : e # d => queue'[e] = queue[e]
    BY <1>1, <1>3
  <2>2. ASSUME NEW i \in DOMAIN queue'[d] PROVE From(queue'[d][i], i, q, d)
    <3>1. i + 1 \in DOMAIN q /\ queue'[d][i] = q[i + 1] /\ i \in Nat
      BY <1>2, <2>1, TailShape
    <3>2. i <= i + 1
      BY <3>1
    <3> QED
      BY <3>1, <3>2 DEF From
  <2> QED
    BY <2>1, <2>2, OneQueueDrawn
<1>4. CASE queue' = [queue EXCEPT ![d] = <<m>> \o Tail(q)] /\ Replaces(m, Head(q), d)
  <2>1. queue'[d] = <<m>> \o Tail(q) /\ \A e \in Destinations : e # d => queue'[e] = queue[e]
    BY <1>1, <1>4
  <2>2. ASSUME NEW i \in DOMAIN queue'[d] PROVE From(queue'[d][i], i, q, d)
    <3>1. i \in DOMAIN q /\ queue'[d][i] = (IF i = 1 THEN m ELSE q[i]) /\ i \in Nat /\ i <= i
      BY <1>2, <2>1, NewHeadShape
    <3> QED
      BY <1>2, <1>4, <3>1 DEF From, Replaces
  <2> QED
    BY <2>1, <2>2, OneQueueDrawn
<1> QED
  BY <1>3, <1>4

\* What a transmission does to the queues.
LEMMA Starts ==
  ASSUME OnceInv, GrantAccess \/ SendNextFragment
  PROVE  \/ UNCHANGED <<queue, now, m_mpdu, air>>
         \/ \E d \in Destinations : \E m \in Mpdus :
              /\ IsNext(d) /\ Transmit(d, m) /\ Replaces(m, Head(queue[d]), d)
              /\ IsFragment(Head(queue[d])) => m = Head(queue[d])
              /\ m.frag = Head(queue[d]).frag
              /\ now' \in {now, now + 1}
<1>1. Base /\ TypeOK /\ StartTransmission
  BY DEF OnceInv, Base, GrantAccess, SendNextFragment
<1>2. CASE UNCHANGED <<queueVars, exchangeVars>>
  BY <1>2 DEF queueVars, exchangeVars
<1>3. ASSUME NEW d \in Destinations, IsNext(d)
      PROVE  LET h == Head(queue[d])
                 m == Numbered(h)
             IN /\ h \in Mpdus /\ m \in Mpdus
                /\ m.packet = h.packet /\ m.stamp = h.stamp /\ m.frag = h.frag
                /\ IsFragment(m) <=> IsFragment(h)
                /\ IsFragment(h) => m = h
  <2>1. Head(queue[d]) \in Mpdus
    BY <1>1, <1>3, Sent DEF IsNext
  <2> QED
    BY <1>1, <2>1, NumberedType DEF IsFragment, Numbered
<1>4. ASSUME NEW d \in Destinations, IsNext(d), Transmit(d, Numbered(Head(queue[d]))),
             UNCHANGED now
      PROVE  \E m \in Mpdus : /\ Transmit(d, m) /\ Replaces(m, Head(queue[d]), d)
                              /\ IsFragment(Head(queue[d])) => m = Head(queue[d])
                              /\ m.frag = Head(queue[d]).frag
  <2> DEFINE h == Head(queue[d])
             m == Numbered(h)
  <2>1. /\ m \in Mpdus /\ m.packet = h.packet /\ m.stamp = h.stamp /\ m.frag = h.frag
        /\ IsFragment(m) <=> IsFragment(h)
        /\ IsFragment(h) => m = h
    BY <1>3, <1>4
  <2>2. Transmit(d, m)
    BY <1>4
  <2> HIDE DEF h, m
  <2>3. Replaces(m, h, d)
    BY <2>1 DEF Replaces
  <2> QED
    BY <2>1, <2>2, <2>3 DEF h
<1>5. ASSUME NEW d \in Destinations, IsNext(d),
             NeedFragmentation(Numbered(Head(queue[d])), d),
             Transmit(d, FirstFragment(Numbered(Head(queue[d])))), now' = now + 1
      PROVE  \E m \in Mpdus : /\ Transmit(d, m) /\ Replaces(m, Head(queue[d]), d)
                              /\ IsFragment(Head(queue[d])) => m = Head(queue[d])
                              /\ m.frag = Head(queue[d]).frag
  <2> DEFINE h == Head(queue[d])
             n == Numbered(h)
             m == FirstFragment(n)
  <2>1. /\ h \in Mpdus /\ n \in Mpdus /\ n.packet = h.packet /\ n.frag = h.frag
        /\ IsFragment(n) <=> IsFragment(h)
    BY <1>3, <1>5
  <2>2. NeedFragmentation(n, d) /\ Transmit(d, m)
    BY <1>5
  <2> HIDE DEF h, n
  <2>3. d # Broadcast /\ ~IsFragment(n) /\ n.packet \in LongPackets
    BY <2>2 DEF NeedFragmentation
  <2>4. m \in Mpdus /\ m.packet = n.packet /\ m.more /\ m.frag = n.frag /\ m.stamp = now
    BY <1>1, <2>1, <2>3, FirstFragmentType DEF FirstFragment, Mpdus
  <2>5. Replaces(m, h, d)
    BY <1>5, <2>1, <2>3, <2>4 DEF Replaces, IsFragment
  <2> QED
    BY <2>1, <2>2, <2>3, <2>4, <2>5 DEF h
<1> QED
  BY <1>1, <1>2, <1>4, <1>5 DEF StartTransmission

LEMMA SendingOrder ==
  ASSUME OnceInv, OnceInv', Ordered, GrantAccess \/ SendNextFragment
  PROVE  Ordered'
<1>1. TypeOK /\ Pieced /\ Ahead /\ queue \in [Destinations -> Seq(Mpdus)]
  BY DEF OnceInv, Base, TypeOK, Ordered
<1>2. UNCHANGED <<rx, forwarded, destination>>
  BY DEF GrantAccess, SendNextFragment, stationVars, history
<1>3. CASE UNCHANGED <<queue, now, m_mpdu, air>>
  <2>1. Drawn
    <3>1. \A e \in Destinations : \A i \in DOMAIN queue[e] : i \in Nat
      BY <1>1
    <3>2. \A i \in Nat : i <= i
      OBVIOUS
    <3> QED
      BY <1>3, <3>1, <3>2 DEF Drawn, From
  <2> QED
    BY <1>2, <1>3, <2>1, OrderedKept
<1>4. ASSUME NEW d \in Destinations, NEW m \in Mpdus, IsNext(d), Transmit(d, m),
             Replaces(m, Head(queue[d]), d), now' \in {now, now + 1}
      PROVE  Ordered'
  <2> DEFINE h == Head(queue[d])
  <2>1. queue[d] \in Seq(Mpdus) /\ queue[d] # <<>> /\ h = queue[d][1] /\ 1 \in DOMAIN queue[d]
    BY <1>1, <1>4, TailShape DEF IsNext
  <2>2. /\ m_mpdu' = [mpdu |-> m, to |-> d]
        /\ queue' = [queue EXCEPT ![d] = IF d = Broadcast THEN Tail(queue[d])
                                         ELSE <<m>> \o Tail(queue[d])]
    BY <1>4 DEF Transmit
  <2>3. m_mpdu' # NoMpdu /\ m_mpdu'.mpdu = m /\ m_mpdu'.to = d
    BY <2>2, NoMpduAssumption DEF Exchanges
  <2>4. FollowsAll(h.packet) /\ m.packet = h.packet
    BY <1>4, OldestFirst DEF Replaces
  <2>5. Drawn
    BY <1>4, <2>1, <2>2, FirstDrawn
  <2>6. d = Broadcast => ~IsFragment(m)
    BY <1>1, <1>4, <2>1 DEF Pieced, Replaces
  <2> HIDE DEF h
  <2>7. Pieced' /\ Stamped'
    BY <1>4, <2>3, <2>5, <2>6, DrawnKept
  <2>8. \A s \in Stations : \A p : PassedUp(s, p)' <=> PassedUp(s, p)
    BY <1>2 DEF PassedUp
  <2>9. \A p : FollowsAll(p) => FollowsAll(p)' /\ Follows(destination', p, m.packet)
    <3>1. \A p : FollowsAll(p) => FollowsAll(p)'
      BY <1>2, <2>5, FollowsAllKept
    <3>2. \A p : FollowsAll(p) => Follows(destination, p, h.packet)
      BY <2>1 DEF FollowsAll
    <3> QED
      BY <1>2, <2>4, <3>1, <3>2
  <2>10. Ahead'
    BY <1>1, <2>3, <2>4, <2>8, <2>9 DEF Ahead
  <2> QED
    BY <2>7, <2>10 DEF Ordered
<1> QED
  BY <1>3, <1>4, Starts

\* What an Ack, or none, makes of the queue: its first MPDU leaves, or another
\* with its packet takes the place.
LEMMA Answers ==
  ASSUME OnceInv, Ordered, ReceivedNormalAck \/ NormalAckTimeout
  PROVE  LET d == m_mpdu.to
             h == m_mpdu.mpdu
             next == IF ReceivedNormalAck THEN NextFragment(h) ELSE [h EXCEPT !.retry = TRUE]
         IN /\ d \in Stations /\ h \in Mpdus /\ queue[d] # <<>> /\ Head(queue[d]) = h
            /\ now' \in {now, now + 1} /\ m_mpdu' = NoMpdu
            /\ UNCHANGED <<rx, forwarded, destination>>
            /\ \/ queue' = [queue EXCEPT ![d] = Tail(queue[d])]
               \/ /\ next \in Mpdus /\ Replaces(next, h, d)
                  /\ queue' = [queue EXCEPT ![d] = <<next>> \o Tail(queue[d])]
<1> DEFINE d == m_mpdu.to
           h == m_mpdu.mpdu
           next == IF ReceivedNormalAck THEN NextFragment(h) ELSE [h EXCEPT !.retry = TRUE]
<1>1. Base /\ TypeOK /\ Pieced /\ m_txTimer
  BY DEF OnceInv, ReceivedNormalAck, NormalAckTimeout, Base, Ordered
<1>2. /\ d \in Stations /\ queue[d] \in Seq(Mpdus) /\ queue[d] # <<>> /\ h \in Mpdus
      /\ Head(queue[d]) = h /\ Head(queue[d]) = queue[d][1] /\ 1 \in DOMAIN queue[d]
      /\ d # Broadcast /\ d \in Destinations
  BY <1>1, Awaited, TailShape, WifiAssumption DEF Destinations
<1>3. CASE ReceivedNormalAck
  <2>1. UNCHANGED <<rx, forwarded, destination>> /\ m_mpdu' = NoMpdu
    BY <1>3 DEF ReceivedNormalAck, stationVars
  <2>2. CASE h.more /\ queue' = [queue EXCEPT ![d] = <<NextFragment(h)>> \o Tail(queue[d])]
             /\ now' = now + 1
    <3>1. /\ next = NextFragment(h) /\ next \in Mpdus /\ next.packet = h.packet
          /\ next.frag = h.frag + 1 /\ next.stamp = now /\ h.frag \in Nat
      <4>1. NextFragment(h).stamp = now /\ h.frag \in Nat
        BY <1>2 DEF NextFragment, Mpdus
      <4> QED
        BY <1>1, <1>2, <1>3, <2>2, <4>1, NextFragmentType
    <3>2. IsFragment(next)
      BY <3>1 DEF IsFragment
    <3>3. h.packet \in LongPackets
      BY <1>1, <1>2, <2>2 DEF Pieced, IsFragment
    <3>4. Replaces(next, h, d)
      BY <1>2, <2>2, <3>1, <3>2, <3>3 DEF Replaces
    <3> QED
      BY <1>2, <2>1, <2>2, <3>1, <3>4
  <2>3. CASE queue' = [queue EXCEPT ![d] = Tail(queue[d])] /\ now' = now
    BY <1>2, <2>1, <2>3
  <2> QED
    BY <1>3, <2>2, <2>3 DEF ReceivedNormalAck
<1>4. CASE NormalAckTimeout /\ ~ReceivedNormalAck
  <2>1. UNCHANGED <<now, rx, forwarded, destination>> /\ m_mpdu' = NoMpdu
    BY <1>4 DEF NormalAckTimeout, stationVars
  <2>2. next \in Mpdus /\ Replaces(next, h, d)
    BY <1>2, <1>4, RetryType DEF Replaces, IsFragment
  <2>3. \/ queue' = [queue EXCEPT ![d] = Tail(queue[d])]
        \/ queue' = [queue EXCEPT ![d] = <<next>> \o Tail(queue[d])]
    BY <1>2, <1>4 DEF NormalAckTimeout
  <2> QED
    BY <1>2, <2>1, <2>2, <2>3
<1> QED
  BY <1>3, <1>4

LEMMA AnswerOrder ==
  ASSUME OnceInv, OnceInv', Ordered, ReceivedNormalAck \/ NormalAckTimeout
  PROVE  Ordered'
<1> DEFINE d == m_mpdu.to
           h == m_mpdu.mpdu
           next == IF ReceivedNormalAck THEN NextFragment(h) ELSE [h EXCEPT !.retry = TRUE]
<1>1. /\ d \in Stations /\ h \in Mpdus /\ queue[d] # <<>> /\ Head(queue[d]) = h
      /\ now' \in {now, now + 1} /\ m_mpdu' = NoMpdu
      /\ UNCHANGED <<rx, forwarded, destination>>
      /\ \/ queue' = [queue EXCEPT ![d] = Tail(queue[d])]
         \/ /\ next \in Mpdus /\ Replaces(next, h, d)
            /\ queue' = [queue EXCEPT ![d] = <<next>> \o Tail(queue[d])]
  BY Answers
<1> HIDE DEF d, h, next
<1>2. d \in Destinations
  BY <1>1 DEF Destinations
<1>3. Drawn
  BY <1>1, <1>2, FirstDrawn
<1> QED
  BY <1>1, <1>3, OrderedKept

LEMMA QuietOrder ==
  ASSUME OnceInv, OnceInv', Ordered, UNCHANGED <<queue, now, destination, forwarded>>,
         m_mpdu' \in {m_mpdu, NoMpdu}
  PROVE  Ordered'
<1>1. \A d \in Destinations : \A i \in DOMAIN queue[d] : i \in Nat /\ i <= i
  BY DEF OnceInv, Base, TypeOK
<1>2. Drawn
  BY <1>1 DEF Drawn, From
<1> QED
  BY <1>2, OrderedKept

LEMMA ReceiveOrder ==
  ASSUME OnceInv, OnceInv', Ordered, NEW s \in Stations, Receive(s)
  PROVE  Ordered'
<1> DEFINE m == m_mpdu.mpdu
<1>1. TypeOK /\ ExchangeOK /\ Pieced /\ Stamped /\ Ahead
  BY DEF OnceInv, Base, Ordered
<1>2. /\ m_mpdu # NoMpdu /\ m \in Mpdus /\ MacRxMiddleReceive(s, m, m_mpdu.to)
      /\ UNCHANGED <<queue, now, m_mpdu, destination>>
  BY <1>1 DEF Receive, ExchangeOK, TypeOK, Exchanges, queueVars, history
<1>3. CASE UNCHANGED forwarded
  BY <1>2, <1>3, QuietOrder
<1>4. ASSUME NEW bodies \in Seq(Packets \cup {0}), Forward(s, m, bodies)
      PROVE  Ordered'
  <2> HIDE DEF m
  <2>1. Pieced' /\ Stamped'
    BY <1>1, <1>2 DEF Pieced, Stamped, IsFragment
  <2>2. \A t \in Stations : \A p : PassedUp(t, p)' <=> PassedUp(t, p) \/ (t = s /\ p = m.packet)
    BY <1>1, <1>2, <1>4, PassedUpNext
  <2>3. Follows(destination, m.packet, m.packet)
    BY <1>2, MpduParts DEF Packets, Follows
  <2>4. \A q, p : Follows(destination', q, p) <=> Follows(destination, q, p)
    BY <1>2
  <2>5. \A p : FollowsAll(p)' <=> FollowsAll(p)
    BY <1>2, <2>4 DEF FollowsAll
  <2>6. Ahead'
    BY <1>1, <1>2, <2>2, <2>3, <2>4, <2>5 DEF Ahead, m
  <2> QED
    BY <2>1, <2>6 DEF Ordered
<1> QED
  BY <1>1, <1>2, <1>3, <1>4, Received DEF stationVars

----------------------------------------------------------------------------
(* What is acknowledged: a station that awaits no fragments of a train that *)
(* was broken off keeps step with the sender                                *)

\* Long packets for s that were lost.
LostTo(s) == {r \in lost \cap LongPackets : r \in DOMAIN destination /\ destination[r] = s}

\* All that waits for s was handed over after a long packet that was lost.
Broken(s) == \E r \in LostTo(s) : \A i \in DOMAIN queue[s] : r < queue[s][i].packet

\* r: what a station remembers; m: the fragment that is sent to it.
Collected(r, m) == r.defragmenting /\ m.more /\ r.last = Control(m)

Discarded(r, m) == ~r.defragmenting /\ m.frag = 0 /\ r.last = Control(m)

InStep(r, m) ==
  \/ ~r.defragmenting /\ m.frag = 0
  \/ Collected(r, m)
  \/ r.defragmenting /\ r.last = <<m.seq, m.frag - 1>>
  \/ ~r.defragmenting /\ m.frag = 1 /\ r.last = <<m.seq, 0>>

StartsWhole(q) == q = <<>> \/ ~IsFragment(q[1])

\* The station waits for the fragment that is sent next, or has all of them.
InTrain(s) ==
  IF StartsWhole(queue[s]) THEN ~rx[s].defragmenting
  ELSE InStep(rx[s], queue[s][1]) \/ PassedUp(s, queue[s][1].packet)

\* Packet p, sent with number n, was passed up, or taken for an older one.
Settled(frames, p, n) ==
  \E f \in Range(frames) : f.packet = p \/ (f.packet < p /\ f.seq = n)

\* What the Ack of m says of the station.
Answered(r, frames, m) ==
  IF m.more THEN Collected(r, m) \/ Discarded(r, m)
  ELSE ~r.defragmenting /\ Settled(frames, m.packet, m.seq)

TrainsInStep == \A s \in Stations : Broken(s) \/ InTrain(s)

\* A number remembered, when no more fragments are awaited, is that of a frame
\* passed up.
LastKnown ==
  \A s \in Stations : rx[s].last # NoControl /\ ~rx[s].defragmenting =>
    \E f \in Range(forwarded[s]) : f.seq = rx[s].last[1] /\ destination[f.packet] = s

AckIsDue ==
  \A s \in Stations : air = "ack" /\ m_mpdu.to = s =>
    Broken(s) \/ Answered(rx[s], forwarded[s], m_mpdu.mpdu)

AcksWereDue ==
  \A a \in acked : \/ Settled(forwarded[a.to], a.packet, a.seq)
                   \/ \E r \in LostTo(a.to) : r < a.packet

Trains == TrainsInStep /\ LastKnown /\ AckIsDue /\ AcksWereDue

OrderInv == OnceInv /\ Ordered /\ Trains

LEMMA InitTrains == Init => Trains
<1> SUFFICES ASSUME Init PROVE Trains
  OBVIOUS
<1>1. /\ \A s \in Stations : ~rx[s].defragmenting /\ rx[s].last = NoControl
      /\ \A s \in Stations : queue[s] = <<>>
      /\ air = "idle" /\ acked = {}
  BY DEF Init, Destinations
<1> QED
  BY <1>1 DEF Trains, TrainsInStep, InTrain, StartsWhole, LastKnown, AckIsDue, AcksWereDue

\* What was lost stays lost.
LEMMA LostGrows ==
  ASSUME TypeOK, lost \subseteq lost',
         \/ destination' = destination
         \/ \E d \in Destinations : destination' = Append(destination, d)
  PROVE  \A s : LostTo(s) \subseteq LostTo(s)'
<1>1. ASSUME NEW d \in Destinations, destination' = Append(destination, d)
      PROVE  \A r \in DOMAIN destination :
               r \in DOMAIN destination' /\ destination'[r] = destination[r]
  <2>1. destination \in Seq(Destinations)
    BY DEF TypeOK
  <2> QED
    BY <1>1, <2>1, AppendShape
<1>2. \A r \in DOMAIN destination : r \in DOMAIN destination' /\ destination'[r] = destination[r]
  BY <1>1
<1> QED
  BY <1>2 DEF LostTo

LEMMA BrokenKept ==
  ASSUME Drawn, NEW s \in Stations, LostTo(s) \subseteq LostTo(s)', Broken(s)
  PROVE  Broken(s)'
<1>1. PICK r \in LostTo(s) : \A i \in DOMAIN queue[s] : r < queue[s][i].packet
  BY DEF Broken
<1>2. \A i \in DOMAIN queue'[s] : \E k \in DOMAIN queue[s] :
        queue'[s][i].packet = queue[s][k].packet
  BY DEF Drawn, From, Destinations
<1> QED
  BY <1>1, <1>2 DEF Broken

\* A train that is given up is broken off.
LEMMA Breaks ==
  ASSUME OnceInv, Ordered, NEW s \in Stations, queue[s] # <<>>, IsFragment(Head(queue[s])),
         queue'[s] = Tail(queue[s]), lost' = lost \cup {Head(queue[s]).packet},
         destination' = destination
  PROVE  Broken(s)'
<1>1. TypeOK /\ QueuesInOrder /\ Pieced /\ s \in Destinations
  BY DEF OnceInv, Base, Fresh, Ordered, Destinations
<1>2. queue[s] \in Seq(Mpdus)
  BY <1>1 DEF TypeOK
<1>3. Head(queue[s]) = queue[s][1] /\ 1 \in DOMAIN queue[s]
  BY <1>2, TailShape
<1> DEFINE p == queue[s][1].packet
<1>4. p \in LongPackets /\ p \in DOMAIN destination /\ destination[p] = s /\ p \in lost'
  BY <1>1, <1>3 DEF Pieced, QueuesInOrder, Known
<1>5. ASSUME NEW i \in DOMAIN queue'[s] PROVE p < queue'[s][i].packet
  <2>1. i + 1 \in DOMAIN queue[s] /\ queue'[s][i] = queue[s][i + 1] /\ i \in Nat /\ i > 0
    BY <1>2, TailShape
  <2>2. 1 < i + 1
    BY <2>1
  <2> QED
    BY <1>1, <1>3, <2>1, <2>2 DEF QueuesInOrder
<1> HIDE DEF p
<1> QED
  BY <1>4, <1>5 DEF Broken, LostTo

LEMMA TailIsWhole ==
  ASSUME OnceInv, Ordered, NEW s \in Stations, queue[s] # <<>>
  PROVE  StartsWhole(Tail(queue[s]))
<1>1. queue[s] \in Seq(Mpdus) /\ s \in Destinations
  BY DEF OnceInv, Base, TypeOK, Destinations
<1>2. CASE Tail(queue[s]) # <<>>
  <2>1. 1 \in DOMAIN Tail(queue[s])
    BY <1>1, <1>2
  <2>2. 1 + 1 \in DOMAIN queue[s] /\ Tail(queue[s])[1] = queue[s][1 + 1]
    BY <1>1, <2>1, TailShape
  <2>3. ~IsFragment(queue[s][1 + 1])
    BY <1>1, <2>2 DEF Ordered, Pieced
  <2> QED
    BY <2>2, <2>3 DEF StartsWhole
<1> QED
  BY <1>2 DEF StartsWhole

\* m is sent again, or still, as h.
Same(m, h) == m.packet = h.packet /\ m.seq = h.seq /\ m.frag = h.frag /\ m.more = h.more

LEMMA TrainKept ==
  ASSUME NEW s \in Stations, InTrain(s), UNCHANGED <<rx, forwarded>>,
         \/ queue'[s] = queue[s]
         \/ /\ queue[s] # <<>> /\ queue'[s] # <<>>
            /\ Same(queue'[s][1], queue[s][1])
         \/ StartsWhole(queue[s]) /\ StartsWhole(queue'[s])
  PROVE  InTrain(s)'
<1>1. \A p : PassedUp(s, p)' <=> PassedUp(s, p)
  BY DEF PassedUp
<1>2. CASE queue'[s] = queue[s]
  BY <1>1, <1>2 DEF InTrain
<1>3. CASE StartsWhole(queue[s]) /\ StartsWhole(queue'[s])
  BY <1>3 DEF InTrain
<1>4. CASE /\ queue[s] # <<>> /\ queue'[s] # <<>>
           /\ Same(queue'[s][1], queue[s][1])
  <2> DEFINE m == queue'[s][1]
             h == queue[s][1]
  <2>1. m.packet = h.packet /\ m.seq = h.seq /\ m.frag = h.frag /\ m.more = h.more
    BY <1>4 DEF Same
  <2> HIDE DEF m, h
  <2>2. /\ IsFragment(m) <=> IsFragment(h)
        /\ InStep(rx[s], h) => InStep(rx[s], m)
    BY <2>1 DEF IsFragment, InStep, Collected, Control
  <2> QED
    BY <1>1, <1>4, <2>1, <2>2 DEF InTrain, StartsWhole, m, h
<1> QED
  BY <1>2, <1>3, <1>4

\* A step in which no frame arrives, and no Ack.
LEMMA QuietTrains ==
  ASSUME OnceInv, OnceInv', Trains, UNCHANGED <<rx, forwarded, acked>>,
         air' = "ack" => air = "ack" /\ UNCHANGED m_mpdu,
         \A s : LostTo(s) \subseteq LostTo(s)',
         \A s \in Stations : Broken(s) => Broken(s)',
         \A s \in Stations : InTrain(s) => InTrain(s)' \/ Broken(s)',
         \A p \in DOMAIN destination : destination'[p] = destination[p]
  PROVE  Trains'
<1>1. TrainsInStep'
  BY DEF Trains, TrainsInStep
<1>2. LastKnown'
  <2>1. \A s \in Stations : \A f \in Range(forwarded[s]) : f.packet \in DOMAIN destination
    <3> SUFFICES ASSUME NEW s \in Stations, NEW f \in Range(forwarded[s])
                 PROVE  f.packet \in DOMAIN destination
      OBVIOUS
    <3>1. PICK i \in DOMAIN forwarded[s] : f = forwarded[s][i]
      BY DEF Range
    <3>2. f \in Frames
      BY <3>1 DEF OnceInv, Base, TypeOK
    <3>3. f.packet \in Packets /\ PassedUp(s, f.packet)
      BY <3>1, <3>2 DEF PassedUp, Frames
    <3> QED
      BY <3>3 DEF OnceInv, Fresh, QueuedAreNew
  <2> QED
    BY <2>1 DEF Trains, LastKnown
<1>3. AckIsDue'
  BY DEF Trains, AckIsDue
<1>4. AcksWereDue'
  BY DEF Trains, AcksWereDue
<1> QED
  BY <1>1, <1>2, <1>3, <1>4 DEF Trains

LEMMA DestinationsKept ==
  ASSUME TypeOK, NEW d \in Destinations, destination' = Append(destination, d)
  PROVE  \A p \in DOMAIN destination : destination'[p] = destination[p]
BY AppendShape DEF TypeOK

LEMMA QueueTrains ==
  ASSUME OnceInv, OnceInv', Trains, NEW d \in Destinations, Queue(d)
  PROVE  Trains'
<1> DEFINE p == Len(destination) + 1
           w == Whole(p)
<1>1. TypeOK /\ QueuesInOrder
  BY DEF OnceInv, Base, Fresh
<1>2. /\ Len(destination) \in Nat /\ DOMAIN destination = 1 .. Len(destination)
      /\ destination' = Append(destination, d) /\ lost \subseteq lost'
      /\ UNCHANGED <<m_mpdu, air, rx, forwarded, acked>>
      /\ queue' = queue \/ queue' = [queue EXCEPT ![d] = Append(queue[d], w)]
  BY <1>1 DEF Queue, TypeOK, exchangeVars, stationVars
<1>3. w.packet = p /\ ~IsFragment(w) /\ w \in Mpdus
  <2>1. p \in Packets
    BY <1>1 DEF TypeOK, Packets, Queue
  <2> QED
    BY <1>1, <2>1, WholeType DEF Whole, IsFragment
<1>4. p = Len(destination) + 1
  OBVIOUS
<1> HIDE DEF p, w
<1>5. \A s : LostTo(s) \subseteq LostTo(s)'
  BY <1>1, <1>2, LostGrows
<1>6. ASSUME NEW s \in Stations
      PROVE  \/ queue'[s] = queue[s]
             \/ /\ \A i \in DOMAIN queue'[s] :
                     \/ i \in DOMAIN queue[s] /\ queue'[s][i] = queue[s][i]
                     \/ queue'[s][i] = w
                /\ queue'[s] # <<>>
                /\ IF queue[s] = <<>> THEN queue'[s][1] = w ELSE queue'[s][1] = queue[s][1]
  <2>1. queue \in [Destinations -> Seq(Mpdus)] /\ queue[s] \in Seq(Mpdus)
    BY <1>1 DEF TypeOK, Destinations
  <2> DEFINE a == Append(queue[s], w)
  <2>2. /\ a \in Seq(Mpdus) /\ Len(a) = Len(queue[s]) + 1
        /\ \A i \in DOMAIN a : a[i] = IF i = Len(queue[s]) + 1 THEN w ELSE queue[s][i]
    BY <1>3, <2>1, AppendShape
  <2>3. queue'[s] = queue[s] \/ queue'[s] = a
    BY <1>2, <2>1 DEF Destinations
  <2> HIDE DEF a
  <2>4. /\ DOMAIN a = 1 .. Len(queue[s]) + 1 /\ DOMAIN queue[s] = 1 .. Len(queue[s])
        /\ Len(queue[s]) \in Nat
    BY <2>1, <2>2
  <2>5. \A i \in DOMAIN a : (i \in DOMAIN queue[s] /\ a[i] = queue[s][i]) \/ a[i] = w
    BY <2>2, <2>4
  <2>6. a # <<>> /\ 1 \in DOMAIN a
    BY <2>4
  <2>7. IF queue[s] = <<>> THEN a[1] = w ELSE a[1] = queue[s][1]
    <3>1. CASE queue[s] = <<>>
      <4>1. Len(queue[s]) = 0
        BY <3>1
      <4> QED
        BY <2>2, <2>6, <3>1, <4>1
    <3>2. CASE queue[s] # <<>>
      <4>1. Len(queue[s]) # 0
        BY <2>1, <3>2
      <4> QED
        BY <2>2, <2>4, <2>6, <3>2, <4>1
    <3> QED
      BY <3>1, <3>2
  <2> QED
    BY <2>3, <2>5, <2>6, <2>7
<1>7. ASSUME NEW s \in Stations, Broken(s) PROVE Broken(s)'
  <2>1. PICK r \in LostTo(s) : \A i \in DOMAIN queue[s] : r < queue[s][i].packet
    BY <1>7 DEF Broken
  <2>2. r < p
    BY <1>2, <1>4, <2>1 DEF LostTo
  <2>3. \A i \in DOMAIN queue'[s] : r < queue'[s][i].packet
    BY <1>3, <1>6, <2>1, <2>2
  <2> QED
    BY <1>5, <2>1, <2>3 DEF Broken
<1>8. ASSUME NEW s \in Stations, InTrain(s) PROVE InTrain(s)'
  <2>1. UNCHANGED <<rx, forwarded>>
    BY <1>2
  <2>2. CASE queue'[s] = queue[s]
    BY <1>8, <2>1, <2>2, TrainKept
  <2>3. CASE queue[s] # <<>> /\ queue'[s] # <<>> /\ queue'[s][1] = queue[s][1]
    BY <1>8, <2>1, <2>3, TrainKept DEF Same
  <2>4. CASE queue[s] = <<>> /\ queue'[s][1] = w
    BY <1>3, <1>8, <2>1, <2>4, TrainKept DEF StartsWhole
  <2> QED
    BY <1>6, <2>2, <2>3, <2>4
<1>9. \A n \in DOMAIN destination : destination'[n] = destination[n]
  BY <1>1, <1>2, DestinationsKept
<1> QED
  BY <1>2, <1>5, <1>7, <1>8, <1>9, QuietTrains

LEMMA ExpireTrains ==
  ASSUME OnceInv, OnceInv', Ordered, Trains, NEW d \in Destinations, Expire(d)
  PROVE  Trains'
<1>1. TypeOK /\ ExchangeOK /\ queue \in [Destinations -> Seq(Mpdus)] /\ queue[d] \in Seq(Mpdus)
  BY DEF OnceInv, Base, TypeOK
<1>2. /\ Drawn /\ UNCHANGED <<destination, rx, forwarded, acked, air, m_mpdu>>
      /\ lost' = lost \cup {Head(NotInFlight(d)).packet}
  BY ExpireDrawn DEF Expire, exchangeVars, stationVars
<1>3. /\ queue[d] # <<>>
      /\ \A e \in Destinations : e # d => queue'[e] = queue[e]
      /\ InFlight(d) => /\ Tail(queue[d]) # <<>>
                        /\ queue'[d] = <<Head(queue[d])>> \o Tail(Tail(queue[d]))
      /\ ~InFlight(d) => /\ queue'[d] = Tail(queue[d])
                         /\ lost' = lost \cup {Head(queue[d]).packet}
  <2>1. /\ InFlight(d) => queue[d] # <<>> /\ Tail(queue[d]) # <<>>
        /\ ~InFlight(d) => queue[d] # <<>>
    BY <1>1 DEF ExchangeOK, Expire, NotInFlight, InFlight
  <2>2. queue' = [queue EXCEPT ![d] = IF InFlight(d) THEN <<Head(queue[d])>> \o Tail(Tail(queue[d]))
                                      ELSE Tail(queue[d])]
    BY DEF Expire
  <2> QED
    BY <1>1, <1>2, <2>1, <2>2 DEF NotInFlight
<1>4. \A s : LostTo(s) \subseteq LostTo(s)'
  BY <1>1, <1>2, LostGrows
<1>5. \A s \in Stations : Broken(s) => Broken(s)'
  BY <1>2, <1>4, BrokenKept
<1>6. ASSUME NEW s \in Stations, InTrain(s) PROVE InTrain(s)' \/ Broken(s)'
  <2>1. CASE s # d
    BY <1>2, <1>3, <1>6, <2>1, TrainKept DEF Destinations
  <2>2. CASE s = d /\ InFlight(d)
    <3>1. queue'[s] # <<>> /\ Head(queue'[s]) = Head(queue[s]) /\ queue'[s] \in Seq(Mpdus)
      BY <1>1, <1>3, <2>2, SpareHeadShape
    <3>2. queue[s] # <<>> /\ queue'[s][1] = queue[s][1]
      BY <1>1, <1>3, <2>2, <3>1, TailShape
    <3> QED
      BY <1>2, <1>6, <3>1, <3>2, TrainKept DEF Same
  <2>3. CASE s = d /\ ~InFlight(d) /\ IsFragment(Head(queue[d]))
    BY <1>2, <1>3, <2>3, Breaks
  <2>4. CASE s = d /\ ~InFlight(d) /\ ~IsFragment(Head(queue[d]))
    <3>1. StartsWhole(queue'[s])
      BY <1>3, <2>4, TailIsWhole
    <3>2. StartsWhole(queue[s])
      BY <1>1, <1>3, <2>4, TailShape DEF StartsWhole
    <3> QED
      BY <1>2, <1>6, <3>1, <3>2, TrainKept
  <2> QED
    BY <2>1, <2>2, <2>3, <2>4
<1> QED
  BY <1>2, <1>4, <1>5, <1>6, QuietTrains

LEMMA SendingTrains ==
  ASSUME OnceInv, OnceInv', Ordered, Trains, GrantAccess \/ SendNextFragment
  PROVE  Trains'
<1>1. TypeOK /\ queue \in [Destinations -> Seq(Mpdus)]
  BY DEF OnceInv, Base, TypeOK
<1>2. UNCHANGED <<rx, forwarded, acked, lost, destination>>
  BY DEF GrantAccess, SendNextFragment, stationVars, history
<1>3. \A s : LostTo(s) \subseteq LostTo(s)'
  BY <1>1, <1>2, LostGrows
<1>4. CASE UNCHANGED <<queue, now, m_mpdu, air>>
  <2>1. \A s \in Stations : Broken(s) => Broken(s)'
    BY <1>3, <1>4 DEF Broken
  <2>2. \A s \in Stations : InTrain(s) => InTrain(s)'
    BY <1>2, <1>4, TrainKept
  <2> QED
    BY <1>2, <1>3, <1>4, <2>1, <2>2, QuietTrains
<1>5. ASSUME NEW d \in Destinations, NEW m \in Mpdus, IsNext(d), Transmit(d, m),
             Replaces(m, Head(queue[d]), d), m.frag = Head(queue[d]).frag,
             IsFragment(Head(queue[d])) => m = Head(queue[d])
      PROVE  Trains'
  <2> DEFINE h == Head(queue[d])
             resent == <<m>> \o Tail(queue[d])
  <2>1. queue[d] \in Seq(Mpdus) /\ queue[d] # <<>> /\ h = queue[d][1] /\ h \in Mpdus
    BY <1>1, <1>5, TailShape DEF IsNext
  <2>2. /\ queue' = [queue EXCEPT ![d] = IF d = Broadcast THEN Tail(queue[d]) ELSE resent]
        /\ air' = "data"
    BY <1>5 DEF Transmit
  <2>3. Drawn
    BY <1>5, <2>1, <2>2, FirstDrawn
  <2>4. \A s \in Stations : Broken(s) => Broken(s)'
    BY <1>3, <2>3, BrokenKept
  <2>5. resent # <<>> /\ resent[1] = m
    BY <2>1
  <2>6. m.frag = h.frag /\ (IsFragment(h) => m = h)
    BY <1>5
  <2> HIDE DEF h, resent
  <2>7. ASSUME NEW s \in Stations, InTrain(s) PROVE InTrain(s)'
    <3>1. CASE s # d
      <4>1. queue'[s] = queue[s]
        BY <1>1, <2>2, <3>1 DEF Destinations
      <4> QED
        BY <1>2, <2>7, <4>1, TrainKept
    <3>2. CASE s = d
      <4>1. queue'[s] = resent
        BY <1>1, <2>2, <3>2, WifiAssumption
      <4>2. CASE IsFragment(h)
        BY <1>2, <2>1, <2>5, <2>6, <2>7, <3>2, <4>1, <4>2, TrainKept DEF Same
      <4>3. CASE ~IsFragment(h)
        <5>1. StartsWhole(queue[s])
          BY <2>1, <3>2, <4>3 DEF StartsWhole
        <5>2. ~rx[s].defragmenting
          BY <2>7, <5>1 DEF InTrain
        <5>3. m.frag = 0
          BY <2>1, <2>6, <4>3, MpduParts DEF IsFragment
        <5>4. InStep(rx'[s], queue'[s][1])
          BY <1>2, <2>5, <4>1, <5>2, <5>3 DEF InStep
        <5> QED
          BY <1>2, <5>2, <5>4 DEF InTrain
      <4> QED
        BY <4>2, <4>3
    <3> QED
      BY <3>1, <3>2
  <2> QED
    BY <1>2, <1>3, <2>2, <2>4, <2>7, QuietTrains
<1> QED
  BY <1>4, <1>5, Starts

LEMMA TimeoutTrains ==
  ASSUME OnceInv, OnceInv', Ordered, Trains, NormalAckTimeout
  PROVE  Trains'
<1> DEFINE d == m_mpdu.to
           h == m_mpdu.mpdu
           again == [h EXCEPT !.retry = TRUE]
<1>1. Base /\ TypeOK /\ m_txTimer /\ queue \in [Destinations -> Seq(Mpdus)]
  BY DEF OnceInv, NormalAckTimeout, Base, TypeOK
<1>2. /\ d \in Stations /\ d \in Destinations /\ h \in Mpdus
      /\ queue[d] \in Seq(Mpdus) /\ queue[d] # <<>> /\ Head(queue[d]) = h /\ queue[d][1] = h
  BY <1>1, Awaited, TailShape DEF Destinations
<1>3. UNCHANGED <<rx, forwarded, acked, destination, air>> /\ air = "idle" /\ lost \subseteq lost'
  BY DEF NormalAckTimeout, stationVars
<1>4. again \in Mpdus /\ Same(again, h) /\ Replaces(again, h, d)
  BY <1>2, RetryType DEF Same, Replaces, IsFragment
<1>5. \/ queue' = [queue EXCEPT ![d] = <<again>> \o Tail(queue[d])]
      \/ queue' = [queue EXCEPT ![d] = Tail(queue[d])] /\ lost' = lost \cup {h.packet}
  BY <1>2 DEF NormalAckTimeout
<1> HIDE DEF d, h, again
<1>6. Drawn
  BY <1>2, <1>4, <1>5, FirstDrawn
<1>7. \A s : LostTo(s) \subseteq LostTo(s)'
  BY <1>1, <1>3, LostGrows
<1>8. \A s \in Stations : Broken(s) => Broken(s)'
  BY <1>6, <1>7, BrokenKept
<1>9. ASSUME NEW s \in Stations, InTrain(s) PROVE InTrain(s)' \/ Broken(s)'
  <2>1. CASE s # d
    <3>1. queue'[s] = queue[s]
      BY <1>1, <1>5, <2>1 DEF Destinations
    <3> QED
      BY <1>3, <1>9, <3>1, TrainKept
  <2>2. CASE s = d /\ queue' = [queue EXCEPT ![d] = <<again>> \o Tail(queue[d])]
    <3>1. queue'[s] = <<again>> \o Tail(queue[s])
      BY <1>1, <1>2, <2>2
    <3>2. queue'[s] # <<>> /\ queue'[s][1] = again
      BY <1>2, <1>4, <2>2, <3>1
    <3> QED
      BY <1>2, <1>3, <1>4, <1>9, <2>2, <3>2, TrainKept
  <2>3. CASE /\ s = d /\ queue' = [queue EXCEPT ![d] = Tail(queue[d])]
             /\ lost' = lost \cup {h.packet}
    <3>1. queue'[s] = Tail(queue[s]) /\ lost' = lost \cup {Head(queue[s]).packet}
      BY <1>1, <1>2, <2>3
    <3>2. CASE IsFragment(Head(queue[s]))
      BY <1>2, <1>3, <2>3, <3>1, <3>2, Breaks
    <3>3. CASE ~IsFragment(Head(queue[s]))
      <4>1. StartsWhole(queue[s]) /\ StartsWhole(queue'[s])
        BY <1>2, <2>3, <3>1, <3>3, TailIsWhole DEF StartsWhole
      <4> QED
        BY <1>3, <1>9, <4>1, TrainKept
    <3> QED
      BY <3>2, <3>3
  <2> QED
    BY <1>5, <2>1, <2>2, <2>3
<1> QED
  BY <1>3, <1>7, <1>8, <1>9, QuietTrains

LEMMA ReceivedNormalAckTrains ==
  ASSUME OnceInv, OnceInv', Ordered, Trains, ReceivedNormalAck
  PROVE  Trains'
<1> DEFINE d == m_mpdu.to
           h == m_mpdu.mpdu
           next == NextFragment(h)
           a == [packet |-> h.packet, seq |-> h.seq, to |-> d]
<1>1. Base /\ TypeOK /\ m_txTimer /\ queue \in [Destinations -> Seq(Mpdus)]
  BY DEF OnceInv, ReceivedNormalAck, Base, TypeOK
<1>2. /\ d \in Stations /\ d \in Destinations /\ h \in Mpdus
      /\ queue[d] \in Seq(Mpdus) /\ queue[d] # <<>> /\ Head(queue[d]) = h /\ queue[d][1] = h
      /\ 1 \in DOMAIN queue[d]
  BY <1>1, Awaited, TailShape DEF Destinations
<1>3. /\ UNCHANGED <<rx, forwarded, destination, lost>> /\ air' = "idle"
      /\ Broken(d) \/ Answered(rx[d], forwarded[d], h)
  BY <1>2 DEF ReceivedNormalAck, stationVars, Trains, AckIsDue
<1>4. h.more => /\ next \in Mpdus /\ next.frag = h.frag + 1 /\ next.seq = h.seq
                /\ next.packet = h.packet /\ h.frag \in Nat
  <2>1. next.seq = h.seq /\ h.frag \in Nat
    BY <1>2 DEF NextFragment, Mpdus
  <2> QED
    BY <1>1, <1>2, <2>1, NextFragmentType
<1>5. \/ h.more /\ queue' = [queue EXCEPT ![d] = <<next>> \o Tail(queue[d])] /\ acked' = acked
      \/ /\ ~h.more /\ queue' = [queue EXCEPT ![d] = Tail(queue[d])]
         /\ acked' = acked \cup {a}
  BY DEF ReceivedNormalAck
<1>6. a.packet = h.packet /\ a.seq = h.seq /\ a.to = d
  OBVIOUS
<1> HIDE DEF d, h, next, a
<1>7. \A e \in Destinations : \A i \in DOMAIN queue'[e] : \E k \in DOMAIN queue[e] :
        queue'[e][i].packet = queue[e][k].packet
  <2>1. ASSUME NEW e \in Destinations, e # d PROVE queue'[e] = queue[e]
    BY <1>1, <1>5, <2>1
  <2>2. CASE h.more
    <3>1. queue'[d] = <<next>> \o Tail(queue[d])
      BY <1>1, <1>2, <1>5, <2>2
    <3>2. LET q == <<next>> \o Tail(queue[d]) IN
          /\ DOMAIN q = DOMAIN queue[d]
          /\ \A i \in DOMAIN queue[d] : q[i] = IF i = 1 THEN next ELSE queue[d][i]
      BY <1>2, <1>4, <2>2, NewHeadShape
    <3>3. /\ DOMAIN queue'[d] = DOMAIN queue[d]
          /\ \A i \in DOMAIN queue[d] : queue'[d][i] = IF i = 1 THEN next ELSE queue[d][i]
      BY <3>1, <3>2
    <3> QED
      BY <1>2, <1>4, <2>1, <2>2, <3>3
  <2>3. CASE ~h.more
    <3>1. queue'[d] = Tail(queue[d])
      BY <1>1, <1>2, <1>5, <2>3
    <3>2. \A i \in DOMAIN queue'[d] : i + 1 \in DOMAIN queue[d] /\ queue'[d][i] = queue[d][i + 1]
      BY <1>2, <3>1, TailShape
    <3> QED
      BY <2>1, <3>2
  <2> QED
    BY <2>2, <2>3
<1>8. \A s : LostTo(s)' = LostTo(s)
  BY <1>3 DEF LostTo
<1>9. \A s \in Stations : Broken(s) => Broken(s)'
  BY <1>7, <1>8 DEF Broken, Destinations
<1>10. ASSUME NEW s \in Stations, s # d, InTrain(s) PROVE InTrain(s)'
  <2>1. queue'[s] = queue[s]
    BY <1>1, <1>5, <1>10 DEF Destinations
  <2> QED
    BY <1>3, <1>10, <2>1, TrainKept
<1>11. ASSUME NEW s \in Stations, s = d, Answered(rx[s], forwarded[s], h) PROVE InTrain(s)'
  <2>1. CASE h.more
    <3>1. queue'[d] = <<next>> \o Tail(queue[d])
      BY <1>1, <1>2, <1>5, <2>1
    <3>2. queue'[d] # <<>> /\ queue'[d][1] = next
      BY <1>2, <1>4, <2>1, <3>1
    <3>3. IsFragment(next)
      BY <1>4, <2>1 DEF IsFragment
    <3>4. InStep(rx[s], next)
      <4>1. CASE Collected(rx[s], h)
        <5>1. next.frag - 1 = h.frag
          BY <1>4, <2>1
        <5> QED
          BY <1>4, <2>1, <4>1, <5>1 DEF Collected, Control, InStep
      <4>2. CASE Discarded(rx[s], h)
        <5>1. next.frag = 1 /\ Control(h) = <<next.seq, 0>>
          BY <1>4, <2>1, <4>2 DEF Discarded, Control
        <5> QED
          BY <4>2, <5>1 DEF Discarded, InStep
      <4> QED
        BY <1>11, <2>1, <4>1, <4>2 DEF Answered
    <3> QED
      BY <1>3, <1>11, <3>2, <3>3, <3>4 DEF InTrain, StartsWhole
  <2>2. CASE ~h.more
    <3>1. queue'[d] = Tail(queue[d])
      BY <1>1, <1>2, <1>5, <2>2
    <3>2. StartsWhole(queue'[d])
      BY <1>2, <3>1, TailIsWhole
    <3> QED
      BY <1>3, <1>11, <2>2, <3>2 DEF Answered, InTrain
  <2> QED
    BY <2>1, <2>2
<1>12. TrainsInStep'
  BY <1>3, <1>9, <1>10, <1>11 DEF Trains, TrainsInStep
<1>13. LastKnown'
  BY <1>3 DEF Trains, LastKnown
<1>14. AckIsDue'
  BY <1>3 DEF AckIsDue
<1>15. AcksWereDue'
  <2>1. ~h.more => \/ Settled(forwarded[d], h.packet, h.seq)
                   \/ \E r \in LostTo(d) : r < h.packet
    <3>1. Broken(d) => \E r \in LostTo(d) : r < h.packet
      BY <1>2 DEF Broken
    <3> QED
      BY <1>3, <3>1 DEF Answered
  <2> QED
    BY <1>3, <1>5, <1>6, <1>8, <2>1 DEF Trains, AcksWereDue
<1> QED
  BY <1>12, <1>13, <1>14, <1>15 DEF Trains

\* What a station makes of a frame for itself.
LEMMA Handled ==
  ASSUME TypeOK, NEW s \in Stations, NEW m \in Mpdus, MacRxMiddleReceive(s, m, s)
  PROVE  \/ UNCHANGED stationVars /\ IsDuplicate(s, m)
         \/ UNCHANGED stationVars /\ rx[s].defragmenting /\ ~IsNextFragment(s, m)
         \/ /\ m.more /\ ~IsDuplicate(s, m) /\ forwarded' = forwarded
            /\ rx[s].defragmenting => IsNextFragment(s, m)
            /\ \E r \in RxStatus : /\ r.defragmenting /\ r.last = Control(m)
                                   /\ rx' = [rx EXCEPT ![s] = r]
         \/ /\ ~m.more /\ ~IsDuplicate(s, m)
            /\ \E bodies \in Seq(Packets \cup {0}) : Forward(s, m, bodies)
            /\ \E r \in RxStatus : /\ ~r.defragmenting /\ r.last = Control(m)
                                   /\ rx' = [rx EXCEPT ![s] = r]
<1>1. rx \in [Stations -> RxStatus] /\ rx[s] \in RxStatus /\ s # Broadcast
  BY WifiAssumption DEF TypeOK
<1>2. Control(m) \in Controls /\ m.body \in Packets \cup {0}
  BY ControlType, MpduParts
<1> DEFINE kept == Append(rx[s].fragments, m.body)
<1>3. kept \in Seq(Packets \cup {0}) /\ <<m.body>> \in Seq(Packets \cup {0})
  BY <1>1, <1>2 DEF RxStatus
<1>4. /\ [defragmenting |-> TRUE, last |-> Control(m), fragments |-> kept] \in RxStatus
      /\ [defragmenting |-> FALSE, last |-> Control(m), fragments |-> <<>>] \in RxStatus
  BY <1>2, <1>3 DEF RxStatus
<1> DEFINE part == [defragmenting |-> TRUE, last |-> Control(m), fragments |-> kept]
           joined == [defragmenting |-> FALSE, last |-> Control(m), fragments |-> <<>>]
           whole == [rx[s] EXCEPT !.last = Control(m)]
<1>5. /\ part.defragmenting /\ part.last = Control(m)
      /\ ~joined.defragmenting /\ joined.last = Control(m)
  OBVIOUS
<1>6. whole \in RxStatus /\ whole.last = Control(m) /\ whole.defragmenting = rx[s].defragmenting
  BY <1>1, <1>2 DEF RxStatus
<1>7. CASE IsDuplicate(s, m) /\ UNCHANGED stationVars
  BY <1>7
<1>8. CASE ~IsDuplicate(s, m) /\ HandleFragments(s, m)
  <2>1. \/ /\ m.more /\ (rx[s].defragmenting => IsNextFragment(s, m))
           /\ rx' = [rx EXCEPT ![s] = part] /\ forwarded' = forwarded
        \/ /\ ~m.more /\ rx' = [rx EXCEPT ![s] = joined] /\ Forward(s, m, kept)
        \/ rx[s].defragmenting /\ ~IsNextFragment(s, m) /\ UNCHANGED stationVars
    BY <1>8 DEF HandleFragments
  <2> HIDE DEF part, joined, kept
  <2> QED
    BY <1>3, <1>4, <1>5, <1>8, <2>1 DEF part, joined
<1>9. CASE /\ ~IsDuplicate(s, m) /\ ~rx[s].defragmenting /\ ~m.more
           /\ rx' = [rx EXCEPT ![s].last = Control(m)] /\ Forward(s, m, <<m.body>>)
  <2>1. rx' = [rx EXCEPT ![s] = whole]
    BY <1>1, <1>9
  <2> HIDE DEF whole
  <2> QED
    BY <1>3, <1>6, <1>9, <2>1
<1> QED
  BY <1>1, <1>7, <1>8, <1>9 DEF MacRxMiddleReceive

LEMMA ForwardedRange ==
  ASSUME TypeOK, NEW s \in Stations, NEW m \in Mpdus, NEW bodies \in Seq(Packets \cup {0}),
         Forward(s, m, bodies)
  PROVE  /\ \A t \in Stations : Range(forwarded[t]) \subseteq Range(forwarded'[t])
         /\ \E f \in Range(forwarded'[s]) : f.packet = m.packet /\ f.seq = m.seq
         /\ \A t \in Stations : t # s => forwarded'[t] = forwarded[t]
<1> DEFINE f == [packet |-> m.packet, seq |-> m.seq, bodies |-> bodies]
<1>1. forwarded' = [forwarded EXCEPT ![s] = Append(forwarded[s], f)]
  BY DEF Forward
<1>2. f.packet = m.packet /\ f.seq = m.seq
  OBVIOUS
<1> HIDE DEF f
<1>3. forwarded \in [Stations -> Seq(Frames)] /\ forwarded[s] \in Seq(Frames)
  BY DEF TypeOK
<1>4. Range(Append(forwarded[s], f)) = Range(forwarded[s]) \cup {f}
  <2>1. /\ DOMAIN Append(forwarded[s], f) = DOMAIN forwarded[s] \cup {Len(forwarded[s]) + 1}
        /\ \A i \in DOMAIN forwarded[s] : Append(forwarded[s], f)[i] = forwarded[s][i]
        /\ Append(forwarded[s], f)[Len(forwarded[s]) + 1] = f
    BY <1>3
  <2> QED
    BY <2>1 DEF Range
<1>5. /\ forwarded'[s] = Append(forwarded[s], f)
      /\ \A t \in Stations : t # s => forwarded'[t] = forwarded[t]
  BY <1>1, <1>3
<1> QED
  BY <1>2, <1>4, <1>5

LEMMA SettledGrows ==
  ASSUME NEW q, NEW r, Range(q) \subseteq Range(r)
  PROVE  \A p, n : Settled(q, p, n) => Settled(r, p, n)
BY DEF Settled

\* A broadcast frame leaves what a station remembers of fragments as it is.
LEMMA BroadcastHandled ==
  ASSUME TypeOK, NEW s \in Stations, NEW m \in Mpdus, ~IsFragment(m),
         MacRxMiddleReceive(s, m, Broadcast)
  PROVE  /\ rx' = rx
         /\ \/ forwarded' = forwarded
            \/ \E bodies \in Seq(Packets \cup {0}) : Forward(s, m, bodies)
<1>1. rx[s] \in RxStatus /\ ~m.more /\ m.frag = 0 /\ m.seq \in Numbers
      /\ m.body \in Packets \cup {0}
  BY MpduParts DEF TypeOK, IsFragment
<1>2. ~IsNextFragment(s, m)
  <2>1. rx[s].last \in Controls
    BY <1>1 DEF RxStatus
  <2>2. CASE rx[s].last \in Numbers \X (0 .. Pieces - 1)
    <3>1. rx[s].last[2] \in 0 .. Pieces - 1
      BY <2>2
    <3>2. 0 # rx[s].last[2] + 1
      BY <3>1, WifiAssumption
    <3> QED
      BY <1>1, <3>2 DEF IsNextFragment
  <2>3. CASE rx[s].last = NoControl
    BY <1>1, <2>3 DEF IsNextFragment, NoControl, Numbers
  <2> QED
    BY <2>1, <2>2, <2>3 DEF Controls
<1>3. <<m.body>> \in Seq(Packets \cup {0})
  BY <1>1
<1> QED
  BY <1>1, <1>2, <1>3 DEF MacRxMiddleReceive, HandleFragments, stationVars

\* A frame for one station is the first MPDU queued for it.
LEMMA Heard ==
  ASSUME OnceInv, NEW s \in Stations, Receive(s), m_mpdu.to # Broadcast
  PROVE  /\ m_mpdu.to = s /\ m_mpdu # NoMpdu /\ m_mpdu.mpdu \in Mpdus
         /\ queue[s] # <<>> /\ queue[s][1] = m_mpdu.mpdu /\ 1 \in DOMAIN queue[s]
         /\ MacRxMiddleReceive(s, m_mpdu.mpdu, s)
         /\ destination[m_mpdu.mpdu.packet] = s
<1>1. Base /\ ExchangeOK /\ m_txTimer /\ QueuesInOrder /\ s \in left
  BY DEF OnceInv, Base, Fresh, Receive, ExchangeOK
<1>2. /\ m_mpdu.mpdu \in Mpdus /\ m_mpdu # NoMpdu
      /\ queue[m_mpdu.to] \in Seq(Mpdus) /\ queue[m_mpdu.to] # <<>>
      /\ Head(queue[m_mpdu.to]) = m_mpdu.mpdu
  BY <1>1, Awaited
<1>3. m_mpdu.to = s
  BY <1>1 DEF ExchangeOK
<1>4. Head(queue[s]) = queue[s][1] /\ 1 \in DOMAIN queue[s]
  BY <1>2, <1>3, TailShape
<1>5. destination[m_mpdu.mpdu.packet] = s
  BY <1>1, <1>2, <1>3 DEF QueuesInOrder, Known
<1> QED
  BY <1>2, <1>3, <1>4, <1>5 DEF Receive

\* A whole packet whose number is remembered was passed up, or an older one was.
LEMMA RepeatSettled ==
  ASSUME OnceInv, Ordered, Trains, NEW s \in Stations, Receive(s), m_mpdu.to # Broadcast,
         ~rx[s].defragmenting, rx[s].last = Control(m_mpdu.mpdu)
  PROVE  Settled(forwarded[s], m_mpdu.mpdu.packet, m_mpdu.mpdu.seq)
<1> DEFINE m == m_mpdu.mpdu
<1>1. /\ m_mpdu # NoMpdu /\ m \in Mpdus /\ destination[m.packet] = s
      /\ TypeOK /\ Ahead
  BY Heard DEF OnceInv, Base, Ordered
<1>2. Control(m) # NoControl /\ Control(m)[1] = m.seq
  BY <1>1, ControlType DEF Control
<1>3. PICK f \in Range(forwarded[s]) : f.seq = m.seq /\ destination[f.packet] = s
  BY <1>2 DEF Trains, LastKnown
<1>4. f.packet \in Packets /\ PassedUp(s, f.packet)
  <2>1. PICK i \in DOMAIN forwarded[s] : f = forwarded[s][i]
    BY DEF Range
  <2>2. f \in Frames
    BY <1>1, <2>1 DEF TypeOK
  <2> QED
    BY <2>1, <2>2 DEF PassedUp, Frames
<1>5. f.packet <= m.packet
  BY <1>1, <1>3, <1>4 DEF Ahead, Follows
<1>6. f.packet \in Int /\ m.packet \in Int
  BY <1>1, <1>4, MpduParts DEF Packets
<1> HIDE DEF m
<1>7. f.packet = m.packet \/ f.packet < m.packet
  BY <1>5, <1>6
<1>8. Settled(forwarded[s], m.packet, m.seq)
  BY <1>3, <1>7 DEF Settled
<1> QED
  BY <1>8 DEF m

LEMMA TrainHandled ==
  ASSUME OnceInv, Ordered, Trains, NEW s \in Stations, Receive(s), m_mpdu.to # Broadcast,
         InTrain(s)
  PROVE  InTrain(s)' /\ Answered(rx'[s], forwarded'[s], m_mpdu.mpdu)
<1> DEFINE m == m_mpdu.mpdu
           r == rx[s]
           h == queue[s][1]
<1>1. /\ TypeOK /\ m \in Mpdus /\ queue[s] # <<>> /\ h = m
      /\ MacRxMiddleReceive(s, m, s) /\ queue' = queue
      /\ rx \in [Stations -> RxStatus] /\ r \in RxStatus
  BY Heard DEF OnceInv, Base, TypeOK, Receive, queueVars
<1>2. m.frag \in Int /\ m.seq \in Int /\ Control(m) = <<m.seq, m.frag>> /\ m.packet \in Int
  BY <1>1, MpduParts DEF Numbers, Control, Packets
<1>3. r.defragmenting \/ r.last # Control(m) \/ Settled(forwarded[s], m.packet, m.seq)
  BY RepeatSettled
<1>4. PassedUp(s, m.packet) => IsDuplicate(s, m) /\ ~m.more /\ ~r.defragmenting
  <2>1. PassedUp(s, m.packet) => IsDuplicate(s, m)
    BY NotPassedBefore DEF OnceInv
  <2>2. PassedUp(s, h.packet) => Repeated(s)
    BY Heard DEF OnceInv, Fresh, QueuedAreNew, Destinations
  <2> QED
    BY <1>1, <2>1, <2>2 DEF Repeated
<1>5. IsDuplicate(s, m) => r.last = Control(m)
  BY DEF IsDuplicate
<1>6. IsNextFragment(s, m) <=> r.last[1] = m.seq /\ m.frag = r.last[2] + 1
  BY DEF IsNextFragment
<1>7. IF ~IsFragment(m) THEN ~r.defragmenting ELSE InStep(r, m) \/ PassedUp(s, m.packet)
  BY <1>1 DEF InTrain, StartsWhole
<1>8. ~IsFragment(m) => ~m.more
  BY DEF IsFragment
<1>9. InTrain(s)' <=> IF ~IsFragment(m) THEN ~rx'[s].defragmenting
                      ELSE InStep(rx'[s], m) \/ PassedUp(s, m.packet)'
  BY <1>1, Heard DEF InTrain, StartsWhole, Receive, exchangeVars
<1> HIDE DEF m, r, h
<1>10. CASE UNCHANGED stationVars /\ IsDuplicate(s, m)
  <2>1. UNCHANGED <<rx, forwarded>> /\ r.last = Control(m) /\ rx'[s] = r
    BY <1>5, <1>10 DEF stationVars, r
  <2>2. InTrain(s)'
    BY <1>1, <2>1, TrainKept
  <2>3. ~m.more => ~r.defragmenting
    <3>1. m.more \/ ~r.defragmenting \/ InStep(r, m)
      BY <1>4, <1>7
    <3>2. InStep(r, m) /\ r.defragmenting => m.more
      <4>1. r.last # <<m.seq, m.frag - 1>>
        BY <1>2, <2>1
      <4> QED
        BY <4>1 DEF InStep, Collected
    <3> QED
      BY <3>1, <3>2
  <2>4. m.more => Collected(r, m) \/ Discarded(r, m)
    <3>1. m.more => InStep(r, m)
      BY <1>4, <1>7, <1>8
    <3>2. r.last # <<m.seq, m.frag - 1>> /\ (m.frag = 1 => r.last # <<m.seq, 0>>)
      BY <1>2, <2>1
    <3> QED
      BY <2>1, <3>1, <3>2 DEF InStep, Collected, Discarded
  <2>5. Answered(r, forwarded[s], m)
    BY <1>3, <2>1, <2>3, <2>4 DEF Answered
  <2> QED
    BY <2>1, <2>2, <2>5 DEF m
<1>11. CASE UNCHANGED stationVars /\ r.defragmenting /\ ~IsNextFragment(s, m)
  <2>1. UNCHANGED <<rx, forwarded>> /\ rx'[s] = r
    BY <1>11 DEF stationVars, r
  <2>2. InTrain(s)'
    BY <1>1, <2>1, TrainKept
  <2>3. InStep(r, m)
    BY <1>4, <1>7, <1>11
  <2>4. r.last # <<m.seq, m.frag - 1>>
    <3>1. r.last = <<m.seq, m.frag - 1>> => r.last[1] = m.seq /\ m.frag = r.last[2] + 1
      BY <1>2
    <3> QED
      BY <1>6, <1>11, <3>1
  <2>5. Collected(r, m)
    BY <1>11, <2>3, <2>4 DEF InStep
  <2>6. Answered(r, forwarded[s], m)
    BY <2>5 DEF Answered, Collected
  <2> QED
    BY <2>1, <2>2, <2>6 DEF m
<1>12. ASSUME m.more, NEW v \in RxStatus, v.defragmenting, v.last = Control(m),
              rx' = [rx EXCEPT ![s] = v]
       PROVE  InTrain(s)' /\ Answered(rx'[s], forwarded'[s], m)
  <2>1. rx'[s] = v /\ Collected(v, m)
    BY <1>1, <1>12 DEF Collected
  <2>2. InStep(v, m) /\ IsFragment(m)
    BY <1>12, <2>1 DEF InStep, IsFragment
  <2> QED
    BY <1>9, <1>12, <2>1, <2>2 DEF Answered
<1>13. ASSUME ~m.more, NEW bodies \in Seq(Packets \cup {0}), Forward(s, m, bodies),
              NEW v \in RxStatus, ~v.defragmenting, v.last = Control(m),
              rx' = [rx EXCEPT ![s] = v]
       PROVE  InTrain(s)' /\ Answered(rx'[s], forwarded'[s], m)
  <2>1. rx'[s] = v
    BY <1>1, <1>13
  <2>2. \A p : PassedUp(s, p)' <=> PassedUp(s, p) \/ p = m.packet
    BY <1>1, <1>13, PassedUpNext
  <2>3. \E f \in Range(forwarded'[s]) : f.packet = m.packet /\ f.seq = m.seq
    BY <1>1, <1>13, ForwardedRange
  <2>4. Settled(forwarded'[s], m.packet, m.seq)
    BY <2>3 DEF Settled
  <2>5. m_mpdu' = m_mpdu
    BY DEF Receive
  <2>6. PassedUp(s, m.packet)'
    BY <2>2, <2>5 DEF m
  <2> QED
    BY <1>9, <1>13, <2>1, <2>4, <2>6 DEF Answered
<1>14. \/ UNCHANGED stationVars /\ IsDuplicate(s, m)
       \/ UNCHANGED stationVars /\ r.defragmenting /\ ~IsNextFragment(s, m)
       \/ /\ m.more
          /\ \E v \in RxStatus : /\ v.defragmenting /\ v.last = Control(m)
                                 /\ rx' = [rx EXCEPT ![s] = v]
       \/ /\ ~m.more
          /\ \E bodies \in Seq(Packets \cup {0}) : Forward(s, m, bodies)
          /\ \E v \in RxStatus : /\ ~v.defragmenting /\ v.last = Control(m)
                                 /\ rx' = [rx EXCEPT ![s] = v]
  BY <1>1, Handled DEF r
<1> QED
  BY <1>10, <1>11, <1>12, <1>13, <1>14 DEF m

LEMMA ReceiveTrains ==
  ASSUME OnceInv, OnceInv', Ordered, Trains, NEW s \in Stations, Receive(s)
  PROVE  Trains'
<1> DEFINE m == m_mpdu.mpdu
<1>1. /\ TypeOK /\ ExchangeOK /\ m_mpdu # NoMpdu /\ m \in Mpdus
      /\ rx \in [Stations -> RxStatus] /\ MacRxMiddleReceive(s, m, m_mpdu.to)
      /\ UNCHANGED <<queue, lost, destination, acked, m_mpdu>>
      /\ air' = "ack" => m_mpdu.to = s
  <2>1. air' = "ack" => m_mpdu.to # Broadcast
    BY DEF Receive, OnceInv, Base, ExchangeOK
  <2> QED
    BY <2>1, Heard DEF OnceInv, Base, ExchangeOK, TypeOK, Exchanges, Receive, queueVars, history
<1> HIDE DEF m
<1>2. \A t : LostTo(t)' = LostTo(t)
  BY <1>1 DEF LostTo
<1>3. \A t : Broken(t)' <=> Broken(t)
  BY <1>1, <1>2 DEF Broken
<1>4. /\ \A t \in Stations : Range(forwarded[t]) \subseteq Range(forwarded'[t])
      /\ \A t \in Stations : t # s => rx'[t] = rx[t] /\ forwarded'[t] = forwarded[t]
      /\ \A p : PassedUp(s, p) => PassedUp(s, p)'
  <2>1. forwarded' = forwarded \/ \E bodies \in Seq(Packets \cup {0}) : Forward(s, m, bodies)
    BY <1>1, Received DEF stationVars
  <2>2. rx' = rx \/ \E v \in RxStatus : rx' = [rx EXCEPT ![s] = v]
    BY <1>1, Received DEF stationVars
  <2>3. \A t \in Stations : t # s => rx'[t] = rx[t]
    BY <1>1, <2>2
  <2>4. CASE forwarded' = forwarded
    BY <2>3, <2>4 DEF PassedUp
  <2>5. CASE \E bodies \in Seq(Packets \cup {0}) : Forward(s, m, bodies)
    BY <1>1, <2>3, <2>5, ForwardedRange, PassedUpNext
  <2> QED
    BY <2>1, <2>4, <2>5
<1>5. \A t \in Stations : \A p, n : Settled(forwarded[t], p, n) => Settled(forwarded'[t], p, n)
  BY <1>4, SettledGrows
<1>6. AcksWereDue'
  <2>1. \A a \in acked : a.to \in Stations
    BY <1>1 DEF TypeOK
  <2> QED
    BY <1>1, <1>2, <1>5, <2>1 DEF Trains, AcksWereDue
<1>7. ASSUME NEW t \in Stations, t # s, InTrain(t) PROVE InTrain(t)'
  BY <1>1, <1>4, <1>7 DEF InTrain, PassedUp
<1>8. CASE m_mpdu.to = Broadcast
  <2>1. rx' = rx
    BY <1>1, <1>8, BroadcastHandled DEF Ordered, Pieced, m
  <2>2. ASSUME InTrain(s) PROVE InTrain(s)'
    <3>1. CASE StartsWhole(queue[s])
      BY <1>1, <2>1, <2>2, <3>1 DEF InTrain
    <3>2. CASE ~StartsWhole(queue[s])
      <4>1. InStep(rx[s], queue[s][1]) \/ PassedUp(s, queue[s][1].packet)
        BY <2>2, <3>2 DEF InTrain
      <4>2. PassedUp(s, queue[s][1].packet) => PassedUp(s, queue[s][1].packet)'
        <5>1. ASSUME NEW p, p = queue[s][1].packet, PassedUp(s, p)
              PROVE  PassedUp(s, p)'
          BY <1>4, <5>1
        <5> QED
          BY <1>1, <5>1 DEF PassedUp
      <4> QED
        BY <1>1, <2>1, <3>2, <4>1, <4>2 DEF InTrain
    <3> QED
      BY <3>1, <3>2
  <2>3. TrainsInStep'
    BY <1>3, <1>7, <2>2 DEF Trains, TrainsInStep
  <2>4. LastKnown'
    BY <1>1, <1>4, <2>1 DEF Trains, LastKnown
  <2>5. AckIsDue'
    BY <1>1, <1>8, WifiAssumption DEF AckIsDue
  <2> QED
    BY <1>6, <2>3, <2>4, <2>5 DEF Trains
<1>9. CASE m_mpdu.to # Broadcast
  <2>1. /\ m_mpdu.to = s /\ destination[m.packet] = s /\ MacRxMiddleReceive(s, m, s)
    BY <1>9, Heard DEF m
  <2>2. Broken(s) \/ (InTrain(s)' /\ Answered(rx'[s], forwarded'[s], m))
    BY <1>9, TrainHandled DEF Trains, TrainsInStep, m
  <2>3. TrainsInStep'
    BY <1>3, <1>7, <2>2 DEF Trains, TrainsInStep
  <2>4. AckIsDue'
    BY <1>1, <1>3, <2>1, <2>2 DEF AckIsDue, m
  <2>5. ASSUME rx'[s].last # NoControl, ~rx'[s].defragmenting
        PROVE  \E f \in Range(forwarded'[s]) : f.seq = rx'[s].last[1] /\ destination[f.packet] = s
    <3>1. CASE UNCHANGED stationVars
      BY <2>5, <3>1 DEF Trains, LastKnown, stationVars
    <3>2. ASSUME NEW bodies \in Seq(Packets \cup {0}), Forward(s, m, bodies),
                 NEW v \in RxStatus, v.last = Control(m), rx' = [rx EXCEPT ![s] = v]
          PROVE  \E f \in Range(forwarded'[s]) :
                   f.seq = rx'[s].last[1] /\ destination[f.packet] = s
      <4>1. rx'[s].last[1] = m.seq
        BY <1>1, <3>2 DEF Control
      <4>2. \E f \in Range(forwarded'[s]) : f.packet = m.packet /\ f.seq = m.seq
        BY <1>1, <3>2, ForwardedRange
      <4> QED
        BY <2>1, <4>1, <4>2
    <3>3. ASSUME NEW v \in RxStatus, v.defragmenting, rx' = [rx EXCEPT ![s] = v]
          PROVE  FALSE
      BY <1>1, <2>5, <3>3
    <3> QED
      BY <1>1, <2>1, <3>1, <3>2, <3>3, Handled
  <2>6. LastKnown'
    BY <1>1, <1>4, <2>5 DEF Trains, LastKnown
  <2> QED
    BY <1>6, <2>3, <2>4, <2>6 DEF Trains
<1> QED
  BY <1>8, <1>9

----------------------------------------------------------------------------
(* The theorems                                                            *)

LEMMA OrderStep == OrderInv /\ [Next]_wifiVars => OrderInv'
<1> SUFFICES ASSUME OrderInv, [Next]_wifiVars PROVE OrderInv'
  OBVIOUS
<1>1. OnceInv /\ OnceInv' /\ Ordered /\ Trains
  BY OnceStep DEF OrderInv
<1>2. ASSUME Ordered', Trains' PROVE OrderInv'
  BY <1>1, <1>2 DEF OrderInv
<1>3. ASSUME NEW d \in Destinations, Queue(d) PROVE OrderInv'
  BY <1>1, <1>2, <1>3, QueueOrder, QueueTrains
<1>4. ASSUME NEW d \in Destinations, Expire(d) PROVE OrderInv'
  <2>1. Drawn /\ UNCHANGED <<now, destination, forwarded, m_mpdu>>
    BY <1>1, <1>4, ExpireDrawn
  <2> QED
    BY <1>1, <1>2, <1>4, <2>1, OrderedKept, ExpireTrains
<1>5. ASSUME \/ StartAccessAfterEvent \/ RequestAccess \/ LoseAck \/ TransmissionEnds
             \/ \E s \in Stations : Miss(s)
             \/ UNCHANGED wifiVars
      PROVE  OrderInv'
  <2>1. /\ UNCHANGED <<queue, now, destination, rx, forwarded, acked, lost>>
        /\ m_mpdu' \in {m_mpdu, NoMpdu}
        /\ air' = "ack" => air = "ack" /\ UNCHANGED m_mpdu
    BY <1>5 DEF StartAccessAfterEvent, RequestAccess, LoseAck, TransmissionEnds, Miss, wifiVars,
       queueVars, exchangeVars, stationVars, history
  <2>2. Ordered'
    BY <1>1, <2>1, QuietOrder
  <2>3. \A s : LostTo(s)' = LostTo(s)
    BY <2>1 DEF LostTo
  <2>4. \A s \in Stations : Broken(s) => Broken(s)'
    BY <2>1, <2>3 DEF Broken
  <2>5. \A s \in Stations : InTrain(s) => InTrain(s)'
    BY <2>1, TrainKept
  <2>6. Trains'
    BY <1>1, <2>1, <2>3, <2>4, <2>5, QuietTrains
  <2> QED
    BY <1>2, <2>2, <2>6
<1>6. ASSUME GrantAccess \/ SendNextFragment PROVE OrderInv'
  BY <1>1, <1>2, <1>6, SendingOrder, SendingTrains
<1>7. ASSUME ReceivedNormalAck PROVE OrderInv'
  BY <1>1, <1>2, <1>7, AnswerOrder, ReceivedNormalAckTrains
<1>8. ASSUME NormalAckTimeout PROVE OrderInv'
  BY <1>1, <1>2, <1>8, AnswerOrder, TimeoutTrains
<1>9. ASSUME NEW s \in Stations, Receive(s) PROVE OrderInv'
  BY <1>1, <1>2, <1>9, ReceiveOrder, ReceiveTrains
<1> QED
  BY <1>3, <1>4, <1>5, <1>6, <1>7, <1>8, <1>9 DEF Next

LEMMA OrderInvHolds == Spec => []OrderInv
<1>1. Init => OrderInv
  BY InitBase, InitFresh, InitOrder, InitTrains DEF OrderInv, OnceInv
<1> QED
  BY <1>1, OrderStep, PTL DEF Spec

\* What the sender takes for delivered was passed up by the station, unless the
\* packet has the number of an older one, 4096 frames ago, and was taken for it,
\* or the station awaits the rest of a long packet that was given up.
THEOREM AcksHold == Spec => []AckedIsForwarded
<1>1. OrderInv => AckedIsForwarded
  BY DEF OrderInv, Trains, AcksWereDue, LostTo, Settled, AckedIsForwarded, BrokenOff
<1> QED
  BY <1>1, OrderInvHolds, PTL

----------------------------------------------------------------------------
(* The abstract link                                                       *)

Arrived(s) == [i \in DOMAIN forwarded[s] |-> forwarded[s][i].packet]

LEMMA ArrivedNext ==
  ASSUME TypeOK, NEW s \in Stations, NEW m \in Mpdus, NEW bodies \in Seq(Packets \cup {0}),
         Forward(s, m, bodies)
  PROVE  /\ Arrived(s)' = Append(Arrived(s), m.packet)
         /\ \A t \in Stations : t # s => Arrived(t)' = Arrived(t)
<1> DEFINE f == [packet |-> m.packet, seq |-> m.seq, bodies |-> bodies]
           q == forwarded[s]
<1>1. forwarded \in [Stations -> Seq(Frames)] /\ q \in Seq(Frames)
  BY DEF TypeOK
<1>2. f.packet = m.packet /\ forwarded' = [forwarded EXCEPT ![s] = Append(q, f)]
  BY DEF Forward
<1>3. forwarded'[s] = Append(q, f) /\ \A t \in Stations : t # s => forwarded'[t] = forwarded[t]
  BY <1>1, <1>2
<1>4. Arrived(s)' = [i \in DOMAIN Append(q, f) |-> Append(q, f)[i].packet]
  BY <1>3 DEF Arrived
<1>5. Arrived(s) = [i \in DOMAIN q |-> q[i].packet]
  BY DEF Arrived
<1> HIDE DEF f, q
<1>6. /\ Len(q) \in Nat /\ DOMAIN q = 1 .. Len(q) /\ DOMAIN Append(q, f) = 1 .. Len(q) + 1
      /\ \A i \in 1 .. Len(q) : Append(q, f)[i] = q[i]
      /\ Append(q, f)[Len(q) + 1] = f
  BY <1>1
<1> DEFINE a == [i \in 1 .. Len(q) |-> q[i].packet]
<1>7. \A i \in 1 .. Len(q) : q[i].packet \in Packets
  <2>1. \A i \in 1 .. Len(q) : q[i] \in Frames
    BY <1>1, <1>6
  <2> QED
    BY <2>1 DEF Frames
<1>8. a \in Seq(Packets) /\ Len(a) = Len(q) /\ \A i \in 1 .. Len(q) : a[i] = q[i].packet
  BY <1>6, <1>7
<1> HIDE DEF a
<1>9. m.packet \in Packets
  BY MpduParts
<1>10. /\ DOMAIN Append(a, m.packet) = 1 .. Len(q) + 1
       /\ Append(a, m.packet)[Len(q) + 1] = m.packet
       /\ \A i \in 1 .. Len(q) : Append(a, m.packet)[i] = q[i].packet
  BY <1>8, <1>9
<1>11. Append(a, m.packet) = [i \in 1 .. Len(q) + 1 |-> Append(a, m.packet)[i]]
  BY <1>8, <1>9, <1>10
<1>12. \A i \in 1 .. Len(q) + 1 : Append(a, m.packet)[i] = Append(q, f)[i].packet
  BY <1>2, <1>6, <1>10
<1>13. [i \in DOMAIN Append(q, f) |-> Append(q, f)[i].packet] = Append(a, m.packet)
  BY <1>6, <1>11, <1>12
<1>14. Arrived(s) = a
  BY <1>5, <1>6 DEF a
<1> QED
  BY <1>3, <1>4, <1>13, <1>14 DEF Arrived

LEMMA LinkStep == OrderInv /\ [Next]_wifiVars => [Link!Next]_(Link!linkVars)
<1> SUFFICES ASSUME OrderInv, [Next]_wifiVars PROVE [Link!Next]_(Link!linkVars)
  OBVIOUS
<1>1. OnceInv /\ Ahead /\ TypeOK /\ ExchangeOK /\ QueuesInOrder /\ Base /\ Fresh
  BY DEF OrderInv, OnceInv, Base, Fresh, Ordered
<1>2. ASSUME UNCHANGED <<forwarded, destination>> PROVE UNCHANGED Link!linkVars
  BY <1>2 DEF Link!linkVars
<1>3. ASSUME NEW d \in Destinations, Queue(d) PROVE Link!Next
  <2>1. destination' = Append(destination, d) /\ forwarded' = forwarded
    BY <1>3 DEF Queue, stationVars
  <2> QED
    BY <2>1 DEF Link!Next, Link!Offer, Destinations
<1>4. ASSUME NEW s \in Stations, Receive(s) PROVE [Link!Next]_(Link!linkVars)
  <2> DEFINE m == m_mpdu.mpdu
  <2>1. /\ m \in Mpdus /\ m_mpdu # NoMpdu /\ m_mpdu.to \in {s, Broadcast}
        /\ MacRxMiddleReceive(s, m, m_mpdu.to) /\ destination' = destination
    BY <1>1, <1>4 DEF Receive, ExchangeOK, TypeOK, Exchanges, history
  <2>2. m.packet \in DOMAIN destination /\ destination[m.packet] \in {s, Broadcast}
    BY <1>1, <2>1 DEF QueuesInOrder, Known
  <2>3. ~IsDuplicate(s, m) => ~PassedUp(s, m.packet)
    BY <1>1, <1>4, NotPassedBefore
  <2>4. m.packet \in Int /\ \A p \in Packets : p \in Int
    BY <2>1, MpduParts DEF Packets
  <2>5. \A i \in DOMAIN forwarded[s] :
          /\ forwarded[s][i].packet \in Packets
          /\ Follows(destination, forwarded[s][i].packet, m.packet)
          /\ PassedUp(s, forwarded[s][i].packet)
    <3>1. forwarded[s] \in Seq(Frames)
      BY <1>1 DEF TypeOK
    <3> SUFFICES ASSUME NEW i \in DOMAIN forwarded[s]
                 PROVE  /\ forwarded[s][i].packet \in Packets
                        /\ Follows(destination, forwarded[s][i].packet, m.packet)
                        /\ PassedUp(s, forwarded[s][i].packet)
      OBVIOUS
    <3>2. forwarded[s][i] \in Frames
      BY <3>1
    <3>3. forwarded[s][i].packet \in Packets /\ PassedUp(s, forwarded[s][i].packet)
      BY <3>2 DEF Frames, PassedUp
    <3> QED
      BY <1>1, <2>1, <3>3 DEF Ahead
  <2> HIDE DEF m
  <2>6. CASE UNCHANGED stationVars
    BY <1>2, <2>1, <2>6 DEF stationVars
  <2>7. ASSUME ~IsDuplicate(s, m), NEW bodies \in Seq(Packets \cup {0}), Forward(s, m, bodies)
        PROVE  Link!Next
    <3>1. \A q \in Range(Arrived(s)) :
            q < m.packet \/ (q # m.packet /\ Link!MayPass(q, m.packet))
      <4>1. ASSUME NEW i \in DOMAIN forwarded[s], NEW q, q = forwarded[s][i].packet
            PROVE  q < m.packet \/ (q # m.packet /\ Link!MayPass(q, m.packet))
        <5>1. q # m.packet /\ q \in Int /\ Follows(destination, q, m.packet)
          BY <2>3, <2>4, <2>5, <2>7, <4>1
        <5>2. q <= m.packet \/ Link!MayPass(q, m.packet)
          BY <5>1 DEF Follows, Link!MayPass, Link!BehindLong
        <5> QED
          BY <2>4, <5>1, <5>2
      <4>2. ASSUME NEW q \in Range(Arrived(s))
            PROVE  \E i \in DOMAIN forwarded[s] : q = forwarded[s][i].packet
        BY <4>2 DEF Range, Arrived
      <4> QED
        BY <4>1, <4>2
    <3>2. /\ Arrived(s)' = Append(Arrived(s), m.packet)
          /\ \A t \in Stations : t # s => Arrived(t)' = Arrived(t)
      BY <1>1, <2>1, <2>7, ArrivedNext
    <3> DEFINE arrived == [t \in Stations |-> Arrived(t)]
    <3>3. arrived' = [arrived EXCEPT ![s] = Append(arrived[s], m.packet)]
      BY <3>2
    <3>4. \A q \in Range(arrived[s]) :
            q < m.packet \/ (q # m.packet /\ Link!MayPass(q, m.packet))
      BY <3>1
    <3> HIDE DEF arrived
    <3>5. destination[m.packet] \in {s, Broadcast} /\ UNCHANGED destination
      BY <2>1, <2>2
    <3>6. PICK p \in DOMAIN destination : p = m.packet
      BY <2>2
    <3>7. \A q \in Link!Range(arrived[s]) : q < p \/ (q # p /\ Link!MayPass(q, p))
      BY <3>4, <3>6 DEF Range, Link!Range
    <3>8. arrived' = [arrived EXCEPT ![s] = Append(arrived[s], p)]
      BY <3>3, <3>6
    <3>9. destination[p] \in {s, Broadcast} /\ UNCHANGED destination
      BY <3>5, <3>6
    <3>10. Link!Arrive(s, p)
      <4> DEFINE b == [t \in Stations |-> [i \in DOMAIN forwarded[t] |-> forwarded[t][i].packet]]
      <4>1. arrived = b /\ arrived' = b'
        BY DEF arrived, Arrived
      <4>2. \A q \in Link!Range(b[s]) : q < p \/ (q # p /\ Link!MayPass(q, p))
        BY <3>7, <4>1
      <4>3. b' = [b EXCEPT ![s] = Append(b[s], p)]
        BY <3>8, <4>1
      <4> QED
        BY <3>9, <4>2, <4>3, Zenon DEF Link!Arrive
    <3> QED
      BY <3>10 DEF Link!Next
  <2>8. CASE forwarded' = forwarded
    BY <1>2, <2>1, <2>8
  <2> QED
    BY <1>1, <2>1, <2>6, <2>7, <2>8, Received
<1>5. ASSUME \/ \E d \in Destinations : Expire(d)
             \/ StartAccessAfterEvent \/ RequestAccess \/ GrantAccess \/ SendNextFragment
             \/ TransmissionEnds \/ ReceivedNormalAck \/ NormalAckTimeout \/ LoseAck
             \/ \E s \in Stations : Miss(s)
             \/ UNCHANGED wifiVars
      PROVE  UNCHANGED Link!linkVars
  <2>1. UNCHANGED <<forwarded, destination>>
    BY <1>5 DEF Expire, StartAccessAfterEvent, RequestAccess, GrantAccess, SendNextFragment,
       TransmissionEnds, ReceivedNormalAck, NormalAckTimeout, LoseAck, Miss, wifiVars,
       stationVars, history
  <2> QED
    BY <1>2, <2>1
<1> QED
  BY <1>3, <1>4, <1>5 DEF Next

\* The link is one that may lose packets and neither repeats nor reorders them,
\* but for what passes a long packet for another station, whatever frames and
\* Acks are missed.
THEOREM ImplementsLossyLink == Spec => LinkSpec
<1>1. Init => Link!Init
  BY DEF Init, Link!Init
<1> QED
  BY <1>1, LinkStep, OrderInvHolds, PTL DEF Spec, LinkSpec, Link!Spec
=============================================================================
