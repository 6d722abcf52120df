------------------------------ MODULE WifiLink ------------------------------
(***************************************************************************)
(* The 802.11b MAC of one sending station and of those that listen to it:  *)
(* the queue (wifi-mac-queue.cc), channel access (txop.cc), the exchange   *)
(* of a frame and its Ack (frame-exchange-manager.cc), sequence numbers    *)
(* (mac-tx-middle.cc), and the detection of duplicates and the joining of  *)
(* fragments (mac-rx-middle.cc).  Whatever else is on the air shows as     *)
(* frames and Acks that are not heard.                                     *)
(***************************************************************************)
EXTENDS Integers, Sequences, Functions, FiniteSetsExt

CONSTANTS
  Stations,        \* those in range of the sender
  Broadcast,       \* destination of frames for all of them
  NoMpdu,
  m_maxSize,       \* packets the queue has room for
  m_maxSsrc,       \* times a frame is sent before it is discarded
  SequenceModulo,  \* 4096 in the code
  Pieces,          \* fragments of a packet above the fragmentation threshold
  LongPackets,     \* packets above the threshold
  MaxPackets       \* bound: packets handed over

ASSUME WifiAssumption ==
  /\ Broadcast \notin Stations
  /\ m_maxSize \in Nat /\ m_maxSsrc \in Nat /\ MaxPackets \in Nat
  /\ SequenceModulo \in Nat \ {0}
  /\ Pieces \in 2 .. 15
  /\ LongPackets \subseteq 1 .. MaxPackets

VARIABLES
  queue,              \* MPDUs by destination: the container queues
  now,                \* counts what makes time stamps differ
  m_sequence,         \* the next sequence number
  m_ssrc,             \* times a frame was not acknowledged since the last success
  m_fragmentedPacket, \* the packet whose bytes the next fragment is cut from
  access,             \* ChannelAccessStatus
  accessEvent,        \* StartAccessAfterEvent is scheduled
  requestEvent,       \* RequestAccess is scheduled
  sifsEvent,          \* StartTransmission is scheduled for the next fragment
  m_mpdu,             \* what is being exchanged, and with whom
  m_txTimer,          \* the sender waits for an Ack
  air,                \* "idle", or a "data" frame or an "ack" on its way
  left,               \* stations the data frame is still to reach
  rx,                 \* OriginatorRxStatus of the sender at each station
  destination,        \* of each packet handed over (history)
  forwarded,          \* frames each station passed up (history)
  acked,              \* frames reported as acknowledged (history)
  lost                \* packets refused, discarded or expired (history)

queueVars == <<queue, now, m_sequence>>
accessVars == <<access, accessEvent, requestEvent, sifsEvent>>
exchangeVars == <<m_ssrc, m_fragmentedPacket, m_mpdu, m_txTimer, air, left>>
stationVars == <<rx, forwarded>>
history == <<destination, acked, lost>>
wifiVars == <<queueVars, accessVars, exchangeVars, stationVars, history>>

Destinations == Stations \cup {Broadcast}

Packets == 1 .. MaxPackets

Numbers == 0 .. SequenceModulo - 1

\* The last of Pieces fragments is not followed by more.
Mpdus == {m \in [packet : Packets, seq : Numbers, frag : 0 .. Pieces - 1,
                 more : BOOLEAN, retry : BOOLEAN, body : Packets \cup {0}, stamp : Nat] :
            m.more => m.frag + 1 < Pieces}

Exchanges == [mpdu : Mpdus, to : Destinations]

ASSUME NoMpduAssumption == NoMpdu \notin Exchanges

\* Mutant: the first frame's own sequence control.
ZeroControl == <<0, 0>>

NoControl == <<-1, -1>>     \* 0xffff, which no fragment has

Controls == Numbers \X (0 .. Pieces - 1) \cup {NoControl}

Init ==
  /\ queue = [d \in Destinations |-> <<>>] /\ now = 0 /\ m_sequence = 0
  /\ m_ssrc = 0 /\ m_fragmentedPacket = 0
  /\ access = "NOT_REQUESTED"
  /\ accessEvent = FALSE /\ requestEvent = FALSE /\ sifsEvent = FALSE
  /\ m_mpdu = NoMpdu /\ m_txTimer = FALSE /\ air = "idle" /\ left = {}
  /\ rx = [s \in Stations |->
             [defragmenting |-> FALSE, last |-> NoControl, fragments |-> <<>>]]
  /\ forwarded = [s \in Stations |-> <<>>]
  /\ destination = <<>> /\ acked = {} /\ lost = {}

----------------------------------------------------------------------------
(* The queue                                                               *)

\* body is the packet whose bytes the MPDU carries.
Whole(p) == [packet |-> p, seq |-> 0, frag |-> 0, more |-> FALSE, retry |-> FALSE,
             body |-> p, stamp |-> now]

IsFragment(m) == m.more \/ m.frag > 0

NPackets == MapThenSumSet(LAMBDA d : Len(queue[d]), Destinations)

\* Txop::Queue; a full queue drops the newest packet.
Queue(d) ==
  LET p == Len(destination) + 1 IN
  /\ p <= MaxPackets
  /\ destination' = Append(destination, d)
  /\ \/ /\ NPackets < m_maxSize
        /\ queue' = [queue EXCEPT ![d] = Append(@, Whole(p))]
        /\ UNCHANGED lost
     \/ /\ NPackets >= m_maxSize
        /\ lost' = lost \cup {p}
        /\ UNCHANGED queue
  /\ now' = now + 1
  /\ accessEvent' = TRUE
  /\ UNCHANGED <<m_sequence, access, requestEvent, sifsEvent, exchangeVars, stationVars, acked>>

HasFramesToTransmit == \E d \in Destinations : queue[d] # <<>>

\* Mutant: the queues are served in no order.
AnyQueue(d) == queue[d] # <<>>

\* FcfsWifiQueueScheduler: the queue whose first MPDU has the oldest stamp.
IsNext(d) ==
  /\ queue[d] # <<>>
  /\ \A e \in Destinations : queue[e] # <<>> => Head(queue[d]).stamp <= Head(queue[e]).stamp

InFlight(d) == m_txTimer /\ m_mpdu.to = d

NotInFlight(d) == IF InFlight(d) THEN Tail(queue[d]) ELSE queue[d]

\* The lifetime of the packet queued longest ends; an MPDU in flight is spared.
Expire(d) ==
  /\ NotInFlight(d) # <<>>
  /\ \A e \in Destinations : NotInFlight(e) # <<>> =>
       Head(NotInFlight(d)).packet <= Head(NotInFlight(e)).packet
  /\ queue' = [queue EXCEPT ![d] = IF InFlight(d) THEN <<Head(@)>> \o Tail(Tail(@)) ELSE Tail(@)]
  /\ lost' = lost \cup {Head(NotInFlight(d)).packet}
  /\ UNCHANGED <<now, m_sequence, accessVars, exchangeVars, stationVars, destination, acked>>

----------------------------------------------------------------------------
(* Channel access                                                          *)

StartAccessAfterEvent ==
  /\ accessEvent
  /\ accessEvent' = FALSE
  /\ access' = IF access = "NOT_REQUESTED" /\ HasFramesToTransmit THEN "REQUESTED" ELSE access
  /\ UNCHANGED <<requestEvent, sifsEvent, queueVars, exchangeVars, stationVars, history>>

RequestAccess ==
  /\ requestEvent
  /\ requestEvent' = FALSE
  /\ access' = IF access = "NOT_REQUESTED" THEN "REQUESTED" ELSE access
  /\ UNCHANGED <<accessEvent, sifsEvent, queueVars, exchangeVars, stationVars, history>>

\* Mutant: access is not requested again for what waits.
ReleaseOnly ==
  /\ access' = "NOT_REQUESTED"
  /\ UNCHANGED requestEvent

\* Looks at the queue as the exchange that ends left it.
NotifyChannelReleased ==
  /\ access' = "NOT_REQUESTED"
  /\ requestEvent' = (requestEvent \/ HasFramesToTransmit')

----------------------------------------------------------------------------
(* Sending                                                                 *)

NextSequenceNumber == (m_sequence + 1) % SequenceModulo

Numbered(m) == IF IsFragment(m) \/ m.retry THEN m ELSE [m EXCEPT !.seq = m_sequence]

NeedFragmentation(m, d) == d # Broadcast /\ ~IsFragment(m) /\ m.packet \in LongPackets

\* GetFirstFragmentIfNeeded: the fragment is a new MPDU with a stamp of now.
FirstFragment(m) == [m EXCEPT !.more = TRUE, !.stamp = now]

Transmit(d, m) ==
  /\ m_mpdu' = [mpdu |-> m, to |-> d]
  /\ air' = "data"
  /\ \/ /\ d = Broadcast
        /\ queue' = [queue EXCEPT ![d] = Tail(@)]
        /\ m_txTimer' = FALSE /\ left' = Stations
     \/ /\ d # Broadcast
        /\ queue' = [queue EXCEPT ![d] = <<m>> \o Tail(@)]
        /\ m_txTimer' = TRUE /\ left' = {d}

StartTransmission ==
  \/ /\ ~HasFramesToTransmit
     /\ UNCHANGED <<queueVars, exchangeVars>>
     /\ NotifyChannelReleased
  \/ \E d \in Destinations :
       LET m == Numbered(Head(queue[d])) IN
       /\ IsNext(d)
       /\ access' = "GRANTED"
       /\ m_sequence' = IF IsFragment(m) \/ m.retry THEN m_sequence
                        ELSE NextSequenceNumber
       /\ \/ /\ NeedFragmentation(m, d)
             /\ m_fragmentedPacket' = m.packet
             /\ now' = now + 1
             /\ Transmit(d, FirstFragment(m))
          \/ /\ ~NeedFragmentation(m, d)
             /\ Transmit(d, m)
             /\ UNCHANGED <<now, m_fragmentedPacket>>
       /\ UNCHANGED <<m_ssrc, requestEvent>>

\* The medium was idle for the backoff: DoGrantDcfAccess.
GrantAccess ==
  /\ access = "REQUESTED"
  /\ StartTransmission
  /\ UNCHANGED <<accessEvent, sifsEvent, stationVars, history>>

\* A SIFS after the Ack of a fragment.
SendNextFragment ==
  /\ sifsEvent
  /\ sifsEvent' = FALSE
  /\ StartTransmission
  /\ UNCHANGED <<accessEvent, stationVars, history>>

\* A broadcast frame is over when it is sent.
TransmissionEnds ==
  /\ air = "data" /\ m_mpdu.to = Broadcast /\ left = {}
  /\ air' = "idle" /\ m_mpdu' = NoMpdu
  /\ UNCHANGED <<accessEvent, sifsEvent, queueVars, m_ssrc, m_fragmentedPacket, m_txTimer, left,
                 stationVars, history>>
  /\ NotifyChannelReleased

\* GetNextFragment: as many bytes further on in m_fragmentedPacket.
NextFragment(m) ==
  [m EXCEPT !.frag = @ + 1, !.more = m.frag + 2 < Pieces,
            !.body = m_fragmentedPacket, !.stamp = now]

\* Mutant: the next fragment is not scheduled.
ForgetsNextFragment(m) ==
  \/ m.more /\ UNCHANGED <<sifsEvent, access, requestEvent>>
  \/ ~m.more /\ NotifyChannelReleased /\ UNCHANGED sifsEvent

TransmissionSucceeded(m) ==
  \/ m.more /\ sifsEvent' = TRUE /\ UNCHANGED <<access, requestEvent>>
  \/ ~m.more /\ NotifyChannelReleased /\ UNCHANGED sifsEvent

ReceivedNormalAck ==
  /\ air = "ack" /\ m_txTimer
  /\ air' = "idle" /\ m_txTimer' = FALSE /\ m_mpdu' = NoMpdu
  /\ LET m == m_mpdu.mpdu
         d == m_mpdu.to
     IN \/ /\ m.more
           /\ queue' = [queue EXCEPT ![d] = <<NextFragment(m)>> \o Tail(@)]
           /\ now' = now + 1
           /\ UNCHANGED <<m_ssrc, acked>>
        \/ /\ ~m.more
           /\ queue' = [queue EXCEPT ![d] = Tail(@)]
           /\ m_ssrc' = 0
           /\ acked' = acked \cup {[packet |-> m.packet, seq |-> m.seq, to |-> d]}
           /\ UNCHANGED now
  /\ TransmissionSucceeded(m_mpdu.mpdu)
  /\ UNCHANGED <<m_sequence, accessEvent, m_fragmentedPacket, left, stationVars, destination, lost>>

NeedRetransmission == m_ssrc + 1 < m_maxSsrc

\* The timer is put off while anything is being received, so no Ack follows.
NormalAckTimeout ==
  /\ m_txTimer /\ air = "idle"
  /\ m_txTimer' = FALSE /\ m_mpdu' = NoMpdu
  /\ LET d == m_mpdu.to IN
     \/ /\ NeedRetransmission
        /\ m_ssrc' = m_ssrc + 1
        /\ queue' = [queue EXCEPT ![d] = <<[Head(@) EXCEPT !.retry = TRUE]>> \o Tail(@)]
        /\ UNCHANGED lost
     \/ /\ ~NeedRetransmission
        /\ m_ssrc' = 0
        /\ queue' = [queue EXCEPT ![d] = Tail(@)]
        /\ lost' = lost \cup {m_mpdu.mpdu.packet}
  /\ NotifyChannelReleased
  /\ UNCHANGED <<now, m_sequence, accessEvent, sifsEvent, m_fragmentedPacket, air, left,
                 stationVars, destination, acked>>

----------------------------------------------------------------------------
(* The air, and the stations                                               *)

\* The frame does not reach s, or not without errors.
Miss(s) ==
  /\ air = "data" /\ s \in left
  /\ left' = left \ {s}
  /\ air' = IF m_mpdu.to = Broadcast THEN air ELSE "idle"
  /\ UNCHANGED <<queueVars, accessVars, m_ssrc, m_fragmentedPacket, m_mpdu, m_txTimer,
                 stationVars, history>>

LoseAck ==
  /\ air = "ack"
  /\ air' = "idle"
  /\ UNCHANGED <<queueVars, accessVars, m_ssrc, m_fragmentedPacket, m_mpdu, m_txTimer, left,
                 stationVars, history>>

Control(m) == <<m.seq, m.frag>>

\* Mutant: only fragments are looked up.
DuplicateFragment(s, m) == m.retry /\ rx[s].defragmenting /\ rx[s].last = Control(m)

IsDuplicate(s, m) == m.retry /\ rx[s].last = Control(m)

IsNextFragment(s, m) == rx[s].last[1] = m.seq /\ m.frag = rx[s].last[2] + 1

Forward(s, m, bodies) ==
  forwarded' = [forwarded EXCEPT ![s] =
                  Append(@, [packet |-> m.packet, seq |-> m.seq, bodies |-> bodies])]

\* MacRxMiddle::Receive for a fragment, or while fragments are awaited.
HandleFragments(s, m) ==
  LET collected == Append(rx[s].fragments, m.body) IN
  \/ /\ IF rx[s].defragmenting THEN m.more /\ IsNextFragment(s, m) ELSE m.more
     /\ rx' = [rx EXCEPT ![s] = [defragmenting |-> TRUE, last |-> Control(m),
                                 fragments |-> collected]]
     /\ UNCHANGED forwarded
  \/ /\ rx[s].defragmenting /\ ~m.more /\ IsNextFragment(s, m)
     /\ rx' = [rx EXCEPT ![s] = [defragmenting |-> FALSE, last |-> Control(m),
                                 fragments |-> <<>>]]
     /\ Forward(s, m, collected)
  \/ /\ rx[s].defragmenting /\ ~IsNextFragment(s, m)
     /\ UNCHANGED stationVars

MacRxMiddleReceive(s, m, to) ==
  \/ /\ IsDuplicate(s, m)
     /\ UNCHANGED stationVars
  \/ /\ ~IsDuplicate(s, m)
     /\ HandleFragments(s, m)
  \/ /\ ~IsDuplicate(s, m) /\ ~rx[s].defragmenting /\ ~m.more
     /\ rx' = IF to = Broadcast THEN rx ELSE [rx EXCEPT ![s].last = Control(m)]
     /\ Forward(s, m, <<m.body>>)

\* A frame for s alone is acknowledged before it is looked at.
Receive(s) ==
  /\ air = "data" /\ s \in left
  /\ left' = left \ {s}
  /\ air' = IF m_mpdu.to = Broadcast THEN air ELSE "ack"
  /\ MacRxMiddleReceive(s, m_mpdu.mpdu, m_mpdu.to)
  /\ UNCHANGED <<queueVars, accessVars, m_ssrc, m_fragmentedPacket, m_mpdu, m_txTimer, history>>

----------------------------------------------------------------------------
Next ==
  \/ \E d \in Destinations : Queue(d) \/ Expire(d)
  \/ StartAccessAfterEvent \/ RequestAccess \/ GrantAccess
  \/ SendNextFragment \/ TransmissionEnds
  \/ ReceivedNormalAck \/ NormalAckTimeout
  \/ \E s \in Stations : Miss(s) \/ Receive(s)
  \/ LoseAck

Spec == Init /\ [][Next]_wifiVars

\* What is scheduled is run, the medium is idle now and then, and a frame that
\* is sent is over at some time, heard or not.
Fairness ==
  /\ WF_wifiVars(StartAccessAfterEvent) /\ WF_wifiVars(RequestAccess)
  /\ WF_wifiVars(GrantAccess) /\ WF_wifiVars(SendNextFragment)
  /\ WF_wifiVars(TransmissionEnds) /\ WF_wifiVars(ReceivedNormalAck \/ LoseAck)
  /\ WF_wifiVars(NormalAckTimeout)
  /\ WF_wifiVars(\E s \in Stations : Miss(s) \/ Receive(s))

FairSpec == Spec /\ Fairness

----------------------------------------------------------------------------
RxStatus == [defragmenting : BOOLEAN, last : Controls, fragments : Seq(Packets \cup {0})]

\* What is passed up.
Frames == [packet : Packets, seq : Numbers, bodies : Seq(Packets \cup {0})]

TypeOK ==
  /\ queue \in [Destinations -> Seq(Mpdus)] /\ now \in Nat
  /\ m_sequence \in Numbers
  /\ m_ssrc \in Nat /\ m_fragmentedPacket \in Packets \cup {0}
  /\ access \in {"NOT_REQUESTED", "REQUESTED", "GRANTED"}
  /\ accessEvent \in BOOLEAN /\ requestEvent \in BOOLEAN /\ sifsEvent \in BOOLEAN
  /\ m_mpdu \in Exchanges \cup {NoMpdu}
  /\ m_txTimer \in BOOLEAN /\ air \in {"idle", "data", "ack"} /\ left \subseteq Stations
  /\ rx \in [Stations -> RxStatus]
  /\ destination \in Seq(Destinations) /\ Len(destination) <= MaxPackets
  /\ forwarded \in [Stations -> Seq(Frames)]
  /\ acked \subseteq [packet : Packets, seq : Numbers, to : Stations]
  /\ lost \subseteq Packets

\* While packets wait someone is about to send them: access is requested, or
\* an exchange is under way, or an event that requests it is scheduled.  And the
\* assertions hold: a transmission starts only when the one before is over.
AccessIsPending ==
  /\ HasFramesToTransmit =>
       access # "NOT_REQUESTED" \/ accessEvent \/ requestEvent
  /\ access = "GRANTED" <=> m_mpdu # NoMpdu \/ sifsEvent
  /\ m_mpdu = NoMpdu \/ ~sifsEvent

\* However often Acks are lost and frames sent again, a station passes a packet
\* up once.
ForwardedOnce ==
  \A s \in Stations : \A i, j \in DOMAIN forwarded[s] :
    forwarded[s][i].packet = forwarded[s][j].packet => i = j

\* A train of fragments to s was broken off before packet p was sent.
BrokenOff(s, p) == \E r \in lost \cap LongPackets : r < p /\ destination[r] = s

\* What the sender takes for delivered was passed up there, unless the packet
\* was given the number of one before it, 4096 frames ago, and was taken for it,
\* or the station still waits for the fragment of an older packet.
AckedIsForwarded ==
  \A a \in acked :
    \/ \E f \in Range(forwarded[a.to]) :
          f.packet = a.packet \/ (f.packet < a.packet /\ f.seq = a.seq)
    \/ BrokenOff(a.to, a.packet)

\* Every packet that is queued leaves the queue, whatever is heard of it.
EveryPacketLeaves ==
  \A d \in Destinations : queue[d] # <<>> ~> queue[d] = <<>>

\* The link behaves as LossyLink.
Link == INSTANCE LossyLink
          WITH Long <- LongPackets,
               arrived <- [s \in Stations |->
                             [i \in DOMAIN forwarded[s] |-> forwarded[s][i].packet]]

LinkSpec == Link!Spec

----------------------------------------------------------------------------
(* What a comment says of fragments                                        *)

\* frame-exchange-manager.h: GetNextFragment is the next fragment of the current
\* MSDU: what is joined from fragments is one packet.
FragmentsOfOnePacket ==
  \A s \in Stations : \A i \in DOMAIN forwarded[s] :
    Range(forwarded[s][i].bodies) = {forwarded[s][i].packet}
=============================================================================
