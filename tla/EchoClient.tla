---------------------------- MODULE EchoClient -----------------------------
(***************************************************************************)
(* The area controllers (udp-echo-client.cc): each sends its start vector  *)
(* to the server, and answers every request it reads after the time its    *)
(* optimisation takes.                                                     *)
(***************************************************************************)
EXTENDS GridNetwork

VARIABLES
  sent,      \* m_sent: how often each client sent its start vector
  solving    \* answers whose sendPacket event is pending

clientVars == <<sent, solving>>

ClientTypeOK ==
  /\ sent \in [Area -> 0 .. MaxSends]
  /\ solving \subseteq Datagram

ClientInit ==
  /\ sent = [a \in Area |-> 0]
  /\ solving = {}

\* startingValues: round 1, the index of the node, ones, rho.
StartVec(a) ==
  [form |-> "request", round |-> 1, num |-> a, size |-> "whole"]

\* Send: all clients start together and send again every m_interval (10000 s).
\* A datagram does not live that long, so the start vectors of one turn are
\* gone before the next turn.
ClientSend(a) ==
  /\ ~aborted
  /\ sent[a] < MaxSends
  /\ \A b \in Area :
       /\ sent[b] >= sent[a]
       /\ sent[b] = sent[a] => Packet(b, StartVec(b)) \notin up
  /\ up' = up \cup {Packet(a, StartVec(a))}
  /\ sent' = [sent EXCEPT ![a] = @ + 1]
  /\ UNCHANGED <<down, aborted, solving>>

\* HandleRead reads round, number and rho through a null pointer, or runs the
\* area's script on a number of arguments it does not take and exits.
Unusable(p) == p.vec = NoVec \/ Pieces(p.vec.num) # Pieces(p.area)

\* A short request is read past its end: garbage the script may reject.
MayFail(p) == Unusable(p) \/ p.vec.size = "short"

Answer(v) ==
  [form |-> "answer", round |-> v.round, num |-> v.num, size |-> "whole"]

ClientHandleRead ==
  /\ ~aborted
  /\ \E p \in down :
       \/ /\ MayFail(p)
          /\ Die
          /\ UNCHANGED clientVars
       \/ /\ ~Unusable(p)
          /\ down' = down \ {p}
          /\ solving' = solving \cup {Packet(p.area, Answer(p.vec))}
          /\ UNCHANGED <<up, aborted, sent>>

\* sendPacket, as long after HandleRead as the optimisation took.
SendPacket ==
  /\ ~aborted
  /\ \E s \in solving :
       /\ solving' = solving \ {s}
       /\ up' = up \cup {s}
  /\ UNCHANGED <<down, aborted, sent>>
=============================================================================
