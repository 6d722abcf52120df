------------------------------ MODULE LossyLink -----------------------------
(***************************************************************************)
(* What layers above may expect of the radio link of one sender: packets   *)
(* reach a station in the order they were handed over, none of them twice, *)
(* and some never.  Only a long packet, sent in several frames, lets those   *)
(* for other stations pass it and what waits behind it.                    *)
(***************************************************************************)
EXTENDS Naturals, Sequences, Functions

CONSTANTS
  Stations,
  Broadcast,
  Long        \* packets sent in several frames

VARIABLES
  destination,   \* where each packet handed over goes, by its number
  arrived        \* numbers of the packets each station has got

linkVars == <<destination, arrived>>

Init == destination = <<>> /\ arrived = [s \in Stations |-> <<>>]

Offer(d) ==
  /\ destination' = Append(destination, d)
  /\ UNCHANGED arrived

\* A long packet for the same destination was handed over with p or before it.
BehindLong(p) == \E r \in Long : r <= p /\ destination[r] = destination[p]

MayPass(q, p) == destination[q] # destination[p] /\ BehindLong(p)

Arrive(s, p) ==
  /\ destination[p] \in {s, Broadcast}
  /\ \A q \in Range(arrived[s]) : q < p \/ (q # p /\ MayPass(q, p))
  /\ arrived' = [arrived EXCEPT ![s] = Append(@, p)]
  /\ UNCHANGED destination

Next ==
  \/ \E d \in Stations \cup {Broadcast} : Offer(d)
  \/ \E s \in Stations : \E p \in DOMAIN destination : Arrive(s, p)

Spec == Init /\ [][Next]_linkVars
=============================================================================
