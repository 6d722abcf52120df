------------------------------ MODULE Resolver -----------------------------
(***************************************************************************)
(* What a packet's sender may expect of address resolution, whatever the   *)
(* protocol behind it: packets for a host leave in the order they were     *)
(* handed over, none overtakes one that waits, and those that wait end     *)
(* together, all sent or all dropped.                                      *)
(***************************************************************************)
EXTENDS Sequences

CONSTANTS Hosts, Packets

VARIABLES
  waiting,    \* packets that wait for the address of each host
  sent        \* packets handed to the device, in order

resolverVars == <<waiting, sent>>

Init == waiting = [h \in Hosts |-> <<>>] /\ sent = [h \in Hosts |-> <<>>]

Queue(h, p) ==
  /\ waiting' = [waiting EXCEPT ![h] = Append(@, p)]
  /\ UNCHANGED sent

SendAtOnce(h, p) ==
  /\ waiting[h] = <<>>
  /\ sent' = [sent EXCEPT ![h] = Append(@, p)]
  /\ UNCHANGED waiting

Resolve(h) ==
  /\ sent' = [sent EXCEPT ![h] = @ \o waiting[h]]
  /\ waiting' = [waiting EXCEPT ![h] = <<>>]

\* Several hosts may be given up at once.
GiveUp(hs) ==
  /\ waiting' = [h \in Hosts |-> IF h \in hs THEN <<>> ELSE waiting[h]]
  /\ UNCHANGED sent

Next ==
  \/ \E h \in Hosts, p \in Packets : Queue(h, p) \/ SendAtOnce(h, p)
  \/ \E h \in Hosts : Resolve(h)
  \/ \E hs \in SUBSET Hosts : GiveUp(hs)

Spec == Init /\ [][Next]_resolverVars
=============================================================================
