---------------------------- MODULE GridNetwork ----------------------------
(***************************************************************************)
(* What the central server and the area clients of the power-grid          *)
(* simulation share: the names of the areas, the vectors of floats they    *)
(* exchange, the datagrams in flight between them, and the one process     *)
(* they all run in.                                                        *)
(*                                                                         *)
(* A vector keeps of the floats in a datagram what the protocol looks at:  *)
(*   form   "request": <<round, client n, duals and consensus..., rho>>,   *)
(*          the layout of a client's first packet and of every packet of   *)
(*          the server; "answer": <<round, client n, t, obj, x...>>, what  *)
(*          a client sends after solving; "none": no floats at all         *)
(*   round  the first float                                                *)
(*   num    the second float, the "client number"                          *)
(*   size   "whole" when it has as many floats as its layout says, "short" *)
(*          or "long" when the server built it from something else         *)
(***************************************************************************)
EXTENDS Naturals, FiniteSets

CONSTANTS
  total_of_node,   \* number of areas
  MaxRound,        \* bound: no handler opens a round after this one
  MaxSends,        \* bound: packets a client sends unasked before the stop time
  Lossy,           \* whether the wireless channel may drop a datagram
  NoArea           \* the name of a slot no client has written

ASSUME GridAssumption ==
  /\ total_of_node \in Nat \ {0}
  /\ MaxRound \in Nat \ {0}
  /\ MaxSends \in Nat
  /\ Lossy \in BOOLEAN
  /\ NoArea \notin 0 .. total_of_node - 1

\* An area is the index of its node in the scenario; x1 is area 0.
Area == 0 .. total_of_node - 1

Round == 1 .. MaxRound

VARIABLES
  up,        \* datagrams on their way from a client to the server
  down,      \* datagrams on their way from the server to a client
  aborted    \* the simulation process has died

netVars == <<up, down, aborted>>

Vec == [form : {"none", "request", "answer"}, round : 0 .. MaxRound,
        num : Area, size : {"short", "whole", "long"}]

NoVec == [form |-> "none", round |-> 0, num |-> 0, size |-> "short"]

Datagram == [area : Area, vec : Vec]

Packet(a, v) == [area |-> a, vec |-> v]

\* How many sub-vectors a client cuts a request with this number into; the
\* solver script of an area takes as many as the area's own number gives.
Pieces(num) == CASE num = 0        -> 4
                 [] num \in {1, 2} -> 2
                 [] OTHER          -> 0

NetTypeOK ==
  /\ up \subseteq Datagram
  /\ down \subseteq Datagram
  /\ aborted \in BOOLEAN

NetInit ==
  /\ up = {}
  /\ down = {}
  /\ aborted = FALSE

\* Server and clients are objects of one process: exit(1), an exception nobody
\* catches or a fault in either ends them all.
Die ==
  /\ aborted' = TRUE
  /\ UNCHANGED <<up, down>>

LoseUp(p) ==
  /\ up' = up \ {p}
  /\ UNCHANGED <<down, aborted>>

LoseDown(p) ==
  /\ down' = down \ {p}
  /\ UNCHANGED <<up, aborted>>

\* The Wi-Fi channel gives up on a frame after its retries; datagrams are
\* reordered at will (up and down are sets) but not duplicated.
Lose ==
  /\ ~aborted
  /\ Lossy
  /\ \/ \E p \in up : LoseUp(p)
     \/ \E p \in down : LoseDown(p)
=============================================================================
