---------------------------- MODULE MCPowerGrid ----------------------------
(***************************************************************************)
(* PowerGrid on small instances.                                           *)
(***************************************************************************)
EXTENDS PowerGrid

CONSTANTS
  FreeRounds,   \* bound: rounds with any number of late packets
  MaxLate       \* bound: in later rounds, packets of closed ones still on their way

Late == {p \in up \cup down \cup solving : p.vec.round < current_round}

\* State constraint of the runs that would not end otherwise: those packets
\* can only be dropped by the server or solved in vain by a client.
FewLate == current_round > FreeRounds => Cardinality(Late) <= MaxLate
=============================================================================
