----------------------------- MODULE EventKey ------------------------------
(***************************************************************************)
(* What the event lists of ns-3 are sorted by (scheduler.h): the time an   *)
(* event is due and, among events due at the same time, its uid.  Contexts *)
(* and implementations play no part in the order and are left out.         *)
(***************************************************************************)
EXTENDS Naturals

CONSTANTS
  MaxTs,      \* latest time stamp considered
  MaxUid      \* uids handed out

ASSUME BoundsAssumption == MaxTs \in Nat /\ MaxUid \in Nat \ {0}

EventKeys == [ts : 0 .. MaxTs, uid : 0 .. MaxUid]

Less(a, b) == a.ts < b.ts \/ (a.ts = b.ts /\ a.uid < b.uid)

\* The key nothing precedes.
Start == [ts |-> 0, uid |-> 0]
=============================================================================
