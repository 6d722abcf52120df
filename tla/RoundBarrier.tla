--------------------------- MODULE RoundBarrier ----------------------------
(***************************************************************************)
(* What the server promises of its rounds: a round ends when every area    *)
(* has answered in it, or, after the first round, when a timer fires; an   *)
(* area answers at most once in a round, and every round starts with no    *)
(* answers and with a timer of its own.                                    *)
(***************************************************************************)
EXTENDS Sequences, Naturals

CONSTANT Area

VARIABLES
  round,      \* the round that is open
  answered,   \* the areas whose answer to it the server holds
  timers      \* the round each pending timer was set in, in firing order

barrierVars == <<round, answered, timers>>

Init ==
  /\ round = 1
  /\ answered = {}
  /\ timers = <<>>

Open ==
  /\ round' = round + 1
  /\ answered' = {}

Answer(a) ==
  /\ a \notin answered
  /\ answered \cup {a} # Area
  /\ answered' = answered \cup {a}
  /\ UNCHANGED <<round, timers>>

\* The last missing answer closes the round in the step that brings it.
Close(a) ==
  /\ a \notin answered
  /\ answered \cup {a} = Area
  /\ Open
  /\ timers' = Append(timers, round + 1)

\* A round without all its answers only ends with a timer, of that round or of
\* an earlier one; the next round may get two.
GiveUp ==
  /\ timers # <<>>
  /\ answered # Area
  /\ Open
  /\ \/ timers' = Append(Tail(timers), round + 1)
     \/ timers' = Tail(timers) \o <<round + 1, round + 1>>

Next ==
  \/ \E a \in Area : Answer(a) \/ Close(a)
  \/ GiveUp

Spec == Init /\ [][Next]_barrierVars
=============================================================================
