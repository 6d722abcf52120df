----------------------------- MODULE Iteration -----------------------------
(***************************************************************************)
(* The numbers that travel: how the server cuts vectors of floats into the *)
(* consensus and dual variables, how Dist_rev.jl updates them, and how the *)
(* areas cut their requests again.  Messages and timers are those of       *)
(* PowerGrid; here a round is one step, in which any area may be late.     *)
(* Floats are integers: 1.0 is Scale, and as every update halves, they are *)
(* multiples of a unit that is halved too.                                 *)
(***************************************************************************)
EXTENDS Integers, Sequences

CONSTANTS
  N,          \* entries of z12, z13 and of each lambda: 24
  rho,
  Scale,      \* the integer 1.0 is
  XValues,    \* seeds of the solutions areas find
  MaxRound    \* bound

ASSUME IterationAssumption ==
  /\ N \in Nat \ {0, 1} /\ rho \in Nat \ {0} /\ Scale \in Nat \ {0}
  /\ Scale % rho = 0
  /\ XValues \subseteq Nat /\ MaxRound \in Nat

VARIABLES
  current_round,
  stored,     \* z12, z13 and the lambdas of the server, as args.json holds them
  sent,       \* the vector last sent to each area, which its slot holds until it answers
  responded,  \* areas with nbr_response > 1: they answered some round after the first
  answers,    \* the last answer of each area that counted (history)
  slots,      \* the vectors of the last calculation, headers erased (history)
  late,       \* the areas it did without (history)
  updates,    \* calculations done (history)
  failed,     \* Dist_rev.jl stopped with an error
  unit        \* what all numbers are multiples of: the precision that is left (bound)

iterationVars ==
  <<current_round, stored, sent, responded, answers, slots, late, updates, failed, unit>>

Area == 0 .. 2
Float(n) == n * Scale
Vector(len, f) == [i \in 1 .. len |-> f]

\* script-power-grid.cc: round, number, 96 or 48 ones, rho.
StartVector(a) ==
  <<Float(1), Float(a)>> \o Vector(IF a = 0 THEN 4 * N ELSE 2 * N, Float(1)) \o <<Float(rho)>>

Restamp(v, round) == [v EXCEPT ![1] = Float(round)]

FirstOf(v, n) == SubSeq(v, 1, n)
LastOf(v, n) == SubSeq(v, Len(v) - n + 1, Len(v))

\* What round 1 stores, from the vectors as they were received.
FirstStored ==
  [z12 |-> LastOf(StartVector(1), N),
   z13 |-> LastOf(StartVector(2), N),
   lambda_121 |-> FirstOf(StartVector(0), N),
   lambda_131 |-> SubSeq(StartVector(0), N + 1, 2 * N),
   lambda_122 |-> FirstOf(StartVector(1), N),
   lambda_133 |-> FirstOf(StartVector(2), N)]

Init ==
  /\ current_round = 2
  /\ stored = FirstStored
  /\ sent = [a \in Area |-> Restamp(StartVector(a), 2)]
  /\ responded = {}
  /\ answers = [a \in Area |-> <<>>]
  /\ slots = [a \in Area |-> <<>>]
  /\ late = {} /\ updates = 0 /\ failed = FALSE
  /\ unit = Scale \div rho

----------------------------------------------------------------------------
(* The areas                                                               *)

\* Without round and number in front and rho at the end.
Received(a) == SubSeq(sent[a], 3, Len(sent[a]) - 1)

\* The pieces the solver is given, all of N entries.
WrapVector(v, count) == [p \in 1 .. count |-> SubSeq(v, (p - 1) * N + 1, p * N)]

Pieces(a) == WrapVector(Received(a), IF a = 0 THEN 4 ELSE 2)

\* Some border solution: both borders of area 1, one of the others.
Solutions(a) ==
  {[i \in 1 .. (IF a = 0 THEN 2 * N ELSE N) |-> Float((v * i) % 4)] : v \in XValues}

\* parseFloatVectorWithScalars, and round and number in front: t and obj are 0.
Answer(a, x) == <<Float(current_round), sent[a][2], 0, 0>> \o x

----------------------------------------------------------------------------
(* Dist_rev.jl                                                             *)

Plus(u, v) == [i \in DOMAIN u |-> u[i] + v[i]]
Minus(u, v) == [i \in DOMAIN u |-> u[i] - v[i]]
Times(n, u) == [i \in DOMAIN u |-> n * u[i]]
Over(u, n) == [i \in DOMAIN u |-> u[i] \div n]

Consensus(x, l, y, m) == Over(Plus(Plus(x, Over(l, rho)), Plus(y, Over(m, rho))), 2)

Ascent(l, x, z) == Plus(l, Times(rho, Minus(x, z)))

\* The six vectors in the order they are printed in.
Printed(x1, x2, x3) ==
  LET b2 == FirstOf(x1, N)
      b3 == SubSeq(x1, N + 1, 2 * N)
      z12 == Consensus(b2, stored.lambda_121, x2, stored.lambda_122)
      z13 == Consensus(b3, stored.lambda_131, x3, stored.lambda_133)
  IN << z12, z13,
        Ascent(stored.lambda_121, b2, z12), Ascent(stored.lambda_122, x2, z12),
        Ascent(stored.lambda_131, b3, z13), Ascent(stored.lambda_133, x3, z13) >>

\* Slices need enough entries, sums equal lengths.
LengthsAgree(x1, x2, x3) == Len(x1) >= 2 * N /\ Len(x2) = N /\ Len(x3) = N

----------------------------------------------------------------------------
(* The server                                                              *)

\* The lines move through six strings, so the last six of the log remain; the
\* lengths printed before them are lines too.
LastSix(lines) == LastOf(lines, 6)

\* Mutant: the four duals are read in the order they are declared in.
ReadAsDeclared(window) ==
  [z12 |-> window[1], z13 |-> window[2], lambda_121 |-> window[3],
   lambda_131 |-> window[4], lambda_122 |-> window[5], lambda_133 |-> window[6]]

Read(window) ==
  [z12 |-> window[1], z13 |-> window[2], lambda_121 |-> window[3],
   lambda_122 |-> window[4], lambda_131 |-> window[5], lambda_133 |-> window[6]]

\* Mutant: area 1's vectors are sent in the order they are printed in.
VecToConcatAsPrinted(a, s) ==
  << s.z12 \o s.z13 \o s.lambda_121 \o s.lambda_131,
     s.lambda_122 \o s.z12,
     s.lambda_133 \o s.z13 >>[a + 1]

VecToConcat(a, s) ==
  << s.lambda_121 \o s.lambda_131 \o s.z12 \o s.z13,
     s.lambda_122 \o s.z12,
     s.lambda_133 \o s.z13 >>[a + 1]

\* Clients are numbered as heard; here they were heard in order.
VecToSend(a, s, round) == <<Float(round), Float(a)>> \o VecToConcat(a, s) \o <<Float(rho)>>

\* Mutant: t and obj stay.
ErasedTwo(v) == SubSeq(v, 3, Len(v))

\* Round, number, t and obj are erased from whatever the slot holds.
Erased(v) == SubSeq(v, 5, Len(v))

\* Each area may find any of its solutions.
Found == {<<x1, x2, x3>> : x1 \in Solutions(0), x2 \in Solutions(1), x3 \in Solutions(2)}

\* HandleRead of the answers to the open round: nbr_response is never set back.
Collect(x, heard) ==
  /\ responded' = responded \cup heard
  /\ answers' = [a \in Area |-> IF a \in heard THEN Answer(a, x[a + 1]) ELSE answers[a]]

\* The slot of a late area holds what it was sent.
CalculateAndSendDataBackToAreas(x, without) ==
  LET vector == [a \in Area |-> Erased(IF a \in without THEN sent[a] ELSE Answer(a, x[a + 1]))]
      lengths == [i \in 1 .. 9 |-> <<>>]
      new == Read(LastSix(lengths \o Printed(vector[0], vector[1], vector[2])))
  IN /\ slots' = vector
     /\ late' = without
     /\ updates' = updates + 1
     /\ current_round' = current_round + 1
     /\ unit' = unit \div 2
     /\ IF LengthsAgree(vector[0], vector[1], vector[2])
        THEN /\ stored' = new
             /\ sent' = [a \in Area |-> VecToSend(a, new, current_round + 1)]
             /\ UNCHANGED failed
        ELSE failed' = TRUE /\ UNCHANGED <<stored, sent>>

\* A round ends with all answers, or with some when its timer expires; whoever is
\* late must have answered once.  What follows a failed script is the subject of
\* PowerGrid.
Calculate ==
  /\ current_round < MaxRound /\ ~failed /\ unit % 2 = 0
  /\ \E x \in Found, without \in SUBSET responded :
       /\ without # Area
       /\ Collect(x, Area \ without)
       /\ CalculateAndSendDataBackToAreas(x, without)

\* TimerExpired with some area that never answered after round 1: the answers there
\* are give way to the vectors of round 1, but their areas have responded.
ResendInitial ==
  /\ current_round < MaxRound /\ ~failed
  /\ \E x \in Found, heard \in SUBSET Area \ {{}} :
       /\ responded \cup heard # Area
       /\ Collect(x, heard)
  /\ current_round' = current_round + 1
  /\ sent' = [a \in Area |-> Restamp(StartVector(a), current_round + 1)]
  /\ UNCHANGED <<stored, slots, late, updates, failed, unit>>

\* TimerExpired without any answer: the same vectors go out under the next round.
ResendPrevious ==
  /\ current_round < MaxRound /\ ~failed
  /\ current_round' = current_round + 1
  /\ sent' = [a \in Area |-> Restamp(sent[a], current_round + 1)]
  /\ UNCHANGED <<stored, responded, answers, slots, late, updates, failed, unit>>

Next == Calculate \/ ResendInitial \/ ResendPrevious

Spec == Init /\ [][Next]_iterationVars

----------------------------------------------------------------------------
Dual(s, a) ==
  << <<s.lambda_121, s.lambda_131, s.z12, s.z13>>,
     <<s.lambda_122, s.z12>>,
     <<s.lambda_133, s.z13>> >>[a + 1]

\* After any update, whatever the areas answered and with whatever vectors the
\* server started, the two duals of a border are opposite.
DualsBalance ==
  updates > 0 /\ ~failed =>
    \A i \in 1 .. N : /\ stored.lambda_121[i] + stored.lambda_122[i] = 0
                      /\ stored.lambda_131[i] + stored.lambda_133[i] = 0

\* From the first update on an area solves with the server's vectors, each under
\* its own name: text, shift register, concatenation and cutting fit together.
AreasUseStoredVectors ==
  (updates > 0 /\ ~failed) => \A a \in Area : Pieces(a) = Dual(stored, a)

\* The update fails exactly when area 2 or 3 is late: of a request, only area
\* 1's is long enough to be taken for an answer.
OnlyPartnersFail == failed <=> late \cap {1, 2} # {}

\* The comments of TimerExpired, "start the calculation with data from previous
\* round", and "using previous data if client didn't respond": a late area counts
\* with what it answered last.  The code takes the request it was sent.
LateCountWithPreviousData == \A a \in late : slots[a] = Erased(answers[a])
=============================================================================
