------------------------------- MODULE Loops --------------------------------
(***************************************************************************)
(* Loops, as a function of the number of turns: unlike recursive operators *)
(* and folds over sets, the provers can reason about these.                *)
(***************************************************************************)
EXTENDS Naturals

\* What n turns of a loop make of x; step is given what it works on and its turn.
Repeat(n, x, step(_, _)) ==
  LET after[k \in 0 .. n] == IF k = 0 THEN x ELSE step(after[k - 1], k)
  IN after[n]
=============================================================================
