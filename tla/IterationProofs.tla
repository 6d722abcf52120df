-------------------------- MODULE IterationProofs --------------------------
(***************************************************************************)
(* The properties of Iteration, for vectors of any length, any rho, any    *)
(* solutions and any number of rounds and updates.                         *)
(***************************************************************************)
EXTENDS Iteration, SequenceTheorems, TLAPS

----------------------------------------------------------------------------
(* The inductive invariant                                                 *)

Multiples(u) == {u * k : k \in Int}
Vectors(n, u) == {v \in Seq(Multiples(u)) : Len(v) = n}

\* Numbers are multiples of the unit, duals of rho times the unit: what the
\* update divides by rho and by 2 leaves no rest.
Duals(u) == Vectors(N, rho * u)

NumbersOf(s, u) ==
  /\ s.z12 \in Vectors(N, u) /\ s.z13 \in Vectors(N, u)
  /\ s.lambda_121 \in Duals(u) /\ s.lambda_131 \in Duals(u)
  /\ s.lambda_122 \in Duals(u) /\ s.lambda_133 \in Duals(u)

\* Round, number and rho around four vectors, or two.
RequestLength(a) == IF a = 0 THEN 4 * N + 3 ELSE 2 * N + 3

\* What the update stores, and that the duals of a border add up to 0 in it.
NewStore(l, x1, x2, x3) == Read(LastSix(l \o Printed(x1, x2, x3)))

Opposite(l, m) == \A i \in 1 .. N : l[i] + m[i] = 0
Balanced(s) == Opposite(s.lambda_121, s.lambda_122) /\ Opposite(s.lambda_131, s.lambda_133)

Requests ==
  /\ DOMAIN sent = Area
  /\ \A a \in Area : sent[a] \in Vectors(RequestLength(a), unit)
  /\ updates > 0 => \A a \in Area : Received(a) = VecToConcat(a, stored)

Precision == unit \in Nat \ {0} /\ Scale \in Multiples(rho * unit)

Counts == current_round \in Nat /\ updates \in Nat

\* Once there was an update no reset can follow: the first vectors are gone.
Responses == responded \subseteq Area /\ (updates > 0 => responded = Area)

IInv ==
  /\ Counts
  /\ Responses
  /\ OnlyPartnersFail
  /\ ~failed => Precision /\ NumbersOf(stored, unit) /\ Requests /\ DualsBalance

----------------------------------------------------------------------------
(* Numbers                                                                 *)

LEMMA DivExact ==
  ASSUME NEW u \in Nat \ {0}, NEW a \in Int
  PROVE  (u * a) \div u = a
OBVIOUS

\* Whatever is a multiple of twice the unit is one of the unit.
LEMMA Finer ==
  ASSUME NEW u \in Int, NEW c \in Int
  PROVE  Multiples(c * u) \subseteq Multiples(u)
<1> SUFFICES ASSUME NEW k \in Int PROVE (c * u) * k \in Multiples(u)
  BY DEF Multiples
<1>1. (c * u) * k = u * (c * k) /\ c * k \in Int
  OBVIOUS
<1> QED
  BY <1>1 DEF Multiples

LEMMA FinerVectors ==
  ASSUME NEW u \in Int, NEW c \in Int, NEW n
  PROVE  Vectors(n, c * u) \subseteq Vectors(n, u)
<1>1. Multiples(c * u) \subseteq Multiples(u)
  BY Finer
<1>2. Seq(Multiples(c * u)) \subseteq Seq(Multiples(u))
  BY <1>1, SeqMonotonic
<1> QED
  BY <1>2 DEF Vectors

\* One entry of a border: the mean is exact, and the two duals add up to 0.
LEMMA BorderEntry ==
  ASSUME NEW v \in Nat \ {0}, NEW x \in Multiples(2 * v), NEW y \in Multiples(2 * v),
         NEW l \in Multiples(rho * (2 * v)), NEW m \in Multiples(rho * (2 * v)),
         NEW z, z = ((x + (l \div rho)) + (y + (m \div rho))) \div 2
  PROVE  /\ z \in Multiples(v)
         /\ l + rho * (x - z) \in Multiples(rho * v)
         /\ m + rho * (y - z) \in Multiples(rho * v)
         /\ (l + rho * (x - z)) + (m + rho * (y - z)) = 0
<1>1. PICK a \in Int, b \in Int, k \in Int, n \in Int :
        x = (2 * v) * a /\ y = (2 * v) * b /\ l = (rho * (2 * v)) * k /\ m = (rho * (2 * v)) * n
  BY DEF Multiples
<1> DEFINE s == a + b + k + n
<1>2. rho \in Nat \ {0}
  BY IterationAssumption
<1>3. l \div rho = (2 * v) * k /\ m \div rho = (2 * v) * n
  <2>1. l = rho * ((2 * v) * k) /\ m = rho * ((2 * v) * n)
    BY <1>1, <1>2
  <2>2. (2 * v) * k \in Int /\ (2 * v) * n \in Int
    OBVIOUS
  <2> QED
    BY <1>2, <2>1, <2>2, DivExact
<1>4. z = v * s
  <2>1. (x + (l \div rho)) + (y + (m \div rho)) = 2 * (v * s)
    BY <1>1, <1>3
  <2>2. v * s \in Int /\ (2 * (v * s)) \div 2 = v * s
    <3>1. v * s \in Int
      OBVIOUS
    <3> QED
      BY <3>1, DivExact
  <2> QED
    BY <2>1, <2>2
<1>5. /\ l + rho * (x - z) = (rho * v) * (2 * k + 2 * a - s)
      /\ m + rho * (y - z) = (rho * v) * (2 * n + 2 * b - s)
  BY <1>1, <1>2, <1>4
<1>6. (2 * k + 2 * a - s) + (2 * n + 2 * b - s) = 0
  OBVIOUS
<1>7. (rho * v) * (2 * k + 2 * a - s) + (rho * v) * (2 * n + 2 * b - s)
        = (rho * v) * ((2 * k + 2 * a - s) + (2 * n + 2 * b - s))
  BY <1>2
<1>8. (l + rho * (x - z)) + (m + rho * (y - z)) = 0
  BY <1>2, <1>5, <1>6, <1>7
<1>9. s \in Int /\ 2 * k + 2 * a - s \in Int /\ 2 * n + 2 * b - s \in Int
  OBVIOUS
<1> HIDE DEF s
<1> QED
  BY <1>4, <1>5, <1>8, <1>9 DEF Multiples

\* A border: consensus and the two duals.
LEMMA Border ==
  ASSUME NEW v \in Nat \ {0},
         NEW u, u = 2 * v,
         NEW x \in Vectors(N, u), NEW y \in Vectors(N, u), NEW l \in Duals(u), NEW m \in Duals(u),
         NEW z, z = Consensus(x, l, y, m)
  PROVE  /\ z \in Vectors(N, v)
         /\ Ascent(l, x, z) \in Duals(v)
         /\ Ascent(m, y, z) \in Duals(v)
         /\ Opposite(Ascent(l, x, z), Ascent(m, y, z))
<1> DEFINE e(i) == ((x[i] + (l[i] \div rho)) + (y[i] + (m[i] \div rho))) \div 2
<1>1. z = [i \in 1 .. N |-> e(i)]
  BY DEF Consensus, Over, Plus, Vectors, Duals
<1>2. /\ Ascent(l, x, z) = [i \in 1 .. N |-> l[i] + rho * (x[i] - e(i))]
      /\ Ascent(m, y, z) = [i \in 1 .. N |-> m[i] + rho * (y[i] - e(i))]
  BY <1>1 DEF Ascent, Plus, Times, Minus, Vectors, Duals
<1>3. \A i \in 1 .. N :
        /\ e(i) \in Multiples(v)
        /\ l[i] + rho * (x[i] - e(i)) \in Multiples(rho * v)
        /\ m[i] + rho * (y[i] - e(i)) \in Multiples(rho * v)
        /\ (l[i] + rho * (x[i] - e(i))) + (m[i] + rho * (y[i] - e(i))) = 0
  <2> TAKE i \in 1 .. N
  <2>1. /\ x[i] \in Multiples(2 * v) /\ y[i] \in Multiples(2 * v)
        /\ l[i] \in Multiples(rho * (2 * v)) /\ m[i] \in Multiples(rho * (2 * v))
    BY DEF Vectors, Duals
  <2> QED
    BY <2>1, BorderEntry
<1> HIDE DEF e
<1>4. z \in Vectors(N, v)
  BY <1>1, <1>3 DEF Vectors
<1>5. Ascent(l, x, z) \in Duals(v)
  BY <1>2, <1>3 DEF Vectors, Duals
<1>6. Ascent(m, y, z) \in Duals(v)
  BY <1>2, <1>3 DEF Vectors, Duals
<1>7. Opposite(Ascent(l, x, z), Ascent(m, y, z))
  BY <1>2, <1>3 DEF Opposite
<1> QED
  BY <1>4, <1>5, <1>6, <1>7

----------------------------------------------------------------------------
(* Vectors                                                                 *)

\* Round and number in front and rho at the end, and off again.
LEMMA FramedIs ==
  ASSUME NEW S, NEW w \in Seq(S), NEW p \in S, NEW q \in S, NEW e \in S,
         NEW v, v = <<p, q>> \o w \o <<e>>
  PROVE  /\ v \in Seq(S) /\ Len(v) = Len(w) + 3
         /\ v[1] = p /\ v[2] = q
         /\ SubSeq(v, 3, Len(v) - 1) = w
<1>1. v \in Seq(S) /\ Len(v) = Len(w) + 3 /\ v[1] = p /\ v[2] = q
  OBVIOUS
<1>2. SubSeq(v, 3, Len(v) - 1) = w
  OBVIOUS
<1> QED
  BY <1>1, <1>2

\* What stands behind a header is what remains without it.
LEMMA BehindIs ==
  ASSUME NEW S, NEW h \in Seq(S), NEW x \in Seq(S), NEW n, n = Len(h)
  PROVE  SubSeq(h \o x, n + 1, Len(h \o x)) = x
OBVIOUS

LEMMA HeadedIs ==
  ASSUME NEW S, NEW x \in Seq(S), NEW h \in Seq(S), Len(h) = 4
  PROVE  Erased(h \o x) = x
<1>1. SubSeq(h \o x, 4 + 1, Len(h \o x)) = x
  BY BehindIs
<1>2. 4 + 1 = 5
  OBVIOUS
<1> QED
  BY <1>1, <1>2 DEF Erased

\* Two vectors of n entries, one after the other, and four.
LEMMA CutTwo ==
  ASSUME N \in Nat \ {0},
         NEW S, NEW x \in Seq(S), NEW y \in Seq(S), Len(x) = N, Len(y) = N
  PROVE  /\ x \o y \in Seq(S) /\ Len(x \o y) = 2 * N
         /\ WrapVector(x \o y, 2) = <<x, y>>
<1>1. x \o y \in Seq(S) /\ Len(x \o y) = 2 * N
  OBVIOUS
<1>2. WrapVector(x \o y, 2) = <<x, y>>
  BY DEF WrapVector
<1> QED
  BY <1>1, <1>2

LEMMA CutFour ==
  ASSUME N \in Nat \ {0},
         NEW S, NEW x \in Seq(S), NEW y \in Seq(S), NEW z \in Seq(S), NEW u \in Seq(S),
         Len(x) = N, Len(y) = N, Len(z) = N, Len(u) = N
  PROVE  /\ x \o y \o z \o u \in Seq(S) /\ Len(x \o y \o z \o u) = 4 * N
         /\ WrapVector(x \o y \o z \o u, 4) = <<x, y, z, u>>
<1>1. x \o y \o z \o u \in Seq(S) /\ Len(x \o y \o z \o u) = 4 * N
  <2>1. x \o y \o z \in Seq(S) /\ Len(x \o y \o z) = 3 * N
    OBVIOUS
  <2> QED
    BY <2>1
<1>2. /\ SubSeq(x \o y \o z \o u, 1, N) = x
      /\ SubSeq(x \o y \o z \o u, N + 1, 2 * N) = y
      /\ SubSeq(x \o y \o z \o u, 2 * N + 1, 3 * N) = z
      /\ SubSeq(x \o y \o z \o u, 3 * N + 1, 4 * N) = u
  OBVIOUS
<1>3. WrapVector(x \o y \o z \o u, 4) = <<x, y, z, u>>
  BY <1>2 DEF WrapVector
<1> QED
  BY <1>1, <1>3

\* What goes to an area: two vectors or four, framed.
LEMMA ConcatOf ==
  ASSUME NEW s
  PROVE  /\ VecToConcat(0, s) = s.lambda_121 \o s.lambda_131 \o s.z12 \o s.z13
         /\ VecToConcat(1, s) = s.lambda_122 \o s.z12
         /\ VecToConcat(2, s) = s.lambda_133 \o s.z13
<1> DEFINE p == s.lambda_121 \o s.lambda_131 \o s.z12 \o s.z13
           q == s.lambda_122 \o s.z12
           r == s.lambda_133 \o s.z13
<1>1. \A a : VecToConcat(a, s) = <<p, q, r>>[a + 1]
  BY DEF VecToConcat
<1> HIDE DEF p, q, r
<1>2. VecToConcat(0, s) = <<p, q, r>>[0 + 1] /\ VecToConcat(1, s) = <<p, q, r>>[1 + 1]
      /\ VecToConcat(2, s) = <<p, q, r>>[2 + 1]
  BY ONLY <1>1
<1>3. VecToConcat(0, s) = p /\ VecToConcat(1, s) = q /\ VecToConcat(2, s) = r
  BY <1>2
<1> QED
  BY <1>3 DEF p, q, r

LEMMA DualOf ==
  ASSUME NEW s
  PROVE  /\ Dual(s, 0) = <<s.lambda_121, s.lambda_131, s.z12, s.z13>>
         /\ Dual(s, 1) = <<s.lambda_122, s.z12>>
         /\ Dual(s, 2) = <<s.lambda_133, s.z13>>
<1> DEFINE p == <<s.lambda_121, s.lambda_131, s.z12, s.z13>>
           q == <<s.lambda_122, s.z12>>
           r == <<s.lambda_133, s.z13>>
<1>1. \A a : Dual(s, a) = <<p, q, r>>[a + 1]
  BY DEF Dual
<1> HIDE DEF p, q, r
<1>2. Dual(s, 0) = <<p, q, r>>[0 + 1] /\ Dual(s, 1) = <<p, q, r>>[1 + 1]
      /\ Dual(s, 2) = <<p, q, r>>[2 + 1]
  BY ONLY <1>1
<1>3. Dual(s, 0) = p /\ Dual(s, 1) = q /\ Dual(s, 2) = r
  BY <1>2
<1> QED
  BY <1>3 DEF p, q, r

LEMMA ConcatLength ==
  ASSUME NEW s, NEW u \in Nat, NumbersOf(s, u), NEW a \in Area
  PROVE  /\ VecToConcat(a, s) \in Vectors(RequestLength(a) - 3, u)
         /\ WrapVector(VecToConcat(a, s), IF a = 0 THEN 4 ELSE 2) = Dual(s, a)
<1> DEFINE S == Multiples(u)
           z12 == s.z12
           z13 == s.z13
           l21 == s.lambda_121
           l31 == s.lambda_131
           l22 == s.lambda_122
           l33 == s.lambda_133
<1>1. rho \in Nat /\ Multiples(rho * u) \subseteq S
  BY Finer, IterationAssumption
<1>2. /\ z12 \in Seq(S) /\ Len(z12) = N /\ z13 \in Seq(S) /\ Len(z13) = N
      /\ l21 \in Seq(S) /\ Len(l21) = N /\ l31 \in Seq(S) /\ Len(l31) = N
      /\ l22 \in Seq(S) /\ Len(l22) = N /\ l33 \in Seq(S) /\ Len(l33) = N
  <2>1. \A l \in Seq(Multiples(rho * u)) : l \in Seq(S)
    BY <1>1, SeqMonotonic
  <2> QED
    BY <2>1 DEF NumbersOf, Vectors, Duals
<1>3. N \in Nat \ {0} /\ \A b \in Area : b = 0 \/ b = 1 \/ b = 2
  BY IterationAssumption DEF Area
<1>4. /\ VecToConcat(0, s) = l21 \o l31 \o z12 \o z13 /\ VecToConcat(1, s) = l22 \o z12
      /\ VecToConcat(2, s) = l33 \o z13
      /\ Dual(s, 0) = <<l21, l31, z12, z13>> /\ Dual(s, 1) = <<l22, z12>>
      /\ Dual(s, 2) = <<l33, z13>>
  BY ConcatOf, DualOf
<1> HIDE DEF S, z12, z13, l21, l31, l22, l33
<1>5. /\ VecToConcat(0, s) \in Seq(S) /\ Len(VecToConcat(0, s)) = 4 * N
      /\ WrapVector(VecToConcat(0, s), 4) = Dual(s, 0)
  <2> DEFINE w == l21 \o l31 \o z12 \o z13
  <2>1. w \in Seq(S) /\ Len(w) = 4 * N /\ WrapVector(w, 4) = <<l21, l31, z12, z13>>
    BY <1>2, <1>3, CutFour
  <2> HIDE DEF w
  <2>2. VecToConcat(0, s) = w
    BY <1>4 DEF w
  <2> QED
    BY <1>4, <2>1, <2>2
<1>6. /\ VecToConcat(1, s) \in Seq(S) /\ Len(VecToConcat(1, s)) = 2 * N
      /\ WrapVector(VecToConcat(1, s), 2) = Dual(s, 1)
  <2> DEFINE w == l22 \o z12
  <2>1. w \in Seq(S) /\ Len(w) = 2 * N /\ WrapVector(w, 2) = <<l22, z12>>
    BY <1>2, <1>3, CutTwo
  <2> HIDE DEF w
  <2>2. VecToConcat(1, s) = w
    BY <1>4 DEF w
  <2> QED
    BY <1>4, <2>1, <2>2
<1>7. /\ VecToConcat(2, s) \in Seq(S) /\ Len(VecToConcat(2, s)) = 2 * N
      /\ WrapVector(VecToConcat(2, s), 2) = Dual(s, 2)
  <2> DEFINE w == l33 \o z13
  <2>1. w \in Seq(S) /\ Len(w) = 2 * N /\ WrapVector(w, 2) = <<l33, z13>>
    BY <1>2, <1>3, CutTwo
  <2> HIDE DEF w
  <2>2. VecToConcat(2, s) = w
    BY <1>4 DEF w
  <2> QED
    BY <1>4, <2>1, <2>2
<1>8. RequestLength(0) - 3 = 4 * N /\ RequestLength(1) - 3 = 2 * N /\ RequestLength(2) - 3 = 2 * N
  BY <1>3 DEF RequestLength
<1>9. \A v \in Seq(S) : v \in Vectors(Len(v), u)
  BY DEF Vectors, S
<1>10. a = 0 \/ a = 1 \/ a = 2
  BY <1>3
<1> QED
  BY <1>5, <1>6, <1>7, <1>8, <1>9, <1>10

----------------------------------------------------------------------------
(* Initial states                                                          *)

LEMMA Floats ==
  ASSUME NEW u \in Nat, Scale \in Multiples(rho * u), NEW n \in Int
  PROVE  Float(n) \in Multiples(rho * u) /\ Float(n) \in Multiples(u)
<1>1. PICK k \in Int : Scale = (rho * u) * k
  BY DEF Multiples
<1>2. rho \in Nat
  BY IterationAssumption
<1>3. n * Scale = (rho * u) * (n * k) /\ n * k \in Int
  BY <1>1, <1>2
<1>4. n * Scale = u * (rho * (n * k)) /\ rho * (n * k) \in Int
  BY <1>2, <1>3
<1> QED
  BY <1>3, <1>4 DEF Float, Multiples

LEMMA StartIs ==
  ASSUME NEW u \in Nat, Scale \in Multiples(rho * u), NEW a \in Area
  PROVE  StartVector(a) \in Vectors(RequestLength(a), rho * u)
<1> DEFINE S == Multiples(rho * u)
           n == IF a = 0 THEN 4 * N ELSE 2 * N
           w == Vector(n, Float(1))
<1>1. n \in Nat /\ RequestLength(a) = n + 3
  BY IterationAssumption DEF RequestLength
<1>2. Float(1) \in S /\ Float(a) \in S /\ Float(rho) \in S
  BY Floats, IterationAssumption DEF Area
<1>3. StartVector(a) = <<Float(1), Float(a)>> \o w \o <<Float(rho)>>
  BY DEF StartVector
<1> HIDE DEF S, n
<1>4. w \in Seq(S) /\ Len(w) = n
  BY <1>1, <1>2 DEF Vector
<1> HIDE DEF w
<1>5. StartVector(a) \in Seq(S) /\ Len(StartVector(a)) = n + 3
  BY <1>2, <1>3, <1>4
<1> QED
  BY <1>1, <1>5 DEF Vectors, S

LEMMA RestampIs ==
  ASSUME NEW u \in Nat, NEW n \in Nat, n > 0, NEW v \in Vectors(n, u), NEW r \in Nat,
         Scale \in Multiples(rho * u)
  PROVE  /\ Restamp(v, r) \in Vectors(n, u)
         /\ n > 2 => SubSeq(Restamp(v, r), 3, n - 1) = SubSeq(v, 3, n - 1)
<1>1. Float(r) \in Multiples(u)
  BY Floats
<1>2. v \in Seq(Multiples(u)) /\ Len(v) = n
  BY DEF Vectors
<1> DEFINE f == Float(r)
<1> HIDE DEF f
<1>3. Restamp(v, r) = [v EXCEPT ![1] = f]
  BY DEF Restamp, f
<1>4. f \in Multiples(u)
  BY <1>1 DEF f
<1>5. Restamp(v, r) \in Seq(Multiples(u)) /\ Len(Restamp(v, r)) = n
  BY <1>2, <1>3, <1>4
<1>6. ASSUME n > 2 PROVE SubSeq(Restamp(v, r), 3, n - 1) = SubSeq(v, 3, n - 1)
  BY <1>2, <1>3, <1>4, <1>6
<1> QED
  BY <1>5, <1>6 DEF Vectors

LEMMA InitInv == Init => IInv
<1> SUFFICES ASSUME Init PROVE IInv
  OBVIOUS
<1>1. N \in Nat \ {0, 1} /\ rho \in Nat \ {0} /\ Scale \in Nat \ {0} /\ Scale % rho = 0
  BY IterationAssumption
<1>2. unit \in Nat \ {0} /\ Scale = rho * unit
  <2>1. unit = Scale \div rho
    BY DEF Init
  <2>2. Scale = (rho * (Scale \div rho)) + (Scale % rho)
    BY <1>1
  <2>3. Scale \div rho \in Nat
    BY <1>1
  <2> QED
    BY <1>1, <2>1, <2>2, <2>3
<1>3. Precision
  <2>1. Scale = (rho * unit) * 1
    BY <1>1, <1>2
  <2> QED
    BY <1>2, <2>1 DEF Precision, Multiples
<1>4. \A a \in Area : StartVector(a) \in Vectors(RequestLength(a), rho * unit)
  BY <1>3, StartIs DEF Precision
<1>5. NumbersOf(stored, unit)
  <2>1. \A n \in Nat : \A v : v \in Vectors(n, rho * unit) /\ n >= 2 * N
          => /\ FirstOf(v, N) \in Vectors(N, rho * unit) /\ LastOf(v, N) \in Vectors(N, rho * unit)
             /\ SubSeq(v, N + 1, 2 * N) \in Vectors(N, rho * unit)
    BY <1>1 DEF Vectors, FirstOf, LastOf
  <2>2. \A a \in Area : RequestLength(a) \in Nat /\ RequestLength(a) >= 2 * N
    BY <1>1 DEF RequestLength
  <2>3. \A v : v \in Vectors(N, rho * unit) => v \in Vectors(N, unit)
    BY <1>1, <1>2, FinerVectors
  <2>4. 0 \in Area /\ 1 \in Area /\ 2 \in Area
    BY DEF Area
  <2>5. \A a \in Area : /\ FirstOf(StartVector(a), N) \in Vectors(N, rho * unit)
                        /\ LastOf(StartVector(a), N) \in Vectors(N, rho * unit)
                        /\ SubSeq(StartVector(a), N + 1, 2 * N) \in Vectors(N, rho * unit)
    BY <1>4, <2>1, <2>2
  <2>6. stored = FirstStored
    BY DEF Init
  <2>7. /\ FirstStored.z12 \in Vectors(N, unit) /\ FirstStored.z13 \in Vectors(N, unit)
        /\ FirstStored.lambda_121 \in Duals(unit) /\ FirstStored.lambda_131 \in Duals(unit)
        /\ FirstStored.lambda_122 \in Duals(unit) /\ FirstStored.lambda_133 \in Duals(unit)
    BY <2>3, <2>4, <2>5 DEF FirstStored, Duals
  <2> QED
    BY <2>6, <2>7 DEF NumbersOf
<1>6. Requests
  <2>1. DOMAIN sent = Area /\ updates = 0 /\ \A a \in Area : sent[a] = Restamp(StartVector(a), 2)
    BY DEF Init
  <2>2. ASSUME NEW a \in Area PROVE sent[a] \in Vectors(RequestLength(a), unit)
    <3>1. RequestLength(a) \in Nat /\ RequestLength(a) > 0
      BY <1>1 DEF RequestLength
    <3>2. StartVector(a) \in Vectors(RequestLength(a), unit)
      BY <1>1, <1>2, <1>4, FinerVectors
    <3> QED
      BY <1>2, <1>3, <2>1, <3>1, <3>2, RestampIs DEF Precision
  <2> QED
    BY <2>1, <2>2 DEF Requests
<1> QED
  BY <1>3, <1>5, <1>6 DEF Init, IInv, Counts, Responses, OnlyPartnersFail, DualsBalance

LEMMA ResendPreviousStep == IInv /\ ResendPrevious => IInv'
<1> SUFFICES ASSUME IInv, ResendPrevious PROVE IInv'
  OBVIOUS
<1>1. /\ ~failed /\ current_round' = current_round + 1
      /\ sent' = [a \in Area |-> Restamp(sent[a], current_round + 1)]
      /\ UNCHANGED <<stored, responded, slots, late, updates, failed, unit>>
  BY DEF ResendPrevious
<1>2. Precision /\ NumbersOf(stored, unit) /\ Requests /\ DualsBalance
      /\ current_round \in Nat /\ updates \in Nat
  BY <1>1 DEF IInv, Counts
<1>3. ASSUME NEW a \in Area
      PROVE  /\ sent'[a] \in Vectors(RequestLength(a), unit)
             /\ Received(a)' = Received(a)
  <2>1. RequestLength(a) \in Nat /\ RequestLength(a) > 2
    BY IterationAssumption DEF RequestLength
  <2>2. sent[a] \in Vectors(RequestLength(a), unit) /\ sent'[a] = Restamp(sent[a], current_round + 1)
    BY <1>1, <1>2 DEF Requests
  <2>3. /\ sent'[a] \in Vectors(RequestLength(a), unit)
        /\ SubSeq(sent'[a], 3, RequestLength(a) - 1) = SubSeq(sent[a], 3, RequestLength(a) - 1)
    <3>1. current_round + 1 \in Nat /\ unit \in Nat /\ Scale \in Multiples(rho * unit)
      BY <1>2 DEF Precision
    <3> DEFINE n == RequestLength(a)
               r == current_round + 1
    <3> HIDE DEF n, r
    <3>2. n \in Nat /\ n > 0 /\ n > 2 /\ r \in Nat /\ sent[a] \in Vectors(n, unit)
          /\ sent'[a] = Restamp(sent[a], r)
      BY <2>1, <2>2, <3>1 DEF n, r
    <3>3. /\ Restamp(sent[a], r) \in Vectors(n, unit)
          /\ n > 2 => SubSeq(Restamp(sent[a], r), 3, n - 1) = SubSeq(sent[a], 3, n - 1)
      BY <3>1, <3>2, RestampIs
    <3> QED
      BY <3>2, <3>3 DEF n
  <2>4. Len(sent[a]) = RequestLength(a) /\ Len(sent'[a]) = RequestLength(a)
    BY <2>2, <2>3 DEF Vectors
  <2> QED
    BY <2>3, <2>4 DEF Received
<1>4. Requests'
  BY <1>1, <1>2, <1>3 DEF Requests
<1> QED
  BY <1>1, <1>2, <1>4 DEF IInv, Counts, Responses, Precision, NumbersOf, DualsBalance,
                          OnlyPartnersFail

\* A reset comes before any update, so the requests have only to be well formed.
LEMMA ResendInitialStep == IInv /\ ResendInitial => IInv'
<1> SUFFICES ASSUME IInv, ResendInitial PROVE IInv'
  OBVIOUS
<1>1. PICK heard \in SUBSET Area :
        responded \cup heard # Area /\ responded' = responded \cup heard
  BY DEF ResendInitial, Collect
<1>2. /\ ~failed /\ current_round' = current_round + 1
      /\ sent' = [a \in Area |-> Restamp(StartVector(a), current_round + 1)]
      /\ UNCHANGED <<stored, slots, late, updates, failed, unit>>
  BY DEF ResendInitial
<1>3. Precision /\ NumbersOf(stored, unit) /\ DualsBalance /\ Counts /\ Responses
  BY <1>2 DEF IInv
<1>4. updates = 0 /\ Responses'
  BY <1>1, <1>2, <1>3 DEF Responses, Counts
<1>5. unit \in Nat /\ Scale \in Multiples(rho * unit) /\ current_round + 1 \in Nat
  BY <1>3 DEF Precision, Counts
<1>6. ASSUME NEW a \in Area PROVE sent'[a] \in Vectors(RequestLength(a), unit)
  <2> DEFINE n == RequestLength(a)
             r == current_round + 1
             w == StartVector(a)
  <2>1. n \in Nat /\ n > 0
    BY IterationAssumption DEF RequestLength
  <2>2. w \in Vectors(n, rho * unit)
    BY <1>5, StartIs
  <2>3. sent'[a] = Restamp(w, r)
    BY <1>2
  <2> HIDE DEF n, r, w
  <2>4. w \in Vectors(n, unit)
    <3>1. rho \in Int /\ unit \in Int
      BY <1>5, IterationAssumption
    <3> QED
      BY <2>2, <3>1, FinerVectors
  <2>5. r \in Nat
    BY <1>5 DEF r
  <2>6. Restamp(w, r) \in Vectors(n, unit)
    BY <1>5, <2>1, <2>4, <2>5, RestampIs
  <2> QED
    BY <2>3, <2>6 DEF n
<1>7. Requests'
  BY <1>2, <1>4, <1>6 DEF Requests
<1> QED
  BY <1>2, <1>3, <1>4, <1>7 DEF IInv, Counts, Precision, NumbersOf, DualsBalance, OnlyPartnersFail

----------------------------------------------------------------------------
(* An update                                                               *)

LEMMA SolutionIs ==
  ASSUME NEW u \in Nat, Scale \in Multiples(rho * u), NEW a \in Area, NEW x \in Solutions(a)
  PROVE  x \in Vectors(IF a = 0 THEN 2 * N ELSE N, u)
<1> DEFINE n == IF a = 0 THEN 2 * N ELSE N
<1>1. n \in Nat
  BY IterationAssumption
<1>2. PICK w \in XValues : x = [i \in 1 .. n |-> Float((w * i) % 4)]
  BY DEF Solutions
<1>3. \A i \in 1 .. n : Float((w * i) % 4) \in Multiples(u)
  <2> TAKE i \in 1 .. n
  <2>1. w \in Nat
    BY IterationAssumption
  <2>2. (w * i) % 4 \in Int
    BY <1>1, <2>1
  <2> QED
    BY <2>2, Floats
<1> HIDE DEF n
<1> QED
  BY <1>1, <1>2, <1>3 DEF Vectors, n

\* What an area answered, without its header, is its solution; of a request
\* four numbers are missing.
LEMMA ErasedIs ==
  ASSUME NEW u \in Nat, Scale \in Multiples(rho * u), Counts, NEW a \in Area,
         sent[a] \in Vectors(RequestLength(a), u),
         NEW n \in Nat, NEW x \in Vectors(n, u)
  PROVE  /\ Erased(Answer(a, x)) = x
         /\ Erased(sent[a]) \in Vectors(RequestLength(a) - 4, u)
<1> DEFINE S == Multiples(u)
<1>1. Float(current_round) \in S /\ sent[a][2] \in S /\ 0 \in S
  <2>1. Float(current_round) \in S
    BY Floats DEF Counts
  <2>2. 2 \in 1 .. RequestLength(a)
    BY IterationAssumption DEF RequestLength
  <2>3. sent[a][2] \in S
    BY <2>2 DEF Vectors
  <2>4. 0 = u * 0 /\ 0 \in Int
    OBVIOUS
  <2> QED
    BY <2>1, <2>3, <2>4 DEF Multiples
<1>2. Erased(Answer(a, x)) = x
  <2> DEFINE h == <<Float(current_round), sent[a][2], 0, 0>>
  <2>1. h \in Seq(S) /\ Len(h) = 4 /\ x \in Seq(S)
    BY <1>1 DEF Vectors
  <2>2. Answer(a, x) = h \o x
    BY DEF Answer
  <2> HIDE DEF h, S
  <2>3. Erased(h \o x) = x
    BY <2>1, HeadedIs
  <2> QED
    BY <2>2, <2>3
<1>3. RequestLength(a) \in Nat /\ RequestLength(a) > 4
  BY IterationAssumption DEF RequestLength
<1>4. Erased(sent[a]) \in Vectors(RequestLength(a) - 4, u)
  BY <1>3 DEF Vectors, Erased
<1> QED
  BY <1>2, <1>4

\* What the server makes of the three vectors when their lengths agree.
LEMMA UpdateIs ==
  ASSUME NEW v \in Nat \ {0}, NEW u, u = 2 * v, NumbersOf(stored, u),
         NEW x1 \in Seq(Multiples(u)), NEW x2 \in Seq(Multiples(u)), NEW x3 \in Seq(Multiples(u)),
         LengthsAgree(x1, x2, x3),
         NEW l \in Seq({<<>>}), Len(l) = 9
  PROVE  NumbersOf(NewStore(l, x1, x2, x3), v) /\ Balanced(NewStore(l, x1, x2, x3))
<1> DEFINE b2 == FirstOf(x1, N)
           b3 == SubSeq(x1, N + 1, 2 * N)
           z12 == Consensus(b2, stored.lambda_121, x2, stored.lambda_122)
           z13 == Consensus(b3, stored.lambda_131, x3, stored.lambda_133)
           l21 == Ascent(stored.lambda_121, b2, z12)
           l22 == Ascent(stored.lambda_122, x2, z12)
           l31 == Ascent(stored.lambda_131, b3, z13)
           l33 == Ascent(stored.lambda_133, x3, z13)
<1>1. b2 \in Vectors(N, u) /\ b3 \in Vectors(N, u) /\ x2 \in Vectors(N, u) /\ x3 \in Vectors(N, u)
  <2>1. Len(x1) \in Nat /\ Len(x1) >= 2 * N /\ Len(x2) = N /\ Len(x3) = N /\ N \in Nat \ {0}
    BY IterationAssumption DEF LengthsAgree
  <2>2. b2 \in Seq(Multiples(u)) /\ Len(b2) = N /\ b3 \in Seq(Multiples(u)) /\ Len(b3) = N
    BY <2>1 DEF FirstOf
  <2> HIDE DEF b2, b3
  <2> QED
    BY <2>1, <2>2 DEF Vectors
<1>2. /\ stored.lambda_121 \in Duals(u) /\ stored.lambda_131 \in Duals(u)
      /\ stored.lambda_122 \in Duals(u) /\ stored.lambda_133 \in Duals(u)
  BY DEF NumbersOf
<1>3. Printed(x1, x2, x3) = <<z12, z13, l21, l22, l31, l33>>
  BY DEF Printed
<1>4. /\ z12 \in Vectors(N, v) /\ l21 \in Duals(v) /\ l22 \in Duals(v)
      /\ Opposite(l21, l22)
  <2>1. /\ z12 = Consensus(b2, stored.lambda_121, x2, stored.lambda_122)
        /\ l21 = Ascent(stored.lambda_121, b2, z12) /\ l22 = Ascent(stored.lambda_122, x2, z12)
    OBVIOUS
  <2> HIDE DEF b2, z12, l21, l22
  <2>2. /\ z12 \in Vectors(N, v)
        /\ Ascent(stored.lambda_121, b2, z12) \in Duals(v)
        /\ Ascent(stored.lambda_122, x2, z12) \in Duals(v)
        /\ Opposite(Ascent(stored.lambda_121, b2, z12), Ascent(stored.lambda_122, x2, z12))
    BY <1>1, <1>2, <2>1, Border
  <2> QED
    BY <2>1, <2>2
<1>5. /\ z13 \in Vectors(N, v) /\ l31 \in Duals(v) /\ l33 \in Duals(v)
      /\ Opposite(l31, l33)
  <2>1. /\ z13 = Consensus(b3, stored.lambda_131, x3, stored.lambda_133)
        /\ l31 = Ascent(stored.lambda_131, b3, z13) /\ l33 = Ascent(stored.lambda_133, x3, z13)
    OBVIOUS
  <2> HIDE DEF b3, z13, l31, l33
  <2>2. /\ z13 \in Vectors(N, v)
        /\ Ascent(stored.lambda_131, b3, z13) \in Duals(v)
        /\ Ascent(stored.lambda_133, x3, z13) \in Duals(v)
        /\ Opposite(Ascent(stored.lambda_131, b3, z13), Ascent(stored.lambda_133, x3, z13))
    BY <1>1, <1>2, <2>1, Border
  <2> QED
    BY <2>1, <2>2
<1> HIDE DEF b2, b3, z12, z13, l21, l22, l31, l33
<1>6. NewStore(l, x1, x2, x3) =
        [z12 |-> z12, z13 |-> z13, lambda_121 |-> l21, lambda_122 |-> l22,
         lambda_131 |-> l31, lambda_133 |-> l33]
  <2> DEFINE S == {<<>>, z12, z13, l21, l22, l31, l33}
  <2>1. l \in Seq(S) /\ Len(l) = 9
    BY SeqMonotonic
  <2>2. z12 \in S /\ z13 \in S /\ l21 \in S /\ l22 \in S /\ l31 \in S /\ l33 \in S
    OBVIOUS
  <2>3. NewStore(l, x1, x2, x3) = Read(LastSix(l \o Printed(x1, x2, x3)))
    BY DEF NewStore
  <2> HIDE DEF S
  <2> DEFINE w == LastSix(l \o <<z12, z13, l21, l22, l31, l33>>)
  <2>4. w[1] = z12 /\ w[2] = z13 /\ w[3] = l21 /\ w[4] = l22 /\ w[5] = l31 /\ w[6] = l33
    BY ONLY <2>1, <2>2 DEF LastSix, LastOf
  <2>5. NewStore(l, x1, x2, x3) = Read(w)
    BY <1>3, <2>3
  <2> HIDE DEF w
  <2> QED
    BY <2>4, <2>5 DEF Read
<1> DEFINE new == NewStore(l, x1, x2, x3)
<1> HIDE DEF new
<1>7. /\ new.z12 = z12 /\ new.z13 = z13 /\ new.lambda_121 = l21 /\ new.lambda_122 = l22
      /\ new.lambda_131 = l31 /\ new.lambda_133 = l33
  BY <1>6 DEF new
<1>8. NumbersOf(new, v) /\ Balanced(new)
  BY <1>4, <1>5, <1>7 DEF NumbersOf, Balanced
<1> QED
  BY <1>8 DEF new

LEMMA SentIs ==
  ASSUME NEW u \in Nat, Scale \in Multiples(rho * u), NEW s, NumbersOf(s, u),
         NEW r \in Nat, NEW a \in Area, NEW v, v = VecToSend(a, s, r)
  PROVE  /\ v \in Vectors(RequestLength(a), u)
         /\ SubSeq(v, 3, Len(v) - 1) = VecToConcat(a, s)
<1> DEFINE S == Multiples(u)
           w == VecToConcat(a, s)
<1>1. Float(r) \in S /\ Float(a) \in S /\ Float(rho) \in S
  BY Floats, IterationAssumption DEF Area
<1>2. w \in Seq(S) /\ Len(w) = RequestLength(a) - 3
  BY ConcatLength DEF Vectors
<1>3. v = <<Float(r), Float(a)>> \o w \o <<Float(rho)>>
  BY DEF VecToSend
<1> HIDE DEF S, w
<1>4. /\ v \in Seq(S) /\ Len(v) = Len(w) + 3
      /\ SubSeq(v, 3, Len(v) - 1) = w
  BY <1>1, <1>2, <1>3, FramedIs
<1>5. RequestLength(a) \in Nat
  BY IterationAssumption DEF RequestLength
<1> QED
  BY <1>2, <1>4, <1>5 DEF Vectors, S, w

\* A vector is what the area answered, or its erased request when it was late.
LEMMA VectorIs ==
  ASSUME NEW u \in Nat, Scale \in Multiples(rho * u), Counts,
         \A a \in Area : sent[a] \in Vectors(RequestLength(a), u),
         NEW x1 \in Solutions(0), NEW x2 \in Solutions(1), NEW x3 \in Solutions(2),
         NEW without,
         NEW w0, w0 = Erased(IF 0 \in without THEN sent[0] ELSE Answer(0, x1)),
         NEW w1, w1 = Erased(IF 1 \in without THEN sent[1] ELSE Answer(1, x2)),
         NEW w2, w2 = Erased(IF 2 \in without THEN sent[2] ELSE Answer(2, x3))
  PROVE  /\ LengthsAgree(w0, w1, w2) <=> without \cap {1, 2} = {}
         /\ LengthsAgree(w0, w1, w2) =>
              /\ \E n \in Nat : n >= 2 * N /\ w0 \in Vectors(n, u)
              /\ w1 \in Vectors(N, u) /\ w2 \in Vectors(N, u)
<1>1. N \in Nat \ {0, 1} /\ 0 \in Area /\ 1 \in Area /\ 2 \in Area
  BY IterationAssumption DEF Area
<1>2. x1 \in Vectors(2 * N, u) /\ x2 \in Vectors(N, u) /\ x3 \in Vectors(N, u)
  BY <1>1, SolutionIs
<1>3. /\ RequestLength(0) = 4 * N + 3 /\ RequestLength(1) = 2 * N + 3 /\ RequestLength(2) = 2 * N + 3
      /\ 2 * N \in Nat
  BY <1>1 DEF RequestLength
<1> DEFINE m == 2 * N
<1>4. /\ Erased(Answer(0, x1)) = x1
      /\ Erased(sent[0]) \in Vectors(RequestLength(0) - 4, u)
  <2> HIDE DEF m
  <2>1. m \in Nat /\ x1 \in Vectors(m, u)
    BY <1>2, <1>3 DEF m
  <2> QED
    BY <1>1, <2>1, ErasedIs
<1>5. /\ Erased(Answer(1, x2)) = x2
      /\ Erased(sent[1]) \in Vectors(RequestLength(1) - 4, u)
  BY <1>1, <1>2, ErasedIs
<1>6. /\ Erased(Answer(2, x3)) = x3
      /\ Erased(sent[2]) \in Vectors(RequestLength(2) - 4, u)
  BY <1>1, <1>2, ErasedIs
<1>7. \E n \in Nat : n >= 2 * N /\ w0 \in Vectors(n, u)
  <2>1. CASE 0 \in without
    <3>1. w0 \in Vectors(4 * N - 1, u)
      BY <1>1, <1>3, <1>4, <2>1
    <3>2. 4 * N - 1 \in Nat /\ 4 * N - 1 >= 2 * N
      BY <1>1
    <3> QED
      BY <3>1, <3>2
  <2>2. CASE 0 \notin without
    BY <1>1, <1>2, <1>4, <2>2
  <2> QED
    BY <2>1, <2>2
<1>8. Len(w0) >= 2 * N
  BY <1>7 DEF Vectors
<1>9. /\ 1 \notin without => w1 \in Vectors(N, u)
      /\ 1 \in without => Len(w1) # N
  BY <1>1, <1>2, <1>3, <1>5 DEF Vectors
<1>10. /\ 2 \notin without => w2 \in Vectors(N, u)
       /\ 2 \in without => Len(w2) # N
  BY <1>1, <1>2, <1>3, <1>6 DEF Vectors
<1>11. \A v : v \in Vectors(N, u) => Len(v) = N
  BY DEF Vectors
<1>12. Len(w1) = N <=> 1 \notin without
  BY <1>9, <1>11
<1>13. Len(w2) = N <=> 2 \notin without
  BY <1>10, <1>11
<1>14. LengthsAgree(w0, w1, w2) <=> 1 \notin without /\ 2 \notin without
  BY <1>8, <1>12, <1>13 DEF LengthsAgree
<1>15. without \cap {1, 2} = {} <=> 1 \notin without /\ 2 \notin without
  OBVIOUS
<1> QED
  BY <1>7, <1>9, <1>10, <1>14, <1>15

LEMMA CalculateStep == IInv /\ Calculate => IInv'
<1> SUFFICES ASSUME IInv, Calculate PROVE IInv'
  OBVIOUS
<1>1. PICK x \in Found, without \in SUBSET responded :
        Collect(x, Area \ without) /\ CalculateAndSendDataBackToAreas(x, without)
  BY DEF Calculate
<1> DEFINE x1 == x[1]
           x2 == x[2]
           x3 == x[3]
<1>0. x1 \in Solutions(0) /\ x2 \in Solutions(1) /\ x3 \in Solutions(2)
  BY DEF Found
<1>2. ~failed /\ unit % 2 = 0
  BY DEF Calculate
<1>3. Precision /\ NumbersOf(stored, unit) /\ Requests /\ Counts
  BY <1>2 DEF IInv
<1> DEFINE w0 == Erased(IF 0 \in without THEN sent[0] ELSE Answer(0, x1))
           w1 == Erased(IF 1 \in without THEN sent[1] ELSE Answer(1, x2))
           w2 == Erased(IF 2 \in without THEN sent[2] ELSE Answer(2, x3))
           lengths == [i \in 1 .. 9 |-> <<>>]
           new == Read(LastSix(lengths \o Printed(w0, w1, w2)))
<1>4. /\ late' = without /\ updates' = updates + 1 /\ current_round' = current_round + 1
      /\ unit' = unit \div 2
      /\ IF LengthsAgree(w0, w1, w2)
         THEN /\ stored' = new
              /\ sent' = [a \in Area |-> VecToSend(a, new, current_round + 1)]
              /\ UNCHANGED failed
         ELSE failed' = TRUE /\ UNCHANGED <<stored, sent>>
  <2> DEFINE vector == [a \in Area |-> Erased(IF a \in without THEN sent[a] ELSE Answer(a, x[a + 1]))]
  <2>2. vector[0] = w0 /\ vector[1] = w1 /\ vector[2] = w2
    BY DEF Area
  <2>3. LET n == Read(LastSix(lengths \o Printed(vector[0], vector[1], vector[2])))
        IN /\ late' = without /\ updates' = updates + 1 /\ current_round' = current_round + 1
           /\ unit' = unit \div 2
           /\ IF LengthsAgree(vector[0], vector[1], vector[2])
              THEN /\ stored' = n
                   /\ sent' = [a \in Area |-> VecToSend(a, n, current_round + 1)]
                   /\ UNCHANGED failed
              ELSE failed' = TRUE /\ UNCHANGED <<stored, sent>>
    BY <1>1 DEF CalculateAndSendDataBackToAreas
  <2> HIDE DEF vector, w0, w1, w2
  <2> QED
    BY <2>2, <2>3
<1> DEFINE v == unit \div 2
<1>5. unit \in Nat \ {0} /\ v \in Nat \ {0} /\ unit = 2 * v
  BY <1>2, <1>3 DEF Precision
<1>6. Scale \in Multiples(rho * unit) /\ Scale \in Multiples(rho * v)
  <2>1. rho \in Nat /\ v \in Int
    BY <1>5, IterationAssumption
  <2>2. Scale \in Multiples(rho * unit)
    BY <1>3 DEF Precision
  <2>3. rho * unit = 2 * (rho * v)
    BY <1>5, <2>1
  <2>4. rho * v \in Int
    BY <2>1
  <2>5. Multiples(2 * (rho * v)) \subseteq Multiples(rho * v)
    BY <2>4, Finer
  <2> QED
    BY <2>2, <2>3, <2>5
<1> HIDE DEF v
<1>7. \A a \in Area : sent[a] \in Vectors(RequestLength(a), unit)
  BY <1>3 DEF Requests
<1>8. /\ LengthsAgree(w0, w1, w2) <=> without \cap {1, 2} = {}
      /\ LengthsAgree(w0, w1, w2) =>
           /\ \E n \in Nat : n >= 2 * N /\ w0 \in Vectors(n, unit)
           /\ w1 \in Vectors(N, unit) /\ w2 \in Vectors(N, unit)
  <2> HIDE DEF x1, x2, x3
  <2> QED
    BY <1>0, <1>3, <1>5, <1>6, <1>7, VectorIs
<1> HIDE DEF x1, x2, x3, w0, w1, w2, lengths
<1>9. Counts' /\ Responses'
  <2>1. responded \subseteq Area /\ responded' = responded \cup (Area \ without)
    BY <1>1 DEF IInv, Responses, Collect
  <2> QED
    BY <1>3, <1>4, <2>1 DEF Counts, Responses
<1>10. OnlyPartnersFail'
  BY <1>2, <1>4, <1>8 DEF OnlyPartnersFail
<1>11. ASSUME ~failed'
       PROVE  (Precision /\ NumbersOf(stored, unit) /\ Requests /\ DualsBalance)'
  <2>1. /\ LengthsAgree(w0, w1, w2)
        /\ stored' = new /\ sent' = [a \in Area |-> VecToSend(a, new, current_round + 1)]
    BY <1>4, <1>11
  <2> HIDE DEF new
  <2>2. PICK n \in Nat : n >= 2 * N /\ w0 \in Vectors(n, unit)
    BY <1>8, <2>1
  <2>3. lengths \in Seq({<<>>}) /\ Len(lengths) = 9
    BY DEF lengths
  <2>4. new = NewStore(lengths, w0, w1, w2)
    BY DEF new, NewStore
  <2>5. NumbersOf(new, v) /\ Balanced(new)
    <3>1. /\ NumbersOf(stored, unit)
          /\ w0 \in Seq(Multiples(unit)) /\ w1 \in Seq(Multiples(unit)) /\ w2 \in Seq(Multiples(unit))
      BY <1>3, <1>8, <2>1, <2>2 DEF Vectors
    <3> QED
      BY <1>5, <2>1, <2>3, <2>4, <3>1, UpdateIs
  <2>6. unit' = v
    BY <1>4 DEF v
  <2>7. Precision'
    BY <1>5, <1>6, <2>6 DEF Precision
  <2>8. NumbersOf(stored, unit)'
    BY <2>1, <2>5, <2>6 DEF NumbersOf
  <2>9. DualsBalance'
    BY <2>1, <2>5 DEF DualsBalance, Balanced, Opposite
  <2>10. Requests'
    <3> DEFINE r == current_round + 1
    <3>1. r \in Nat
      BY <1>3 DEF Counts
    <3> HIDE DEF r
    <3>2. DOMAIN sent' = Area /\ \A a \in Area : sent'[a] = VecToSend(a, new, r)
      BY <2>1 DEF r
    <3>3. \A a \in Area :
            /\ sent'[a] \in Vectors(RequestLength(a), v)
            /\ SubSeq(sent'[a], 3, Len(sent'[a]) - 1) = VecToConcat(a, new)
      <4> TAKE a \in Area
      <4>1. v \in Nat
        BY <1>5
      <4> DEFINE w == VecToSend(a, new, r)
      <4>2. w = VecToSend(a, new, r)
        OBVIOUS
      <4> HIDE DEF w
      <4>3. w \in Vectors(RequestLength(a), v) /\ SubSeq(w, 3, Len(w) - 1) = VecToConcat(a, new)
        BY <1>6, <2>5, <3>1, <4>1, <4>2, SentIs
      <4> QED
        BY <3>2, <4>2, <4>3
    <3>4. \A a \in Area : Received(a)' = VecToConcat(a, stored)'
      BY <2>1, <3>3 DEF Received, VecToConcat
    <3> QED
      BY <2>6, <3>2, <3>3, <3>4 DEF Requests
  <2> QED
    BY <2>7, <2>8, <2>9, <2>10
<1> QED
  BY <1>9, <1>10, <1>11 DEF IInv

----------------------------------------------------------------------------
(* The theorems                                                            *)

LEMMA Step == IInv /\ [Next]_iterationVars => IInv'
<1>1. IInv /\ UNCHANGED iterationVars => IInv'
  BY DEF IInv, Counts, Responses, OnlyPartnersFail, Precision, NumbersOf, Requests, DualsBalance, Received,
         iterationVars
<1> QED
  BY <1>1, CalculateStep, ResendInitialStep, ResendPreviousStep DEF Next

LEMMA Invariant == Spec => []IInv
BY InitInv, Step, PTL DEF Spec

\* A round without area 2 or 3 is the only thing the update stops at: requests
\* of their length are never taken for answers, area 1's always are.
THEOREM FailHolds == Spec => []OnlyPartnersFail
<1>1. IInv => OnlyPartnersFail
  BY DEF IInv
<1> QED
  BY <1>1, Invariant, PTL

\* In exact arithmetic no history of answers, resends and late areas lets the two
\* duals of a border differ by more than their sign.
THEOREM DualsHold == Spec => []DualsBalance
<1>1. IInv => DualsBalance
  BY DEF IInv, DualsBalance
<1> QED
  BY <1>1, Invariant, PTL

\* Whatever is resent, restamped or calculated, an area cuts out of its request
\* what the server has stored for it.
THEOREM StoredUsed == Spec => []AreasUseStoredVectors
<1>1. IInv => AreasUseStoredVectors
  <2> SUFFICES ASSUME IInv, updates > 0, ~failed, NEW a \in Area
               PROVE  Pieces(a) = Dual(stored, a)
    BY DEF AreasUseStoredVectors
  <2>1. NumbersOf(stored, unit) /\ unit \in Nat /\ Received(a) = VecToConcat(a, stored)
    BY DEF IInv, Precision, Requests
  <2>2. WrapVector(VecToConcat(a, stored), IF a = 0 THEN 4 ELSE 2) = Dual(stored, a)
    BY <2>1, ConcatLength
  <2> QED
    BY <2>1, <2>2 DEF Pieces
<1> QED
  BY <1>1, Invariant, PTL
=============================================================================
