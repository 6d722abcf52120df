-------------------------- MODULE SchedulersProofs --------------------------
(***************************************************************************)
(* The properties of Schedulers: both event lists and the change between   *)
(* them implement the abstract event list, for any number of events, times *)
(* and buckets.                                                            *)
(***************************************************************************)
EXTENDS Schedulers, FiniteSetTheorems, SequenceTheorems, TLAPS

----------------------------------------------------------------------------
(* Induction and loops                                                     *)

\* The intervals up to the elements of T are finite sets, of which one is minimal.
LEMMA LeastNatural ==
  ASSUME NEW T \in SUBSET Nat, T # {}
  PROVE  \E x \in T : \A y \in T : x <= y
<1> DEFINE R == StrictSubsetOrdering(Nat)
           F == {0 .. m : m \in T}
<1>1. IsWellFoundedOn(R, FiniteSubsetsOf(Nat))
  BY FS_StrictSubsetOrderingWellFounded
<1>2. R = {ss \in (SUBSET Nat) \X (SUBSET Nat) : ss[1] \subseteq ss[2] /\ ss[1] # ss[2]}
  BY DEF StrictSubsetOrdering
<1>3. F \subseteq FiniteSubsetsOf(Nat) /\ F # {}
  <2>1. \A m \in T : 0 .. m \in SUBSET Nat /\ IsFiniteSet(0 .. m)
    BY FS_Interval
  <2> QED
    BY <2>1 DEF FiniteSubsetsOf
<1>4. F = {0 .. m : m \in T}
  OBVIOUS
<1> HIDE DEF R, F
<1>5. PICK u \in F : \A v \in F : <<v, u>> \notin R
  BY <1>1, <1>3, WFMin
<1>6. PICK x \in T : u = 0 .. x
  BY <1>4
<1>7. ASSUME NEW y \in T, y < x PROVE FALSE
  <2>1. 0 .. y \in F
    BY <1>4
  <2>2. 0 .. y \subseteq 0 .. x /\ x \in 0 .. x /\ x \notin 0 .. y
    BY <1>7
  <2>3. 0 .. y \in SUBSET Nat /\ u \in SUBSET Nat /\ 0 .. y # u
    BY <1>6, <2>2
  <2>4. <<0 .. y, u>> \in R
    BY <1>2, <1>6, <2>2, <2>3
  <2> QED
    BY <1>5, <2>1, <2>4
<1> QED
  BY <1>7

\* Induction for whatever can be written as a set of numbers.
LEMMA SetInduction ==
  ASSUME NEW T, 0 \in T, \A n \in Nat : n \in T => n + 1 \in T
  PROVE  Nat \subseteq T
<1> SUFFICES ASSUME Nat \ T # {} PROVE FALSE
  OBVIOUS
<1>1. PICK x \in Nat \ T : \A y \in Nat \ T : x <= y
  <2> DEFINE U == Nat \ T
  <2>1. U \in SUBSET Nat /\ U # {}
    OBVIOUS
  <2> HIDE DEF U
  <2>2. \E x \in U : \A y \in U : x <= y
    BY <2>1, LeastNatural
  <2> QED
    BY <2>2 DEF U
<1>2. x - 1 \in Nat /\ x - 1 \in T
  BY <1>1
<1> QED
  BY <1>1, <1>2

\* s as a function does what turn k of a loop does to y, and takes D[k - 1] to D[k].
Closed(n, D, s) == \A k \in 1 .. n : \A y \in D[k - 1] : s[<<k, y>>] \in D[k]

\* r[k] is what k turns make of x.
Runs(n, x, s, r) == r = [k \in 0 .. n |-> IF k = 0 THEN x ELSE s[<<k, r[k - 1]>>]]

Stays(n, D, r) == \A k \in 0 .. n : r[k] \in D[k]

Keeps(n, D, r) == r[0] \in D[0] /\ \A k \in 1 .. n : r[k - 1] \in D[k - 1] => r[k] \in D[k]

\* The function a loop is defined by exists.
LEMMA Turns ==
  ASSUME NEW n \in Nat, NEW D, NEW s, NEW x, x \in D[0], Closed(n, D, s)
  PROVE  \E r : Runs(n, x, s, r) /\ Stays(n, D, r)
<1> DEFINE P(m, r) == r = [k \in 0 .. m |-> IF k = 0 THEN x ELSE s[<<k, r[k - 1]>>]]
                      /\ Stays(m, D, r)
           T == {m \in Nat : m <= n => \E r : P(m, r)}
<1>1. 0 \in T
  <2>1. P(0, [k \in 0 .. 0 |-> x])
    BY DEF Stays
  <2> QED
    BY <2>1
<1>2. ASSUME NEW m \in Nat, m \in T PROVE m + 1 \in T
  <2> SUFFICES ASSUME m + 1 <= n PROVE \E r : P(m + 1, r)
    OBVIOUS
  <2>1. PICK r : P(m, r)
    BY <1>2
  <2> DEFINE t == [k \in 0 .. m + 1 |-> IF k <= m THEN r[k] ELSE s[<<m + 1, r[m]>>]]
  <2>2. \A k \in 0 .. m : t[k] = r[k]
    OBVIOUS
  <2>3. t[m + 1] = s[<<m + 1, r[m]>>]
    OBVIOUS
  <2>4. \A k \in 0 .. m : r[k] = IF k = 0 THEN x ELSE s[<<k, r[k - 1]>>]
    BY <2>1
  <2>5. t = [k \in 0 .. m + 1 |-> t[k]]
    OBVIOUS
  <2> HIDE DEF t
  <2>6. \A k \in 0 .. m + 1 : t[k] = IF k = 0 THEN x ELSE s[<<k, t[k - 1]>>]
    <3> SUFFICES ASSUME NEW k \in 0 .. m + 1
                 PROVE  t[k] = IF k = 0 THEN x ELSE s[<<k, t[k - 1]>>]
      OBVIOUS
    <3>1. CASE k = m + 1
      <4>1. t[k - 1] = r[m]
        BY <2>2, <3>1
      <4> QED
        BY <2>3, <3>1, <4>1
    <3>2. CASE k \in 0 .. m
      <4>1. k # 0 => t[k - 1] = r[k - 1]
        BY <2>2, <3>2
      <4>2. t[k] = r[k] /\ r[k] = IF k = 0 THEN x ELSE s[<<k, r[k - 1]>>]
        BY <2>2, <2>4, <3>2
      <4> QED
        BY <4>1, <4>2
    <3> QED
      BY <3>1, <3>2
  <2>7. Stays(m + 1, D, t)
    <3>1. r[m] \in D[m] /\ m + 1 \in 1 .. n /\ (m + 1) - 1 = m
      BY <2>1 DEF Stays
    <3>2. s[<<m + 1, r[m]>>] \in D[m + 1]
      BY <3>1 DEF Closed
    <3> SUFFICES ASSUME NEW k \in 0 .. m + 1 PROVE t[k] \in D[k]
      BY DEF Stays
    <3>3. CASE k = m + 1
      BY <2>3, <3>2, <3>3
    <3>4. CASE k \in 0 .. m
      BY <2>1, <2>2, <3>4 DEF Stays
    <3> QED
      BY <3>3, <3>4
  <2>8. P(m + 1, t)
    BY <2>5, <2>6, <2>7
  <2> QED
    BY <2>8
<1> HIDE DEF T
<1>3. Nat \subseteq T
  BY <1>1, <1>2, SetInduction
<1>4. n \in T
  BY <1>3
<1> QED
  BY <1>4 DEF T, Runs

\* What each turn keeps holds after all of them.
LEMMA Kept ==
  ASSUME NEW n \in Nat, NEW D, NEW r, Keeps(n, D, r)
  PROVE  r[n] \in D[n]
<1> DEFINE T == {m \in Nat : m <= n => r[m] \in D[m]}
<1>1. 0 \in T
  BY DEF Keeps
<1>2. ASSUME NEW m \in Nat, m \in T PROVE m + 1 \in T
  <2> SUFFICES ASSUME m + 1 <= n PROVE r[m + 1] \in D[m + 1]
    OBVIOUS
  <2>1. m + 1 \in 1 .. n /\ (m + 1) - 1 = m /\ r[m] \in D[m]
    BY <1>2
  <2> QED
    BY <2>1 DEF Keeps
<1> HIDE DEF T
<1>3. Nat \subseteq T
  BY <1>1, <1>2, SetInduction
<1> QED
  BY <1>3 DEF T

----------------------------------------------------------------------------
(* The order of events                                                     *)

Keys == [ts : Nat, uid : Nat]

\* Keys are totally ordered.
LEMMA Ordered ==
  ASSUME NEW a \in Keys, NEW b \in Keys
  PROVE  /\ a = b \/ Less(a, b) \/ Less(b, a)
         /\ ~(Less(a, b) /\ Less(b, a))
         /\ ~Less(a, a)
         /\ \A c \in Keys : Less(a, b) /\ Less(b, c) => Less(a, c)
BY DEF Less, Keys

\* Of any events one is the earliest.
LEMMA Earliest ==
  ASSUME NEW S \in SUBSET Keys, S # {}
  PROVE  \E e \in S : \A f \in S \ {e} : Less(e, f)
<1> DEFINE T == {e.ts : e \in S}
<1>1. T \in SUBSET Nat /\ T # {}
  BY DEF Keys
<1>2. PICK t \in T : \A y \in T : t <= y
  <2> HIDE DEF T
  <2> QED
    BY <1>1, LeastNatural
<1> DEFINE U == {e.uid : e \in {f \in S : f.ts = t}}
<1>3. U \in SUBSET Nat /\ U # {}
  BY DEF Keys
<1>4. PICK u \in U : \A y \in U : u <= y
  <2> HIDE DEF U
  <2> QED
    BY <1>3, LeastNatural
<1>5. PICK e \in S : e.ts = t /\ e.uid = u
  OBVIOUS
<1>6. ASSUME NEW f \in S \ {e} PROVE Less(e, f)
  <2>1. f.ts \in T /\ (f.ts = t => f.uid \in U)
    OBVIOUS
  <2>2. t <= f.ts /\ (f.ts = t => u <= f.uid)
    BY <1>2, <1>4, <2>1
  <2>3. e \in Keys /\ f \in Keys /\ e # f
    OBVIOUS
  <2> HIDE DEF T, U
  <2> QED
    BY <1>5, <2>2, <2>3 DEF Less, Keys
<1> QED
  BY <1>6

----------------------------------------------------------------------------
(* The heap                                                                *)

\* No event is twice in h.
Distinct(h) == \A i, j \in 1 .. Len(h) : h[i] = h[j] => i = j

\* h is a list of the events of S, each of them once.
Lists(h, S) ==
  /\ h \in Seq(Keys)
  /\ Distinct(h)
  /\ \A i \in 1 .. Len(h) : h[i] \in S
  /\ \A e \in S : \E i \in 1 .. Len(h) : h[i] = e

\* No event is due before its parent.
InHeapOrder(h) == \A i \in 2 .. Len(h) : Less(h[i \div 2], h[i])

\* The heap compares events as EventKey does.
LEMMA HeapLess ==
  ASSUME NEW a, NEW b
  PROVE  Heap!Less(a, b) <=> Less(a, b)
BY DEF Heap!Less, Less

\* Every index but the root's lies right under a smaller one.
LEMMA ParentIs ==
  ASSUME NEW i \in Nat, i > 1
  PROVE  /\ i \div 2 \in 1 .. i - 1
         /\ i = 2 * (i \div 2) \/ i = 2 * (i \div 2) + 1
OBVIOUS

\* The indices under i.
LEMMA ChildrenAre ==
  ASSUME NEW i \in Nat \ {0}
  PROVE  /\ (2 * i) \div 2 = i
         /\ (2 * i + 1) \div 2 = i
OBVIOUS

\* g is the list h of the events of S with those at a and b exchanged.
Exchanged(h, S, a, b, g) ==
  /\ Lists(g, S) /\ Len(g) = Len(h)
  /\ g[a] = h[b] /\ g[b] = h[a]
  /\ \A i \in 1 .. Len(h) \ {a, b} : g[i] = h[i]

\* Exch moves two events and nothing else.
LEMMA ExchIs ==
  ASSUME NEW h, NEW S, Lists(h, S), NEW a \in 1 .. Len(h), NEW b \in 1 .. Len(h), a # b
  PROVE  Exchanged(h, S, a, b, Heap!Exch(h, a, b))
<1> DEFINE g == [h EXCEPT ![a] = h[b], ![b] = h[a]]
<1>1. h \in Seq(Keys) /\ h[a] \in Keys /\ h[b] \in Keys
  BY DEF Lists
<1>2. g \in Seq(Keys) /\ Len(g) = Len(h)
  BY <1>1
<1>3. g[a] = h[b] /\ g[b] = h[a] /\ \A i \in 1 .. Len(h) \ {a, b} : g[i] = h[i]
  BY <1>1
<1> HIDE DEF g
<1>4. Distinct(g)
  BY <1>2, <1>3 DEF Distinct, Lists
<1>5. Lists(g, S)
  <2>1. \A i \in 1 .. Len(g) : g[i] \in S
    BY <1>2, <1>3 DEF Lists
  <2>2. \A e \in S : \E i \in 1 .. Len(g) : g[i] = e
    <3> SUFFICES ASSUME NEW e \in S PROVE \E i \in 1 .. Len(g) : g[i] = e
      OBVIOUS
    <3>1. PICK i \in 1 .. Len(h) : h[i] = e
      BY DEF Lists
    <3>2. CASE i = a
      BY <1>2, <1>3, <3>1, <3>2
    <3>3. CASE i = b
      BY <1>2, <1>3, <3>1, <3>3
    <3>4. CASE i \notin {a, b}
      BY <1>2, <1>3, <3>1, <3>4
    <3> QED
      BY <3>2, <3>3, <3>4
  <2> QED
    BY <1>2, <1>4, <2>1, <2>2 DEF Lists
<1>6. Heap!Exch(h, a, b) = g
  BY DEF Heap!Exch, g
<1> QED
  BY <1>2, <1>3, <1>5, <1>6 DEF Exchanged

\* The heap on the way of the event at index at to the root: all events but that
\* one come after their parents, and those below it after its parent as well.
Rising(r, n, S) ==
  /\ r \in [heap : Seq(Keys), at : 1 .. n]
  /\ Lists(r.heap, S)
  /\ Len(r.heap) = n
  /\ \A j \in 2 .. n : j # r.at => Less(r.heap[j \div 2], r.heap[j])
  /\ r.at > 1 => \A j \in 2 .. n : j \div 2 = r.at => Less(r.heap[r.at \div 2], r.heap[j])

Risen(r) == r.at = 1 \/ ~Less(r.heap[r.at], r.heap[r.at \div 2])

\* A turn of BottomUp ends the way of the event or takes it up one level.
LEMMA RiseStep ==
  ASSUME NEW n \in Nat, NEW S, NEW k \in 1 .. n, NEW r,
         Rising(r, n, S), Risen(r) \/ r.at + (k - 1) <= n
  PROVE  /\ Rising(Heap!Rise(r, k), n, S)
         /\ Risen(Heap!Rise(r, k)) \/ Heap!Rise(r, k).at + k <= n
<1> DEFINE h == r.heap
           a == r.at
           p == a \div 2
<1>1. h \in Seq(Keys) /\ a \in 1 .. n /\ r = [heap |-> h, at |-> a] /\ Len(h) = n
      /\ Lists(h, S)
  BY DEF Rising
<1>2. Risen(r) => Heap!Rise(r, k) = r
  <2> SUFFICES ASSUME a = 1 \/ ~Less(h[a], h[p]) PROVE Heap!Rise(r, k) = r
    BY DEF Risen
  <2> QED
    BY HeapLess DEF Heap!Rise, Heap!IsLessStrictly, Heap!Parent
<1>3. CASE Risen(r)
  BY <1>2, <1>3
<1>4. CASE ~Risen(r)
  <2>1. a > 1 /\ Less(h[a], h[p])
    BY <1>1, <1>4 DEF Risen
  <2>2. p \in 1 .. a - 1 /\ (a = 2 * p \/ a = 2 * p + 1)
    BY <1>1, <2>1, ParentIs
  <2> DEFINE g == Heap!Exch(h, a, p)
  <2>3. Heap!Rise(r, k) = [heap |-> g, at |-> p]
    BY <1>1, <2>1, HeapLess DEF Heap!Rise, Heap!IsLessStrictly, Heap!Parent
  <2>4. /\ Lists(g, S) /\ Len(g) = n /\ g[a] = h[p] /\ g[p] = h[a]
        /\ \A i \in 1 .. n \ {a, p} : g[i] = h[i]
    <3>1. Lists(h, S) /\ a \in 1 .. Len(h) /\ p \in 1 .. Len(h) /\ a # p /\ Len(h) = n
      BY <1>1, <2>2
    <3> HIDE DEF h, a, p
    <3>2. Exchanged(h, S, a, p, g)
      BY <3>1, ExchIs
    <3> QED
      BY <3>1, <3>2 DEF Exchanged
  <2>5. g \in Seq(Keys)
    BY <2>4 DEF Lists
  <2>6. \A i \in 1 .. n : h[i] \in Keys
    BY <1>1
  <2>7. \A j \in 2 .. n : j # a => Less(h[j \div 2], h[j])
    BY DEF Rising
  <2>8. \A j \in 2 .. n : j \div 2 = a => Less(h[p], h[j])
    BY <2>1 DEF Rising
  <2>9. \A j \in 2 .. n : j \div 2 \in 1 .. j - 1
    BY ParentIs
  <2> HIDE DEF g, h, a
  <2>10. ASSUME NEW j \in 2 .. n, j # p PROVE Less(g[j \div 2], g[j])
    <3>1. j \div 2 \in 1 .. j - 1 /\ j \div 2 \in 1 .. n /\ j \in 1 .. n
      BY <2>9
    <3>2. CASE j = a
      BY <2>1, <2>4, <3>2
    <3>3. CASE j # a /\ j \div 2 = a
      <4>1. g[j \div 2] = h[p] /\ g[j] = h[j]
        BY <2>2, <2>4, <2>10, <3>1, <3>3
      <4> QED
        BY <2>8, <3>3, <4>1
    <3>4. CASE j # a /\ j \div 2 = p
      <4>1. g[j \div 2] = h[a] /\ g[j] = h[j]
        BY <2>4, <2>10, <3>1, <3>4
      <4>2. Less(h[p], h[j])
        BY <2>7, <3>4
      <4>3. h[a] \in Keys /\ h[p] \in Keys /\ h[j] \in Keys
        BY <1>1, <2>2, <2>6, <3>1
      <4> QED
        BY <2>1, <4>1, <4>2, <4>3, Ordered
    <3>5. CASE j # a /\ j \div 2 # a /\ j \div 2 # p
      <4>1. g[j \div 2] = h[j \div 2] /\ g[j] = h[j]
        BY <2>4, <2>10, <3>1, <3>5
      <4> QED
        BY <2>7, <3>5, <4>1
    <3> QED
      BY <3>2, <3>3, <3>4, <3>5
  <2>11. ASSUME p > 1, NEW j \in 2 .. n, j \div 2 = p PROVE Less(g[p \div 2], g[j])
    <3>1. p \in 2 .. n /\ p # a
      BY <1>1, <2>2, <2>11
    <3>2. p \div 2 \in 1 .. p - 1 /\ j \div 2 \in 1 .. j - 1
      BY <2>9, <3>1
    <3>3. g[p \div 2] = h[p \div 2] /\ Less(h[p \div 2], h[p])
      BY <2>2, <2>4, <2>7, <3>1, <3>2
    <3>4. CASE j = a
      BY <2>4, <3>3, <3>4
    <3>5. CASE j # a
      <4>1. g[j] = h[j] /\ Less(h[p], h[j])
        BY <2>4, <2>7, <2>11, <3>2, <3>5
      <4>2. h[p \div 2] \in Keys /\ h[p] \in Keys /\ h[j] \in Keys
        BY <2>2, <2>6, <3>1, <3>2
      <4> QED
        BY <3>3, <4>1, <4>2, Ordered
    <3> QED
      BY <3>4, <3>5
  <2>12. Rising([heap |-> g, at |-> p], n, S)
    BY <1>1, <2>2, <2>4, <2>5, <2>10, <2>11 DEF Rising
  <2>13. p + k <= n
    BY <1>1, <1>4, <2>2 DEF a
  <2> QED
    BY <2>3, <2>12, <2>13
<1> QED
  BY <1>3, <1>4

RisingAt(n, S, k) ==
  {r \in [heap : Seq(Keys), at : 1 .. n] : Rising(r, n, S) /\ (Risen(r) \/ r.at + k <= n)}

\* The new event rises until no event is due before its parent.
LEMMA BottomUpIs ==
  ASSUME NEW n \in Nat \ {0}, NEW S, NEW h, Len(h) = n, Rising([heap |-> h, at |-> n], n, S)
  PROVE  Lists(Heap!BottomUp(h), S) /\ InHeapOrder(Heap!BottomUp(h)) /\ Len(Heap!BottomUp(h)) = n
<1> DEFINE x == [heap |-> h, at |-> n]
           D == [k \in 0 .. n |-> RisingAt(n, S, k)]
           s == [z \in (1 .. n) \X [heap : Seq(Keys), at : 1 .. n] |-> Heap!Rise(z[2], z[1])]
           after == CHOOSE a : a = [k \in 0 .. n |-> IF k = 0 THEN x ELSE Heap!Rise(a[k - 1], k)]
<1>1. \A k \in 1 .. n : \A y \in D[k - 1] : s[<<k, y>>] = Heap!Rise(y, k) /\ Heap!Rise(y, k) \in D[k]
  <2> SUFFICES ASSUME NEW k \in 1 .. n, NEW y \in D[k - 1]
               PROVE  s[<<k, y>>] = Heap!Rise(y, k) /\ Heap!Rise(y, k) \in D[k]
    OBVIOUS
  <2>1. k - 1 \in 0 .. n /\ k \in 0 .. n /\ D[k - 1] = RisingAt(n, S, k - 1) /\ D[k] = RisingAt(n, S, k)
    OBVIOUS
  <2>2. y \in [heap : Seq(Keys), at : 1 .. n] /\ Rising(y, n, S) /\ (Risen(y) \/ y.at + (k - 1) <= n)
    BY <2>1 DEF RisingAt
  <2>3. s[<<k, y>>] = Heap!Rise(y, k)
    BY <2>2
  <2> HIDE DEF D, s
  <2> DEFINE w == Heap!Rise(y, k)
  <2>4. Rising(w, n, S) /\ (Risen(w) \/ w.at + k <= n)
    BY <2>2, RiseStep
  <2> HIDE DEF w
  <2>5. w \in RisingAt(n, S, k)
    BY <2>4 DEF RisingAt, Rising
  <2> QED
    BY <2>1, <2>3, <2>5 DEF w
<1>2. x \in D[0]
  BY DEF RisingAt, Rising
<1> HIDE DEF D, s, x
<1>3. PICK r : Runs(n, x, s, r) /\ Stays(n, D, r)
  <2>1. Closed(n, D, s)
    BY <1>1 DEF Closed
  <2> QED
    BY <1>2, <2>1, Turns
<1>4. r = [k \in 0 .. n |-> IF k = 0 THEN x ELSE Heap!Rise(r[k - 1], k)]
  BY <1>1, <1>3 DEF Runs, Stays
<1>5. after = [k \in 0 .. n |-> IF k = 0 THEN x ELSE Heap!Rise(after[k - 1], k)]
  BY <1>4, Zenon
<1>6. Heap!BottomUp(h) = after[n].heap
  BY DEF Heap!BottomUp, Heap!Repeat, x
<1> HIDE DEF after
<1>7. after[n] \in D[n]
  <2>1. after[0] \in D[0]
    BY <1>2, <1>5
  <2>2. ASSUME NEW k \in 1 .. n, after[k - 1] \in D[k - 1] PROVE after[k] \in D[k]
    <3>1. k \in 0 .. n /\ k # 0
      OBVIOUS
    <3>2. after[k] = Heap!Rise(after[k - 1], k)
      BY <1>5, <3>1
    <3> QED
      BY <1>1, <2>2, <3>2
  <2>3. Keeps(n, D, after)
    BY <2>1, <2>2 DEF Keeps
  <2> QED
    BY <2>3, Kept
<1> DEFINE w == after[n]
           g == w.heap
<1>8. w \in [heap : Seq(Keys), at : 1 .. n] /\ Rising(w, n, S) /\ (Risen(w) \/ w.at + n <= n)
  BY <1>7 DEF D, RisingAt
<1> HIDE DEF w
<1>9. g \in Seq(Keys) /\ Lists(g, S) /\ Len(g) = n /\ Risen(w) /\ w.at \in 1 .. n
  BY <1>8 DEF Rising
<1>10. InHeapOrder(g)
  <2> SUFFICES ASSUME NEW j \in 2 .. n PROVE Less(g[j \div 2], g[j])
    BY <1>9 DEF InHeapOrder
  <2>1. CASE j # w.at
    BY <1>8, <2>1 DEF Rising
  <2>2. CASE j = w.at
    <3>1. j \div 2 \in 1 .. j - 1
      BY ParentIs
    <3>2. ~Less(g[j], g[j \div 2])
      BY <1>9, <2>2 DEF Risen
    <3> HIDE DEF g
    <3>3. g[j] # g[j \div 2] /\ g[j] \in Keys /\ g[j \div 2] \in Keys
      BY <1>9, <3>1 DEF Lists, Distinct
    <3> QED
      BY <3>2, <3>3, Ordered
  <2> QED
    BY <2>1, <2>2
<1> QED
  BY <1>6, <1>9, <1>10 DEF w

\* Insert adds one event and keeps the heap in order.
LEMMA HeapInserted ==
  ASSUME NEW h, NEW S, Lists(h, S), InHeapOrder(h), NEW ev \in Keys, ev \notin S
  PROVE  /\ Lists(Heap!Inserted(h, ev), S \cup {ev})
         /\ InHeapOrder(Heap!Inserted(h, ev))
<1> DEFINE g == Append(h, ev)
           n == Len(h) + 1
           T == S \cup {ev}
<1>1. h \in Seq(Keys) /\ n \in Nat \ {0} /\ g \in Seq(Keys) /\ Len(g) = n /\ g[n] = ev
      /\ \A i \in 1 .. n - 1 : g[i] = h[i]
  BY DEF Lists
<1>2. \A i \in 1 .. n - 1 : h[i] \in S
  BY <1>1 DEF Lists
<1> HIDE DEF g
<1>3. Distinct(g)
  <2> SUFFICES ASSUME NEW i \in 1 .. n, NEW j \in 1 .. n, g[i] = g[j] PROVE i = j
    BY <1>1 DEF Distinct
  <2>1. CASE i = n \/ j = n
    BY <1>1, <1>2, <2>1
  <2>2. CASE i \in 1 .. n - 1 /\ j \in 1 .. n - 1
    BY <1>1, <2>2 DEF Lists, Distinct
  <2> QED
    BY <1>1, <2>1, <2>2
<1>4. Lists(g, T)
  <2>1. \A i \in 1 .. n : g[i] \in T
    BY <1>1, <1>2
  <2>2. \A e \in T : \E i \in 1 .. n : g[i] = e
    BY <1>1 DEF Lists
  <2> QED
    BY <1>1, <1>3, <2>1, <2>2 DEF Lists
<1>5. Rising([heap |-> g, at |-> n], n, T)
  <2>1. \A j \in 2 .. n : j # n => Less(g[j \div 2], g[j])
    <3> SUFFICES ASSUME NEW j \in 2 .. n - 1 PROVE Less(g[j \div 2], g[j])
      BY <1>1
    <3>1. j \div 2 \in 1 .. j - 1
      BY <1>1, ParentIs
    <3>2. Less(h[j \div 2], h[j])
      BY <1>1 DEF InHeapOrder
    <3> QED
      BY <1>1, <3>1, <3>2
  <2>2. \A j \in 2 .. n : j \div 2 # n
    BY <1>1, ParentIs
  <2> HIDE DEF n
  <2> QED
    BY <1>1, <1>4, <2>1, <2>2 DEF Rising
<1> HIDE DEF n, T
<1>6. Lists(Heap!BottomUp(g), T) /\ InHeapOrder(Heap!BottomUp(g))
  BY <1>1, <1>5, BottomUpIs
<1> QED
  BY <1>6 DEF g, T, Heap!Inserted

\* The heap on the way of the event at index at to the bottom: all events but those
\* below it come after their parents, and those below it after its parent.
Sinking(r, n, S) ==
  /\ r \in [heap : Seq(Keys), at : Nat \ {0}]
  /\ Lists(r.heap, S)
  /\ Len(r.heap) = n
  /\ \A j \in 2 .. n : j \div 2 # r.at => Less(r.heap[j \div 2], r.heap[j])
  /\ r.at > 1 => \A j \in 2 .. n : j \div 2 = r.at => Less(r.heap[r.at \div 2], r.heap[j])

Sunk(r, n) == \A j \in 2 .. n : j \div 2 = r.at => Less(r.heap[r.at], r.heap[j])

\* SmallestChild is the child due first.
LEMMA ChildIs ==
  ASSUME NEW n \in Nat, NEW S, NEW h, Lists(h, S), Len(h) = n, NEW a \in Nat \ {0}, 2 * a <= n
  PROVE  /\ Heap!Child(h, a) \in a + 1 .. n
         /\ Heap!Child(h, a) \div 2 = a
         /\ \A j \in 2 .. n : j \div 2 = a /\ j # Heap!Child(h, a) => Less(h[Heap!Child(h, a)], h[j])
<1> DEFINE l == 2 * a
           m == 2 * a + 1
<1>1. l \div 2 = a /\ m \div 2 = a /\ l \in a + 1 .. n /\ l \in 1 .. n /\ m = l + 1 /\ l # m
  BY ChildrenAre
<1>2. \A j \in 2 .. n : j \div 2 = a => j = l \/ j = m
  BY ParentIs
<1>3. h \in Seq(Keys) /\ h[l] \in Keys /\ (m <= n => h[m] \in Keys /\ h[l] # h[m])
  BY <1>1 DEF Lists, Distinct
<1>4. Heap!Child(h, a) = IF m > n THEN l ELSE IF Less(h[l], h[m]) THEN l ELSE m
  BY HeapLess DEF Heap!Child, Heap!IsBottom, Heap!RightChild, Heap!LeftChild, Heap!Smallest,
                  Heap!IsLessStrictly
<1> HIDE DEF l, m
<1>5. CASE m > n
  BY <1>1, <1>2, <1>4, <1>5
<1>6. CASE m <= n /\ Less(h[l], h[m])
  BY <1>1, <1>2, <1>4, <1>6
<1>7. CASE m <= n /\ ~Less(h[l], h[m])
  <2>1. Less(h[m], h[l])
    BY <1>3, <1>7, Ordered
  <2> QED
    BY <1>1, <1>2, <1>4, <1>7, <2>1
<1> QED
  BY <1>1, <1>5, <1>6, <1>7 DEF m

\* A turn of TopDown ends the way of the event or takes it down one level.
LEMMA SinkStep ==
  ASSUME NEW n \in Nat, NEW S, NEW k \in 1 .. n, NEW r,
         Sinking(r, n, S), Sunk(r, n) \/ r.at >= k
  PROVE  /\ Sinking(Heap!Sink(r, k), n, S)
         /\ Sunk(Heap!Sink(r, k), n) \/ Heap!Sink(r, k).at >= k + 1
<1> DEFINE h == r.heap
           a == r.at
           c == Heap!Child(h, a)
<1>1. h \in Seq(Keys) /\ a \in Nat \ {0} /\ r = [heap |-> h, at |-> a] /\ Len(h) = n
      /\ Lists(h, S)
  BY DEF Sinking
<1>2. Heap!Sink(r, k) =
        IF 2 * a > n \/ Less(h[a], h[c]) THEN r ELSE [heap |-> Heap!Exch(h, a, c), at |-> c]
  BY <1>1, HeapLess DEF Heap!Sink, Heap!IsBottom, Heap!LeftChild, Heap!IsLessStrictly
<1>3. \A j \in 2 .. n : j \div 2 \in 1 .. j - 1 /\ j >= 2 * (j \div 2)
  BY ParentIs
<1>4. CASE 2 * a > n
  <2>1. Sunk(r, n)
    BY <1>1, <1>3, <1>4 DEF Sunk
  <2> QED
    BY <1>2, <1>4, <2>1
<1>5. CASE 2 * a <= n
  <2>1. /\ c \in a + 1 .. n /\ c \div 2 = a
        /\ \A j \in 2 .. n : j \div 2 = a /\ j # c => Less(h[c], h[j])
    <3> HIDE DEF h, a
    <3> QED
      BY <1>1, <1>5, ChildIs DEF c
  <2> HIDE DEF c
  <2>2. c \in 2 .. n /\ c \in 1 .. n /\ a \in 1 .. n /\ a # c
    BY <1>1, <2>1
  <2>3. \A i \in 1 .. n : h[i] \in Keys
    BY <1>1
  <2>4. h[a] # h[c]
    BY <1>1, <2>2 DEF Lists, Distinct
  <2>5. CASE Less(h[a], h[c])
    <3>1. Sunk(r, n)
      <4> SUFFICES ASSUME NEW j \in 2 .. n, j \div 2 = a PROVE Less(h[a], h[j])
        BY DEF Sunk
      <4> j \in 1 .. n
        OBVIOUS
      <4> QED
        BY <2>1, <2>2, <2>3, <2>5, Ordered
    <3> QED
      BY <1>2, <2>5, <3>1
  <2>6. CASE ~Less(h[a], h[c])
    <3> DEFINE g == Heap!Exch(h, a, c)
    <3>1. Less(h[c], h[a])
      BY <2>2, <2>3, <2>4, <2>6, Ordered
    <3>2. Heap!Sink(r, k) = [heap |-> g, at |-> c]
      BY <1>1, <1>2, <1>5, <2>6
    <3>3. /\ Lists(g, S) /\ Len(g) = n /\ g[a] = h[c] /\ g[c] = h[a]
          /\ \A i \in 1 .. n \ {a, c} : g[i] = h[i]
      <4>1. Lists(h, S) /\ a \in 1 .. Len(h) /\ c \in 1 .. Len(h) /\ a # c /\ Len(h) = n
        BY <1>1, <2>2
      <4> HIDE DEF h, a
      <4>2. Exchanged(h, S, a, c, g)
        BY <4>1, ExchIs
      <4> QED
        BY <4>1, <4>2 DEF Exchanged
    <3>4. g \in Seq(Keys)
      BY <3>3 DEF Lists
    <3>5. \A j \in 2 .. n : j \div 2 # a => Less(h[j \div 2], h[j])
      BY DEF Sinking
    <3>6. a > 1 => \A j \in 2 .. n : j \div 2 = a => Less(h[a \div 2], h[j])
      BY DEF Sinking
    <3> HIDE DEF g, h, a
    <3>7. ASSUME NEW j \in 2 .. n, j \div 2 # c PROVE Less(g[j \div 2], g[j])
      <4>1. j \div 2 \in 1 .. j - 1 /\ j \div 2 \in 1 .. n /\ j \in 1 .. n
        BY <1>3
      <4>2. CASE j = c
        BY <2>1, <3>1, <3>3, <4>2
      <4>3. CASE j # c /\ j \div 2 = a
        <5>1. g[j \div 2] = h[c] /\ g[j] = h[j]
          BY <3>3, <4>1, <4>3
        <5> QED
          BY <2>1, <4>3, <5>1
      <4>4. CASE j = a
        <5>1. g[j \div 2] = h[j \div 2] /\ g[j] = h[c]
          BY <3>3, <3>7, <4>1, <4>4
        <5> QED
          BY <2>1, <2>2, <3>6, <4>4, <5>1
      <4>5. CASE j # c /\ j # a /\ j \div 2 # a
        <5>1. g[j \div 2] = h[j \div 2] /\ g[j] = h[j]
          BY <3>3, <3>7, <4>1, <4>5
        <5> QED
          BY <3>5, <4>5, <5>1
      <4> QED
        BY <4>2, <4>3, <4>4, <4>5
    <3>8. ASSUME NEW j \in 2 .. n, j \div 2 = c PROVE Less(g[c \div 2], g[j])
      <4>1. j > c /\ j \in 1 .. n
        BY <1>3, <3>8
      <4>2. g[j] = h[j]
        BY <1>1, <2>1, <3>3, <4>1
      <4>3. Less(h[c], h[j])
        BY <2>2, <3>5, <3>8
      <4> QED
        BY <2>1, <3>3, <4>2, <4>3
    <3>9. Sinking([heap |-> g, at |-> c], n, S)
      BY <2>1, <2>2, <3>3, <3>4, <3>7, <3>8 DEF Sinking
    <3>10. c >= k + 1
      <4>1. ~Sunk(r, n)
        <5>1. r.at = a /\ r.heap = h
          BY DEF a, h
        <5>2. ~Less(r.heap[r.at], r.heap[c]) /\ c \div 2 = r.at
          BY <2>1, <2>6, <5>1
        <5> QED
          BY <2>2, <5>2 DEF Sunk
      <4>2. a >= k
        BY <4>1 DEF a
      <4> QED
        BY <1>1, <2>1, <4>2
    <3> QED
      BY <3>2, <3>9, <3>10
  <2> QED
    BY <2>5, <2>6
<1> QED
  BY <1>1, <1>4, <1>5

SinkingAt(n, S, k) ==
  {r \in [heap : Seq(Keys), at : Nat \ {0}] : Sinking(r, n, S) /\ (Sunk(r, n) \/ r.at >= k + 1)}

\* The event at the root sinks until no event is due before its parent.
LEMMA TopDownIs ==
  ASSUME NEW n \in Nat, NEW S, NEW h, Len(h) = n, Sinking([heap |-> h, at |-> 1], n, S)
  PROVE  /\ Lists(Heap!TopDown(h, 1), S)
         /\ InHeapOrder(Heap!TopDown(h, 1))
         /\ Len(Heap!TopDown(h, 1)) = n
<1> DEFINE x == [heap |-> h, at |-> 1]
           D == [k \in 0 .. n |-> SinkingAt(n, S, k)]
           s == [z \in (1 .. n) \X [heap : Seq(Keys), at : Nat \ {0}] |-> Heap!Sink(z[2], z[1])]
           after == CHOOSE a : a = [k \in 0 .. n |-> IF k = 0 THEN x ELSE Heap!Sink(a[k - 1], k)]
<1>1. \A k \in 1 .. n : \A y \in D[k - 1] : s[<<k, y>>] = Heap!Sink(y, k) /\ Heap!Sink(y, k) \in D[k]
  <2> SUFFICES ASSUME NEW k \in 1 .. n, NEW y \in D[k - 1]
               PROVE  s[<<k, y>>] = Heap!Sink(y, k) /\ Heap!Sink(y, k) \in D[k]
    OBVIOUS
  <2>1. k - 1 \in 0 .. n /\ k \in 0 .. n /\ (k - 1) + 1 = k
        /\ D[k - 1] = SinkingAt(n, S, k - 1) /\ D[k] = SinkingAt(n, S, k)
    OBVIOUS
  <2>2. y \in [heap : Seq(Keys), at : Nat \ {0}] /\ Sinking(y, n, S) /\ (Sunk(y, n) \/ y.at >= k)
    BY <2>1 DEF SinkingAt
  <2>3. s[<<k, y>>] = Heap!Sink(y, k)
    BY <2>2
  <2> HIDE DEF D, s
  <2> DEFINE w == Heap!Sink(y, k)
  <2>4. Sinking(w, n, S) /\ (Sunk(w, n) \/ w.at >= k + 1)
    BY <2>2, SinkStep
  <2> HIDE DEF w
  <2>5. w \in SinkingAt(n, S, k)
    BY <2>4 DEF SinkingAt, Sinking
  <2> QED
    BY <2>1, <2>3, <2>5 DEF w
<1>2. x \in D[0]
  BY DEF SinkingAt, Sinking
<1> HIDE DEF D, s, x
<1>3. PICK r : Runs(n, x, s, r) /\ Stays(n, D, r)
  <2>1. Closed(n, D, s)
    BY <1>1 DEF Closed
  <2> QED
    BY <1>2, <2>1, Turns
<1>4. r = [k \in 0 .. n |-> IF k = 0 THEN x ELSE Heap!Sink(r[k - 1], k)]
  BY <1>1, <1>3 DEF Runs, Stays
<1>5. after = [k \in 0 .. n |-> IF k = 0 THEN x ELSE Heap!Sink(after[k - 1], k)]
  BY <1>4, Zenon
<1>6. Heap!TopDown(h, 1) = after[n].heap
  BY DEF Heap!TopDown, Heap!Repeat, x
<1> HIDE DEF after
<1>7. after[n] \in D[n]
  <2>1. after[0] \in D[0]
    BY <1>2, <1>5
  <2>2. ASSUME NEW k \in 1 .. n, after[k - 1] \in D[k - 1] PROVE after[k] \in D[k]
    <3>1. k \in 0 .. n /\ k # 0
      OBVIOUS
    <3>2. after[k] = Heap!Sink(after[k - 1], k)
      BY <1>5, <3>1
    <3> QED
      BY <1>1, <2>2, <3>2
  <2>3. Keeps(n, D, after)
    BY <2>1, <2>2 DEF Keeps
  <2> QED
    BY <2>3, Kept
<1> DEFINE w == after[n]
           g == w.heap
<1>8. Sinking(w, n, S) /\ (Sunk(w, n) \/ w.at >= n + 1)
  BY <1>7 DEF D, SinkingAt
<1> HIDE DEF w
<1>9. Lists(g, S) /\ Len(g) = n
  BY <1>8 DEF Sinking
<1>10. InHeapOrder(g)
  <2> SUFFICES ASSUME NEW j \in 2 .. n PROVE Less(g[j \div 2], g[j])
    BY <1>9 DEF InHeapOrder
  <2>1. CASE j \div 2 # w.at
    BY <1>8, <2>1 DEF Sinking
  <2>2. CASE j \div 2 = w.at
    <3>1. j \div 2 \in 1 .. j - 1
      BY ParentIs
    <3>2. Sunk(w, n)
      BY <1>8, <2>2, <3>1
    <3> QED
      BY <2>2, <3>2 DEF Sunk
  <2> QED
    BY <2>1, <2>2
<1> QED
  BY <1>6, <1>9, <1>10 DEF w

\* RemoveNext takes the root out and keeps the heap in order.
LEMMA HeapTaken ==
  ASSUME NEW h, NEW S, Lists(h, S), InHeapOrder(h), h # <<>>
  PROVE  /\ Lists(Heap!Taken(h, 1), S \ {h[1]})
         /\ InHeapOrder(Heap!Taken(h, 1))
         /\ Len(Heap!Taken(h, 1)) = Len(h) - 1
<1> DEFINE n == Len(h)
           f == Heap!Exch(h, 1, n)
           g == Heap!PopBack(f)
           T == S \ {h[1]}
<1>1. h \in Seq(Keys) /\ n \in Nat \ {0}
  BY DEF Lists
<1>2. /\ Lists(f, S) /\ Len(f) = n /\ f[n] = h[1]
      /\ \A i \in 2 .. n - 1 : f[i] = h[i]
  <2>1. CASE n = 1
    <3>1. f = h
      BY <1>1, <2>1 DEF Heap!Exch
    <3> QED
      BY <1>1, <2>1, <3>1
  <2>2. CASE n # 1
    <3> DEFINE a == 1
               e == Heap!Exch(h, a, n)
    <3>1. a \in 1 .. Len(h) /\ n \in 1 .. Len(h) /\ a # n /\ Len(h) = n
      BY <1>1, <2>2
    <3> HIDE DEF n, a
    <3>2. /\ Lists(e, S) /\ Len(e) = n /\ e[n] = h[a]
          /\ \A i \in 1 .. n \ {a, n} : e[i] = h[i]
      <4>1. Exchanged(h, S, a, n, e)
        BY <3>1, ExchIs
      <4> QED
        BY <3>1, <4>1 DEF Exchanged
    <3>3. f = e /\ a = 1
      BY DEF a
    <3> QED
      BY <1>1, <3>2, <3>3
  <2> QED
    BY <2>1, <2>2
<1> HIDE DEF f, n
<1>3. f \in Seq(Keys)
  BY <1>2 DEF Lists
<1>4. g \in Seq(Keys) /\ Len(g) = n - 1 /\ \A i \in 1 .. n - 1 : g[i] = f[i]
  BY <1>1, <1>2, <1>3 DEF Heap!PopBack
<1> HIDE DEF g
<1>5. Lists(g, T)
  <2>1. Distinct(g)
    BY <1>1, <1>2, <1>4 DEF Distinct, Lists
  <2>2. \A i \in 1 .. n - 1 : g[i] \in T
    <3> SUFFICES ASSUME NEW i \in 1 .. n - 1 PROVE g[i] \in T
      OBVIOUS
    <3>1. i \in 1 .. n /\ n \in 1 .. n /\ i # n
      BY <1>1
    <3> QED
      BY <1>2, <1>4, <3>1 DEF Lists, Distinct
  <2>3. \A e \in T : \E i \in 1 .. n - 1 : g[i] = e
    <3> SUFFICES ASSUME NEW e \in T PROVE \E i \in 1 .. n - 1 : g[i] = e
      OBVIOUS
    <3>1. PICK i \in 1 .. n : f[i] = e
      BY <1>2 DEF Lists
    <3>2. i # n
      BY <1>2, <3>1
    <3>3. i \in 1 .. n - 1
      BY <1>1, <3>2
    <3> QED
      BY <1>4, <3>1, <3>3
  <2> QED
    BY <1>4, <2>1, <2>2, <2>3 DEF Lists
<1>6. Sinking([heap |-> g, at |-> 1], n - 1, T)
  <2>1. ASSUME NEW j \in 2 .. n - 1, j \div 2 # 1 PROVE Less(g[j \div 2], g[j])
    <3>1. j \div 2 \in 1 .. j - 1
      BY ParentIs
    <3>2. j \div 2 \in 2 .. n - 1 /\ j \in 1 .. n - 1 /\ j \div 2 \in 1 .. n - 1
      BY <1>1, <2>1, <3>1
    <3>3. Less(h[j \div 2], h[j])
      BY <1>1 DEF InHeapOrder, n
    <3> QED
      BY <1>2, <1>4, <3>2, <3>3
  <2> QED
    BY <1>1, <1>4, <1>5, <2>1 DEF Sinking
<1> DEFINE m == n - 1
<1>7. m \in Nat /\ Len(g) = m /\ Sinking([heap |-> g, at |-> 1], m, T)
  BY <1>1, <1>4, <1>6
<1> HIDE DEF m, T
<1>8. Lists(Heap!TopDown(g, 1), T) /\ InHeapOrder(Heap!TopDown(g, 1)) /\ Len(Heap!TopDown(g, 1)) = m
  BY <1>7, TopDownIs
<1> QED
  BY <1>8 DEF Heap!Taken, g, f, n, m, T

\* The event at the root is the earliest.
LEMMA RootFirst ==
  ASSUME NEW h, NEW S, Lists(h, S), InHeapOrder(h), h # <<>>
  PROVE  h[1] \in S /\ \A e \in S \ {h[1]} : Less(h[1], e)
<1>1. h \in Seq(Keys) /\ 1 \in 1 .. Len(h) /\ h[1] \in S
  BY DEF Lists
<1>2. S \in SUBSET Keys
  BY DEF Lists
<1>3. PICK e \in S : \A f \in S \ {e} : Less(e, f)
  BY <1>1, <1>2, Earliest
<1>4. PICK m \in 1 .. Len(h) : h[m] = e
  BY DEF Lists
<1>5. CASE m = 1
  BY <1>1, <1>3, <1>4, <1>5
<1>6. CASE m > 1
  <2>1. m \div 2 \in 1 .. m - 1 /\ m \div 2 \in 1 .. Len(h) /\ m \in 2 .. Len(h)
    BY <1>1, <1>6, ParentIs
  <2>2. h[m \div 2] \in S \ {e} /\ h[m \div 2] \in Keys /\ e \in Keys
    BY <1>1, <1>2, <1>4, <2>1 DEF Lists, Distinct
  <2>3. Less(h[m \div 2], e)
    BY <1>4, <2>1 DEF InHeapOrder
  <2> QED
    BY <1>3, <2>2, <2>3, Ordered
<1> QED
  BY <1>1, <1>4, <1>5, <1>6

----------------------------------------------------------------------------
(* The days of the calendar                                                *)

\* The order of a bucket is total, in either direction.
LEMMA InOrder ==
  ASSUME NEW a \in Keys, NEW b \in Keys
  PROVE  /\ a = b \/ Order(a, b) \/ Order(b, a)
         /\ ~(Order(a, b) /\ Order(b, a))
         /\ ~Order(a, a)
         /\ \A c \in Keys : Order(a, b) /\ Order(b, c) => Order(a, c)
<1>1. \A x \in Keys, y \in Keys :
        /\ x = y \/ Less(x, y) \/ Less(y, x)
        /\ ~(Less(x, y) /\ Less(y, x))
        /\ ~Less(x, x)
        /\ \A c \in Keys : Less(x, y) /\ Less(y, c) => Less(x, c)
  BY Ordered
<1> QED
  BY <1>1 DEF Order

\* q is the sorted list of the events of S.
Sorts(q, S) ==
  /\ q \in Seq(Keys)
  /\ \A i, j \in 1 .. Len(q) : i < j => Order(q[i], q[j])
  /\ \A i \in 1 .. Len(q) : q[i] \in S
  /\ \A e \in S : \E i \in 1 .. Len(q) : q[i] = e

\* A sorted list holds each event once.
LEMMA SortedIsList ==
  ASSUME NEW q, NEW S, Sorts(q, S)
  PROVE  Lists(q, S) /\ (S = {} <=> q = <<>>) /\ S \in SUBSET Keys
<1>1. q \in Seq(Keys)
  BY DEF Sorts
<1>2. Distinct(q)
  <2> SUFFICES ASSUME NEW i \in 1 .. Len(q), NEW j \in 1 .. Len(q), q[i] = q[j], i < j
               PROVE  FALSE
    BY <1>1 DEF Distinct
  <2>1. Order(q[i], q[i]) /\ q[i] \in Keys
    BY <1>1 DEF Sorts
  <2> QED
    BY <2>1, InOrder
<1> QED
  BY <1>1, <1>2 DEF Sorts, Lists

\* Where DoInsert puts the event in the bucket q.
Place(q, ev) ==
  LET later == {i \in DOMAIN q : Order(ev, q[i])}
  IN IF later = {} THEN Len(q) + 1 ELSE Min(later)

\* An event put at its place keeps the bucket sorted.
LEMMA SortedInsert ==
  ASSUME NEW q, NEW S, Sorts(q, S), NEW ev \in Keys, ev \notin S
  PROVE  Sorts(InsertAt(q, Place(q, ev), ev), S \cup {ev})
<1> DEFINE n == Len(q)
           later == {i \in 1 .. n : Order(ev, q[i])}
           at == Place(q, ev)
           p == InsertAt(q, at, ev)
<1>1. q \in Seq(Keys) /\ DOMAIN q = 1 .. n /\ n \in Nat /\ \A i \in 1 .. n : q[i] \in Keys
  BY DEF Sorts
<1>2. at = IF later = {} THEN n + 1 ELSE Min(later)
  BY <1>1 DEF Place
<1> HIDE DEF n, at
<1>3. /\ at \in 1 .. n + 1
      /\ \A i \in 1 .. n : i < at => ~Order(ev, q[i])
      /\ at \in 1 .. n => Order(ev, q[at])
  <2>1. CASE later = {}
    BY <1>1, <1>2, <2>1
  <2>2. CASE later # {}
    <3>1. later \in SUBSET Nat
      BY <1>1
    <3>2. at \in later /\ \A y \in later : at <= y
      <4>1. \E x \in later : \A y \in later : x <= y
        <5> HIDE DEF later
        <5> QED
          BY <2>2, <3>1, LeastNatural
      <4>2. at = CHOOSE x \in later : \A y \in later : x <= y
        BY <1>2, <2>2 DEF Min
      <4> QED
        BY <4>1, <4>2
    <3>3. at \in 1 .. n /\ Order(ev, q[at])
      BY <3>2
    <3>4. ASSUME NEW i \in 1 .. n, i < at PROVE ~Order(ev, q[i])
      <4>1. i \notin later
        BY <3>2, <3>3, <3>4
      <4> QED
        BY <4>1
    <3> QED
      BY <1>1, <3>3, <3>4
  <2> QED
    BY <2>1, <2>2
<1> HIDE DEF later
<1>4. n \in Nat /\ at \in 1 .. n + 1
  BY <1>1, <1>3
<1>5. \A i \in 1 .. n : i < at => Order(q[i], ev)
  <2> SUFFICES ASSUME NEW i \in 1 .. n, i < at PROVE Order(q[i], ev)
    OBVIOUS
  <2>1. q[i] # ev /\ ~Order(ev, q[i])
    BY <1>3 DEF Sorts, n
  <2> QED
    BY <1>1, <2>1, InOrder
<1>6. \A i \in 1 .. n : i >= at => Order(ev, q[i])
  <2> SUFFICES ASSUME NEW i \in 1 .. n, i >= at PROVE Order(ev, q[i])
    OBVIOUS
  <2>1. at \in 1 .. n /\ Order(ev, q[at])
    BY <1>1, <1>3
  <2>2. i = at \/ Order(q[at], q[i])
    BY <1>1, <2>1 DEF Sorts, n
  <2> QED
    BY <1>1, <2>1, <2>2, InOrder
<1>7. /\ p \in Seq(Keys) /\ Len(p) = n + 1 /\ p[at] = ev
      /\ \A i \in 1 .. n : i < at => p[i] = q[i]
      /\ \A i \in 1 .. n : i >= at => p[i + 1] = q[i]
      /\ \A i \in 1 .. n + 1 : i > at => p[i] = q[i - 1]
  <2> DEFINE a == SubSeq(q, 1, at - 1)
             b == SubSeq(q, at, n)
             d == a \o <<ev>>
  <2>1. a \in Seq(Keys) /\ Len(a) = at - 1 /\ \A i \in 1 .. at - 1 : a[i] = q[i]
    BY <1>1, <1>4 DEF n
  <2>2. b \in Seq(Keys) /\ Len(b) = n + 1 - at /\ \A i \in 1 .. n + 1 - at : b[i] = q[at + i - 1]
    BY <1>1, <1>4 DEF n
  <2>3. p = d \o b
    BY DEF InsertAt, n
  <2> HIDE DEF a, b, p
  <2>4. d \in Seq(Keys) /\ Len(d) = at /\ d[at] = ev /\ \A i \in 1 .. at - 1 : d[i] = q[i]
    BY <1>3, <2>1
  <2> HIDE DEF d
  <2>5. /\ p \in Seq(Keys) /\ Len(p) = n + 1 /\ \A i \in 1 .. at : p[i] = d[i]
        /\ \A i \in at + 1 .. n + 1 : p[i] = b[i - at]
    <3>1. d \in Seq(Keys) /\ b \in Seq(Keys)
      BY <2>2, <2>4
    <3>2. /\ p \in Seq(Keys) /\ Len(p) = Len(d) + Len(b)
          /\ \A i \in 1 .. Len(d) + Len(b) : p[i] = IF i <= Len(d) THEN d[i] ELSE b[i - Len(d)]
      BY <2>3, <3>1, ConcatProperties
    <3>3. Len(d) = at /\ Len(b) = n + 1 - at /\ Len(d) + Len(b) = n + 1
      BY <1>4, <2>2, <2>4
    <3>4. \A i \in 1 .. n + 1 : p[i] = IF i <= at THEN d[i] ELSE b[i - at]
      BY <3>2, <3>3
    <3>5. \A i \in 1 .. at : i \in 1 .. n + 1 /\ i <= at
      BY <1>4
    <3>6. \A i \in at + 1 .. n + 1 : i \in 1 .. n + 1 /\ ~(i <= at)
      BY <1>4
    <3> QED
      BY <3>2, <3>3, <3>4, <3>5, <3>6
  <2>6. ASSUME NEW i \in 1 .. n + 1, i > at PROVE p[i] = q[i - 1]
    <3>1. i \in at + 1 .. n + 1 /\ i - at \in 1 .. n + 1 - at /\ at + (i - at) - 1 = i - 1
      BY <1>4, <2>6
    <3> QED
      BY <2>2, <2>5, <3>1
  <2>7. ASSUME NEW i \in 1 .. n, i >= at PROVE p[i + 1] = q[i]
    <3>1. i + 1 \in 1 .. n + 1 /\ i + 1 > at /\ (i + 1) - 1 = i
      BY <1>4, <2>7
    <3> QED
      BY <2>6, <3>1
  <2> QED
    BY <1>1, <1>3, <2>4, <2>5, <2>6, <2>7
<1> HIDE DEF p
<1>8. \A i, j \in 1 .. n + 1 : i < j => Order(p[i], p[j])
  <2> SUFFICES ASSUME NEW i \in 1 .. n + 1, NEW j \in 1 .. n + 1, i < j
               PROVE  Order(p[i], p[j])
    OBVIOUS
  <2>1. \A k, l \in 1 .. n : k < l => Order(q[k], q[l])
    BY DEF Sorts, n
  <2>2. CASE j < at
    <3>1. i \in 1 .. n /\ j \in 1 .. n /\ p[i] = q[i] /\ p[j] = q[j]
      BY <1>4, <1>7, <2>2
    <3> QED
      BY <2>1, <3>1
  <2>3. CASE j = at
    <3>1. i \in 1 .. n /\ p[i] = q[i] /\ p[j] = ev
      BY <1>4, <1>7, <2>3
    <3> QED
      BY <1>5, <2>3, <3>1
  <2>4. CASE j > at /\ i < at
    <3>1. i \in 1 .. n /\ j - 1 \in 1 .. n /\ i < j - 1 /\ p[i] = q[i] /\ p[j] = q[j - 1]
      BY <1>4, <1>7, <2>4
    <3> QED
      BY <2>1, <3>1
  <2>5. CASE j > at /\ i = at
    <3>1. j - 1 \in 1 .. n /\ j - 1 >= at /\ p[i] = ev /\ p[j] = q[j - 1]
      BY <1>4, <1>7, <2>5
    <3> QED
      BY <1>6, <3>1
  <2>6. CASE j > at /\ i > at
    <3>1. i - 1 \in 1 .. n /\ j - 1 \in 1 .. n /\ i - 1 < j - 1 /\ p[i] = q[i - 1] /\ p[j] = q[j - 1]
      BY <1>4, <1>7, <2>6
    <3> QED
      BY <2>1, <3>1
  <2> QED
    BY <1>3, <2>2, <2>3, <2>4, <2>5, <2>6
<1>9. ASSUME NEW i \in 1 .. n + 1 PROVE p[i] \in S \cup {ev}
  <2>1. \A k \in 1 .. n : q[k] \in S
    BY DEF Sorts, n
  <2>2. CASE i < at
    BY <1>1, <1>3, <1>7, <2>1, <2>2
  <2>3. CASE i > at
    <3>1. i - 1 \in 1 .. n
      BY <1>4, <2>3
    <3> QED
      BY <1>7, <2>1, <2>3, <3>1
  <2> QED
    BY <1>3, <1>7, <2>2, <2>3
<1>10. \A e \in S \cup {ev} : \E i \in 1 .. n + 1 : p[i] = e
  <2>1. p[at] = ev
    BY <1>1, <1>3, <1>7
  <2>2. ASSUME NEW e \in S PROVE \E i \in 1 .. n + 1 : p[i] = e
    <3>1. PICK i \in 1 .. n : q[i] = e
      BY DEF Sorts, n
    <3>2. i < at => p[i] = e /\ i \in 1 .. n + 1
      BY <1>1, <1>3, <1>7, <3>1
    <3>3. i >= at => p[i + 1] = e /\ i + 1 \in 1 .. n + 1
      BY <1>1, <1>3, <1>7, <3>1
    <3> QED
      BY <1>1, <1>3, <3>2, <3>3
  <2> QED
    BY <1>3, <2>1, <2>2
<1> QED
  BY <1>7, <1>8, <1>9, <1>10 DEF Sorts, p, n, at

\* p is q without its element at i.
Shortened(p, q, i) ==
  /\ p \in Seq(Keys)
  /\ Len(p) = Len(q) - 1
  /\ \A k \in 1 .. Len(q) - 1 : p[k] = IF k < i THEN q[k] ELSE q[k + 1]

\* A sorted list without one of its elements is sorted.
LEMMA SortedShort ==
  ASSUME NEW q, NEW S, Sorts(q, S), NEW i \in 1 .. Len(q), NEW p, Shortened(p, q, i)
  PROVE  Sorts(p, S \ {q[i]})
<1> DEFINE n == Len(q)
<1>1. q \in Seq(Keys) /\ n \in Nat /\ i \in 1 .. n /\ p \in Seq(Keys) /\ Len(p) = n - 1
  BY DEF Sorts, Shortened
<1>2. \A k \in 1 .. n - 1 : p[k] = IF k < i THEN q[k] ELSE q[k + 1]
  BY DEF Shortened
<1>3. /\ \A k, l \in 1 .. n : k < l => Order(q[k], q[l])
      /\ \A k \in 1 .. n : q[k] \in S
      /\ \A e \in S : \E k \in 1 .. n : q[k] = e
  BY DEF Sorts
<1>4. \A k, l \in 1 .. n : q[k] = q[l] => k = l
  BY SortedIsList DEF Lists, Distinct
<1>5. n \in Nat /\ i \in 1 .. n
  BY <1>1
<1> HIDE DEF n
<1>6. \A k \in 1 .. n - 1 : \E l \in 1 .. n :
        p[k] = q[l] /\ l # i /\ l = IF k < i THEN k ELSE k + 1
  <2> SUFFICES ASSUME NEW k \in 1 .. n - 1
               PROVE  \E l \in 1 .. n : p[k] = q[l] /\ l # i /\ l = IF k < i THEN k ELSE k + 1
    OBVIOUS
  <2>1. k \in 1 .. n /\ k + 1 \in 1 .. n
    BY <1>5
  <2> QED
    BY <1>2, <1>5, <2>1
<1>7. \A k, l \in 1 .. n - 1 : k < l => Order(p[k], p[l])
  <2> SUFFICES ASSUME NEW k \in 1 .. n - 1, NEW l \in 1 .. n - 1, k < l
               PROVE  Order(p[k], p[l])
    OBVIOUS
  <2>1. PICK a \in 1 .. n : p[k] = q[a] /\ a = IF k < i THEN k ELSE k + 1
    BY <1>6
  <2>2. PICK b \in 1 .. n : p[l] = q[b] /\ b = IF l < i THEN l ELSE l + 1
    BY <1>6
  <2>3. a < b
    BY <1>5, <2>1, <2>2
  <2> QED
    BY <1>3, <2>1, <2>2, <2>3
<1>8. \A k \in 1 .. n - 1 : p[k] \in S \ {q[i]}
  <2> SUFFICES ASSUME NEW k \in 1 .. n - 1 PROVE p[k] \in S \ {q[i]}
    OBVIOUS
  <2>1. PICK a \in 1 .. n : p[k] = q[a] /\ a # i
    BY <1>6
  <2> QED
    BY <1>3, <1>4, <1>5, <2>1
<1>9. \A e \in S \ {q[i]} : \E k \in 1 .. n - 1 : p[k] = e
  <2> SUFFICES ASSUME NEW e \in S \ {q[i]} PROVE \E k \in 1 .. n - 1 : p[k] = e
    OBVIOUS
  <2>1. PICK l \in 1 .. n : q[l] = e
    BY <1>3
  <2>2. l # i
    BY <2>1
  <2>3. CASE l < i
    <3>1. l \in 1 .. n - 1
      BY <1>5, <2>3
    <3> QED
      BY <1>2, <2>1, <2>3, <3>1
  <2>4. CASE l > i
    <3>1. l - 1 \in 1 .. n - 1 /\ ~(l - 1 < i) /\ (l - 1) + 1 = l
      BY <1>5, <2>4
    <3> QED
      BY <1>2, <2>1, <3>1
  <2> QED
    BY <1>5, <2>2, <2>3, <2>4
<1> QED
  BY <1>1, <1>7, <1>8, <1>9 DEF Sorts

\* Remove takes one event out of its bucket.
LEMMA SortedRemove ==
  ASSUME NEW q, NEW S, Sorts(q, S), NEW i \in 1 .. Len(q)
  PROVE  Sorts(RemoveAt(q, i), S \ {q[i]})
<1> DEFINE n == Len(q)
           a == SubSeq(q, 1, i - 1)
           b == SubSeq(q, i + 1, n)
           p == RemoveAt(q, i)
<1>1. q \in Seq(Keys) /\ n \in Nat /\ i \in 1 .. n
  BY DEF Sorts
<1>2. a \in Seq(Keys) /\ Len(a) = i - 1 /\ \A k \in 1 .. i - 1 : a[k] = q[k]
  BY <1>1
<1>3. b \in Seq(Keys) /\ Len(b) = n - i /\ \A k \in 1 .. n - i : b[k] = q[i + k]
  BY <1>1
<1>4. p = a \o b
  BY DEF RemoveAt
<1> HIDE DEF a, b, p, n
<1>5. a \in Seq(Keys) /\ b \in Seq(Keys)
  BY <1>2, <1>3
<1>6. /\ p \in Seq(Keys) /\ Len(p) = Len(a) + Len(b)
      /\ \A k \in 1 .. Len(a) + Len(b) : p[k] = IF k <= Len(a) THEN a[k] ELSE b[k - Len(a)]
  BY <1>4, <1>5, ConcatProperties
<1>7. ASSUME NEW k \in 1 .. n - 1 PROVE p[k] = IF k < i THEN q[k] ELSE q[k + 1]
  <2>1. i \in 1 .. n /\ n \in Nat /\ Len(a) = i - 1 /\ Len(b) = n - i
    BY <1>1, <1>2, <1>3
  <2>2. CASE k < i
    <3>1. k \in 1 .. Len(a) + Len(b) /\ k <= Len(a) /\ k \in 1 .. i - 1
      BY <2>1, <2>2
    <3> QED
      BY <1>2, <1>6, <2>2, <3>1
  <2>3. CASE ~(k < i)
    <3>1. k \in 1 .. Len(a) + Len(b) /\ ~(k <= Len(a)) /\ k - Len(a) \in 1 .. n - i
          /\ i + (k - Len(a)) = k + 1
      BY <2>1, <2>3
    <3> QED
      BY <1>3, <1>6, <2>3, <3>1
  <2> QED
    BY <2>2, <2>3
<1>8. Len(p) = n - 1
  BY <1>1, <1>2, <1>3, <1>6
<1>9. Shortened(p, q, i)
  BY <1>6, <1>7, <1>8 DEF Shortened, n
<1> QED
  BY <1>9, SortedShort DEF p

\* What is due next in a day, and the day without it.
LEMMA SortedNext ==
  ASSUME NEW q, NEW S, Sorts(q, S), q # <<>>
  PROVE  /\ NextEvent(q) \in S
         /\ \A e \in S \ {NextEvent(q)} : Less(NextEvent(q), e)
         /\ Sorts(Pop(q), S \ {NextEvent(q)})
<1> DEFINE n == Len(q)
           i == IF reverse THEN n ELSE 1
<1>1. q \in Seq(Keys) /\ n \in Nat \ {0} /\ i \in 1 .. n
  BY DEF Sorts
<1>2. NextEvent(q) = q[i]
  BY <1>1 DEF NextEvent, Last
<1>3. Shortened(Pop(q), q, i)
  <2>1. CASE reverse
    <3> DEFINE p == SubSeq(q, 1, n - 1)
    <3>1. Pop(q) = p /\ i = n
      BY <2>1 DEF Pop, Front
    <3>2. p \in Seq(Keys) /\ Len(p) = n - 1 /\ \A k \in 1 .. n - 1 : p[k] = q[k]
      <4>1. \A k \in 1 .. n - 1 : q[k] \in Keys
        BY <1>1
      <4>2. 1 \in Int /\ n - 1 \in Int /\ 1 + n - 1 = n /\ n - 1 \in Nat
        BY <1>1
      <4> DEFINE m == n - 1
                 one == 1
      <4>3. m \in Int /\ one \in Int /\ \A k \in one .. m : q[k] \in Keys
        BY <4>1, <4>2
      <4> HIDE DEF m, one
      <4>4. /\ SubSeq(q, one, m) \in Seq(Keys)
            /\ Len(SubSeq(q, one, m)) = IF one <= m THEN m - one + 1 ELSE 0
            /\ \A k \in 1 .. m - one + 1 : SubSeq(q, one, m)[k] = q[one + k - 1]
        BY <4>3, SubSeqProperties
      <4> QED
        BY <4>2, <4>4 DEF m, one
    <3> HIDE DEF p, i
    <3> QED
      BY <1>1, <3>1, <3>2 DEF Shortened
  <2>2. CASE ~reverse
    BY <1>1, <2>2 DEF Shortened, Pop
  <2> QED
    BY <2>1, <2>2
<1>4. ASSUME NEW e \in S \ {q[i]} PROVE Less(q[i], e)
  <2>1. PICK k \in 1 .. n : q[k] = e
    BY DEF Sorts
  <2>2. k # i
    BY <2>1
  <2>3. CASE reverse
    <3>1. k < i
      BY <1>1, <2>2, <2>3
    <3>2. Order(q[k], q[i])
      BY <1>1, <3>1 DEF Sorts
    <3> QED
      BY <2>1, <2>3, <3>2 DEF Order
  <2>4. CASE ~reverse
    <3>1. i < k
      BY <1>1, <2>2, <2>4
    <3>2. Order(q[i], q[k])
      BY <1>1, <3>1 DEF Sorts
    <3> QED
      BY <2>1, <2>4, <3>2 DEF Order
  <2> QED
    BY <2>3, <2>4
<1>5. q[i] \in S
  BY <1>1 DEF Sorts
<1> HIDE DEF i
<1>6. i \in 1 .. Len(q)
  BY <1>1
<1>7. Sorts(Pop(q), S \ {q[i]})
  BY <1>3, <1>6, SortedShort
<1> QED
  BY <1>2, <1>4, <1>5, <1>7

----------------------------------------------------------------------------
(* Days and years                                                          *)

\* The day a time belongs to.
LEMMA DayOf ==
  ASSUME NEW x \in Nat, NEW w \in Nat \ {0}
  PROVE  /\ x \div w \in Nat
         /\ x < (x \div w + 1) * w
         /\ (x \div w) * w <= x
OBVIOUS

LEMMA DayBefore ==
  ASSUME NEW x \in Nat, NEW w \in Nat \ {0}, NEW d \in Nat, x < (d + 1) * w
  PROVE  x \div w <= d
OBVIOUS

LEMMA LaterDay ==
  ASSUME NEW x \in Nat, NEW y \in Nat, NEW w \in Nat \ {0}, x <= y
  PROVE  x \div w <= y \div w
OBVIOUS

LEMMA Rest ==
  ASSUME NEW n \in Nat \ {0}, NEW p \in Int, NEW a \in 0 .. n - 1
  PROVE  ((n * p) + a) % n = a
<1> DEFINE x == (n * p) + a
           q == x \div n
           b == x % n
<1>1. x \in Int /\ q \in Int /\ b \in 0 .. n - 1 /\ x = (n * q) + b
  OBVIOUS
<1>2. n * (p - q) = b - a
  BY <1>1
<1>3. p = q
  <2> DEFINE m == p - q
  <2>1. m \in Int /\ n * m = b - a
    BY <1>1, <1>2
  <2> HIDE DEF x, q, b, m
  <2>2. b - a < n /\ b - a > -n
    BY <1>1
  <2>3. ASSUME m >= 1 PROVE FALSE
    <3>1. n * m >= n
      BY <2>1, <2>3
    <3> QED
      BY <2>1, <2>2, <3>1
  <2>4. ASSUME m <= -1 PROVE FALSE
    <3>1. n * m <= -n
      BY <2>1, <2>4
    <3> QED
      BY <2>1, <2>2, <3>1
  <2>5. m = 0
    BY <2>1, <2>3, <2>4
  <2> QED
    BY <1>1, <2>5 DEF m
<1> HIDE DEF q, b
<1>4. b = a
  BY <1>1, <1>3
<1> QED
  BY <1>4 DEF b

LEMMA YearDay ==
  ASSUME NEW d \in Nat, NEW k \in Nat, NEW n \in Nat \ {0}
  PROVE  /\ ((d % n) + k) % n = (d + k) % n
         /\ d % n \in 0 .. n - 1
<1> DEFINE q == d \div n
           r == d % n
           p == (r + k) \div n
           a == (r + k) % n
<1>1. q \in Int /\ r \in 0 .. n - 1 /\ d = (n * q) + r
  OBVIOUS
<1>2. p \in Int /\ a \in 0 .. n - 1 /\ r + k = (n * p) + a
  BY <1>1
<1> DEFINE s == q + p
<1> HIDE DEF q, r, p, a
<1>3. s \in Int /\ d + k = (n * s) + a
  BY <1>1, <1>2
<1> HIDE DEF s
<1>4. ((n * s) + a) % n = a
  BY <1>2, <1>3, Rest
<1>5. (d + k) % n = a
  BY <1>3, <1>4
<1> QED
  BY <1>1, <1>5 DEF a, r

----------------------------------------------------------------------------
(* The calendar                                                            *)

CalendarTypes ==
  [buckets : Seq(Seq(Keys)), width : Nat \ {0}, lastPrio : Nat, lastBucket : Nat, bucketTop : Nat]

InDay(c, S, b) == {e \in S : Hash(c, e.ts) = b}

\* Each event of S, and no other, is in the bucket its time hashes to, in order.
Filed(c, S) ==
  /\ c \in CalendarTypes
  /\ nBuckets(c) \in Nat \ {0}
  /\ S \in SUBSET Keys
  /\ \A b \in 1 .. nBuckets(c) : Sorts(c.buckets[b], InDay(c, S, b))

\* The search starts in the day of the time lastPrio.
Timed(c) ==
  /\ c.lastBucket = Hash(c, c.lastPrio)
  /\ c.bucketTop = (c.lastPrio \div c.width + 1) * c.width

Since(c, S) == \A e \in S : e.ts >= c.lastPrio

\* What an operation on the calendar keeps: S is filed, and the search starts in time.
Holds(c, S) == Filed(c, S) /\ Timed(c) /\ Since(c, S)

SamePlan(c, d) == d.width = c.width /\ nBuckets(d) = nBuckets(c)

SameTime(c, d) ==
  d.lastPrio = c.lastPrio /\ d.lastBucket = c.lastBucket /\ d.bucketTop = c.bucketTop

\* Hash yields a bucket of the calendar.
LEMMA HashIs ==
  ASSUME NEW c, NEW S, Filed(c, S), NEW t \in Nat
  PROVE  Hash(c, t) \in 1 .. nBuckets(c)
<1> DEFINE w == c.width
           n == nBuckets(c)
           d == t \div w
<1>1. w \in Nat \ {0} /\ n \in Nat \ {0}
  BY DEF Filed, CalendarTypes
<1>2. d \in Nat
  BY <1>1, DayOf
<1> HIDE DEF d, n
<1>3. d % n \in 0 .. n - 1
  BY <1>1, <1>2, YearDay, 0 \in Nat
<1>4. (d % n) + 1 \in 1 .. n
  BY <1>1, <1>3
<1> QED
  BY <1>4 DEF Hash, d, n

\* Calendars with the same days hash alike.
LEMMA SameHash ==
  ASSUME NEW c, NEW d, SamePlan(c, d)
  PROVE  \A t : Hash(d, t) = Hash(c, t)
BY DEF Hash, SamePlan

\* d is c with q in the place of bucket b.
Replaced(c, d, b, q) ==
  /\ d \in CalendarTypes
  /\ d.width = c.width
  /\ d.buckets = [c.buckets EXCEPT ![b] = q]

\* S and T hold the same events of other days than b.
Elsewhere(c, S, T, b) == \A e \in Keys : Hash(c, e.ts) # b => (e \in S <=> e \in T)

\* An operation on one bucket leaves the calendar right if that bucket is.
LEMMA Refiled ==
  ASSUME NEW c, NEW S, Filed(c, S), NEW T \in SUBSET Keys, NEW b \in 1 .. nBuckets(c),
         Elsewhere(c, S, T, b), NEW q, Sorts(q, InDay(c, T, b)), NEW d, Replaced(c, d, b, q)
  PROVE  Filed(d, T) /\ SamePlan(c, d)
<1> DEFINE n == nBuckets(c)
<1>1. n \in Nat \ {0} /\ c.buckets \in Seq(Seq(Keys)) /\ Len(c.buckets) = n
      /\ \A a \in 1 .. n : Sorts(c.buckets[a], InDay(c, S, a))
  BY DEF Filed, CalendarTypes, nBuckets
<1>2. d.buckets \in Seq(Seq(Keys)) /\ d \in CalendarTypes
  BY DEF Replaced, CalendarTypes
<1>3. Len(d.buckets) = n /\ d.buckets[b] = q /\ \A a \in 1 .. n : a # b => d.buckets[a] = c.buckets[a]
  <2>1. d.buckets = [c.buckets EXCEPT ![b] = q]
    BY DEF Replaced
  <2>2. DOMAIN c.buckets = 1 .. n /\ DOMAIN d.buckets = 1 .. n
    BY <1>1, <2>1
  <2>3. Len(d.buckets) = n
    BY <1>1, <1>2, <2>2
  <2> QED
    BY <2>1, <2>2, <2>3
<1>4. SamePlan(c, d)
  BY <1>3 DEF SamePlan, Replaced, nBuckets
<1>5. ASSUME NEW a \in 1 .. n PROVE Sorts(d.buckets[a], InDay(d, T, a))
  <2>1. InDay(d, T, a) = InDay(c, T, a)
    BY <1>4, SameHash DEF InDay
  <2>2. CASE a = b
    BY <1>3, <2>1, <2>2
  <2>3. CASE a # b
    <3>1. S \in SUBSET Keys
      BY DEF Filed
    <3>2. InDay(c, T, a) = InDay(c, S, a)
      BY <2>3, <3>1 DEF InDay, Elsewhere
    <3> QED
      BY <1>1, <1>3, <2>1, <2>3, <3>2
  <2> QED
    BY <2>2, <2>3
<1> HIDE DEF n
<1>6. nBuckets(d) = n /\ n \in Nat \ {0}
  BY <1>1, <1>4 DEF SamePlan, n
<1> QED
  BY <1>2, <1>4, <1>5, <1>6 DEF Filed

\* DoInsert adds one event to the bucket of its day.
LEMMA DoInsertIs ==
  ASSUME NEW c, NEW S, Filed(c, S), NEW ev \in Keys, ev \notin S
  PROVE  /\ Filed(DoInsert(c, ev), S \cup {ev})
         /\ SamePlan(c, DoInsert(c, ev))
         /\ SameTime(c, DoInsert(c, ev))
<1> DEFINE b == Hash(c, ev.ts)
           q == c.buckets[b]
           p == InsertAt(q, Place(q, ev), ev)
           d == [c EXCEPT !.buckets[b] = p]
           T == S \cup {ev}
<1>1. b \in 1 .. nBuckets(c) /\ c \in CalendarTypes /\ S \in SUBSET Keys
  BY HashIs DEF Filed, Keys
<1>2. Sorts(q, InDay(c, S, b))
  BY <1>1 DEF Filed
<1> HIDE DEF q
<1>3. Sorts(p, InDay(c, S, b) \cup {ev})
  <2>1. ev \notin InDay(c, S, b)
    BY DEF InDay
  <2> QED
    BY <1>2, <2>1, SortedInsert
<1> HIDE DEF p
<1>4. InDay(c, S, b) \cup {ev} = InDay(c, T, b)
  BY DEF InDay
<1>5. T \in SUBSET Keys /\ Elsewhere(c, S, T, b)
  BY <1>1 DEF Elsewhere
<1>6. p \in Seq(Keys)
  BY <1>3 DEF Sorts
<1>7. Replaced(c, d, b, p) /\ SameTime(c, d)
  <2>1. c.buckets \in Seq(Seq(Keys)) /\ b \in 1 .. Len(c.buckets)
    BY <1>1 DEF CalendarTypes, nBuckets
  <2>2. [c.buckets EXCEPT ![b] = p] \in Seq(Seq(Keys))
    BY <1>6, <2>1
  <2> HIDE DEF b
  <2>3. d = [c EXCEPT !.buckets = [c.buckets EXCEPT ![b] = p]]
    BY <1>1 DEF CalendarTypes
  <2> QED
    BY <1>1, <2>2, <2>3 DEF CalendarTypes, Replaced, SameTime
<1>8. DoInsert(c, ev) = d
  BY DEF DoInsert, p, q, Place
<1> HIDE DEF d, b, T
<1>9. Filed(d, T) /\ SamePlan(c, d)
  BY <1>1, <1>3, <1>4, <1>5, <1>7, Refiled
<1> QED
  BY <1>7, <1>8, <1>9 DEF T

\* The days the search goes through follow the day of the last event.
LEMMA DayIs ==
  ASSUME NEW c, NEW S, Filed(c, S), Timed(c), NEW k \in Nat
  PROVE  /\ Day(c, k) = (((c.lastPrio \div c.width) + k) % nBuckets(c)) + 1
         /\ DayEnd(c, k) = ((c.lastPrio \div c.width) + k + 1) * c.width
         /\ Day(c, k) \in 1 .. nBuckets(c)
<1> DEFINE w == c.width
           n == nBuckets(c)
           d == c.lastPrio \div w
<1>1. w \in Nat \ {0} /\ n \in Nat \ {0} /\ c.lastPrio \in Nat
  BY DEF Filed, CalendarTypes
<1>2. d \in Nat
  BY <1>1, DayOf
<1>3. c.lastBucket = (d % n) + 1 /\ c.bucketTop = (d + 1) * w
  BY DEF Timed, Hash
<1> HIDE DEF d, n, w
<1>4. ((d % n) + k) % n = (d + k) % n /\ d % n \in 0 .. n - 1
  BY <1>1, <1>2, YearDay
<1>5. c.lastBucket - 1 + k = (d % n) + k
  BY <1>1, <1>3, <1>4
<1>6. Day(c, k) = ((d + k) % n) + 1
  BY <1>4, <1>5 DEF Day, n
<1>7. (d + k) % n \in 0 .. n - 1
  <2> DEFINE e == d + k
  <2>1. e \in Nat /\ 0 \in Nat
    BY <1>2
  <2> HIDE DEF e
  <2>2. e % n \in 0 .. n - 1
    BY <1>1, <2>1, YearDay
  <2> QED
    BY <2>2 DEF e
<1>8. DayEnd(c, k) = (d + k + 1) * w
  <2>1. DayEnd(c, k) = (d + 1) * w + k * w
    BY <1>3 DEF DayEnd, w
  <2> QED
    BY <1>1, <1>2, <2>1
<1> QED
  BY <1>1, <1>6, <1>7, <1>8 DEF d, n, w

\* An event due k days after the last one makes that day one of those found.
LEMMA DueFound ==
  ASSUME NEW c, NEW S, Filed(c, S), Timed(c), NEW k \in Year(c),
         NEW e \in S, e.ts \div c.width = (c.lastPrio \div c.width) + k
  PROVE  /\ k \in DueThisYear(c)
         /\ \/ e = NextEvent(c.buckets[Day(c, k)])
            \/ Less(NextEvent(c.buckets[Day(c, k)]), e)
<1> DEFINE w == c.width
           n == nBuckets(c)
           d == c.lastPrio \div w
           b == Day(c, k)
           q == c.buckets[b]
           f == NextEvent(q)
<1>1. w \in Nat \ {0} /\ n \in Nat \ {0} /\ S \in SUBSET Keys /\ c.lastPrio \in Nat
  BY DEF Filed, CalendarTypes
<1>2. k \in Nat
  BY <1>1 DEF Year
<1>3. b = ((d + k) % n) + 1 /\ DayEnd(c, k) = (d + k + 1) * w /\ b \in 1 .. n
  BY <1>2, DayIs
<1>4. Hash(c, e.ts) = b
  BY <1>3 DEF Hash
<1>5. Sorts(q, InDay(c, S, b)) /\ e \in InDay(c, S, b)
  BY <1>3, <1>4 DEF Filed, InDay
<1> HIDE DEF q, b
<1>6. q # <<>>
  BY <1>5, SortedIsList
<1>7. f \in InDay(c, S, b) /\ (e = f \/ Less(f, e))
  BY <1>5, <1>6, SortedNext
<1>8. e.ts < DayEnd(c, k)
  <2>1. e.ts \in Nat
    BY <1>1 DEF Keys
  <2>2. e.ts < (e.ts \div w + 1) * w
    BY <1>1, <2>1, DayOf
  <2>3. e.ts \div w + 1 = d + k + 1
    BY <1>1, <1>2, DayOf
  <2> QED
    BY <1>3, <2>2, <2>3
<1>9. f.ts < DayEnd(c, k)
  <2>1. f \in Keys /\ e \in Keys
    BY <1>1, <1>7 DEF InDay
  <2>2. f.ts <= e.ts
    BY <1>7, <2>1 DEF Less, Keys
  <2>3. (d + k + 1) * w \in Nat
    BY <1>1, <1>2, DayOf
  <2> QED
    BY <1>3, <1>8, <2>1, <2>2, <2>3 DEF Keys
<1>10. k \in DueThisYear(c)
  BY <1>6, <1>9 DEF DueThisYear, q, b
<1> QED
  BY <1>7, <1>10 DEF q, b

\* What is next in a day that was found is due that day or earlier that year.
LEMMA FoundDue ==
  ASSUME NEW c, NEW S, Filed(c, S), Timed(c), Since(c, S), NEW k \in DueThisYear(c)
  PROVE  /\ k \in Year(c)
         /\ Day(c, k) \in 1 .. nBuckets(c)
         /\ c.buckets[Day(c, k)] # <<>>
         /\ NextEvent(c.buckets[Day(c, k)]) \in S
         /\ \E j \in 0 .. k :
              NextEvent(c.buckets[Day(c, k)]).ts \div c.width = (c.lastPrio \div c.width) + j
<1> DEFINE w == c.width
           n == nBuckets(c)
           d == c.lastPrio \div w
           b == Day(c, k)
           q == c.buckets[b]
           f == NextEvent(q)
<1>1. w \in Nat \ {0} /\ n \in Nat \ {0} /\ S \in SUBSET Keys /\ c.lastPrio \in Nat
  BY DEF Filed, CalendarTypes
<1>2. k \in Year(c) /\ q # <<>> /\ f.ts < DayEnd(c, k)
  BY DEF DueThisYear
<1>3. k \in Nat
  BY <1>1, <1>2 DEF Year
<1>4. DayEnd(c, k) = (d + k + 1) * w /\ b \in 1 .. n
  BY <1>3, DayIs
<1>5. Sorts(q, InDay(c, S, b))
  BY <1>4 DEF Filed
<1> HIDE DEF q, b
<1>6. f \in InDay(c, S, b)
  BY <1>2, <1>5, SortedNext
<1>7. f \in S /\ f.ts \in Nat /\ f.ts >= c.lastPrio
  BY <1>1, <1>6 DEF InDay, Since, Keys
<1> HIDE DEF f
<1> DEFINE t == f.ts
           m == d + k
           p == c.lastPrio
<1>8. t \in Nat /\ p \in Nat /\ m \in Nat /\ t < (m + 1) * w /\ p <= t /\ d \in Nat
  <2>1. d \in Nat
    BY <1>1, DayOf
  <2> HIDE DEF d, w
  <2>2. d + k + 1 = m + 1 /\ m \in Nat
    BY <1>3, <2>1
  <2>3. t < DayEnd(c, k)
    BY <1>2 DEF f, q
  <2>4. DayEnd(c, k) = (m + 1) * w
    BY <1>4, <2>2
  <2> QED
    BY <1>1, <1>7, <2>1, <2>2, <2>3, <2>4
<1>9. t \div w <= m /\ t \div w \in Nat /\ d <= t \div w
  <2> HIDE DEF t, m, p, w
  <2>1. t \div w <= m
    BY <1>1, <1>8, DayBefore
  <2>2. p \div w <= t \div w
    BY <1>1, <1>8, LaterDay
  <2> QED
    BY <1>1, <1>8, <2>1, <2>2, DayOf DEF p
<1> DEFINE j == t \div w - d
<1>10. j \in 0 .. k /\ t \div w = d + j
  <2> HIDE DEF t, w, d
  <2> QED
    BY <1>3, <1>8, <1>9
<1> HIDE DEF j
<1> QED
  BY <1>2, <1>4, <1>7, <1>10 DEF q, b, f

\* r.ev is the earliest event of S, and r.cal what is left of c without it.
Yields(c, S, r) ==
  /\ r.ev \in S
  /\ \A e \in S \ {r.ev} : Less(r.ev, e)
  /\ Filed(r.cal, S \ {r.ev}) /\ Timed(r.cal) /\ SamePlan(c, r.cal)
  /\ r.cal.lastPrio = r.ev.ts

\* c without the next event of bucket b, where the next search starts.
PoppedAt(c, b, top) ==
  [c EXCEPT !.buckets[b] = Pop(@), !.lastBucket = b,
            !.lastPrio = NextEvent(c.buckets[b]).ts, !.bucketTop = top]

\* d is such a calendar: f was the next event of bucket b, and the others are in place.
Pops(c, S, b, f, top, d) ==
  /\ f \in S /\ Hash(c, f.ts) = b
  /\ Filed(d, S \ {f}) /\ SamePlan(c, d)
  /\ d.lastPrio = f.ts /\ d.lastBucket = b /\ d.bucketTop = top

\* Taking the first event of a bucket out leaves the others in order.
LEMMA Popped ==
  ASSUME NEW c, NEW S, Filed(c, S), NEW b \in 1 .. nBuckets(c), c.buckets[b] # <<>>, NEW top \in Nat
  PROVE  Pops(c, S, b, NextEvent(c.buckets[b]), top, PoppedAt(c, b, top))
<1> DEFINE q == c.buckets[b]
           f == NextEvent(q)
           p == Pop(q)
           T == S \ {f}
           d == [c EXCEPT !.buckets[b] = Pop(@), !.lastBucket = b, !.lastPrio = f.ts,
                          !.bucketTop = top]
<1>1. c \in CalendarTypes /\ S \in SUBSET Keys /\ Sorts(q, InDay(c, S, b)) /\ q # <<>>
  BY DEF Filed
<1> HIDE DEF q
<1>2. /\ f \in InDay(c, S, b)
      /\ Sorts(p, InDay(c, S, b) \ {f})
  BY <1>1, SortedNext
<1>3. InDay(c, S, b) \ {f} = InDay(c, T, b)
  BY DEF InDay
<1>4. f \in S /\ f \in Keys /\ Hash(c, f.ts) = b
  BY <1>1, <1>2 DEF InDay
<1>5. T \in SUBSET Keys /\ Elsewhere(c, S, T, b)
  BY <1>1, <1>4 DEF Elsewhere
<1>6. b \in Nat /\ f.ts \in Nat
  BY <1>1, <1>4 DEF CalendarTypes, nBuckets, Keys
<1>7. d = [c EXCEPT !.buckets = [c.buckets EXCEPT ![b] = p], !.lastBucket = b,
                    !.lastPrio = f.ts, !.bucketTop = top]
  BY <1>1 DEF CalendarTypes, q
<1> HIDE DEF d, f, p
<1>8. Replaced(c, d, b, p) /\ d.lastPrio = f.ts /\ d.lastBucket = b /\ d.bucketTop = top
  <2>1. c.buckets \in Seq(Seq(Keys)) /\ b \in 1 .. Len(c.buckets) /\ p \in Seq(Keys)
    BY <1>1, <1>2 DEF CalendarTypes, nBuckets, Sorts
  <2> DEFINE bs == [c.buckets EXCEPT ![b] = p]
  <2>2. bs \in Seq(Seq(Keys))
    BY <2>1
  <2> HIDE DEF bs
  <2>3. d = [c EXCEPT !.buckets = bs, !.lastBucket = b, !.lastPrio = f.ts, !.bucketTop = top]
    BY <1>7 DEF bs
  <2> QED
    BY <1>1, <1>6, <2>2, <2>3 DEF CalendarTypes, Replaced, bs
<1> HIDE DEF T
<1>9. Filed(d, T) /\ SamePlan(c, d)
  BY <1>2, <1>3, <1>5, <1>8, Refiled
<1> QED
  BY <1>4, <1>8, <1>9 DEF d, f, q, T, Pops, PoppedAt

\* An event found in the year that begins with the last one is the earliest of all.
LEMMA NextThisYear ==
  ASSUME NEW c, NEW S, Filed(c, S), Timed(c), Since(c, S), DueThisYear(c) # {}
  PROVE  Yields(c, S, DoRemoveNext(c))
<1> DEFINE w == c.width
           D == c.lastPrio \div w
           due == DueThisYear(c)
           k == Min(due)
           b == Day(c, k)
           f == NextEvent(c.buckets[b])
           top == DayEnd(c, k)
           d == [c EXCEPT !.buckets[b] = Pop(@), !.lastBucket = b, !.lastPrio = f.ts,
                          !.bucketTop = top]
           r == DoRemoveNext(c)
<1>1. w \in Nat \ {0} /\ S \in SUBSET Keys /\ c.lastPrio \in Nat /\ D \in Nat
      /\ nBuckets(c) \in Nat \ {0} /\ c \in CalendarTypes
  BY DayOf DEF Filed, CalendarTypes
<1>2. due \in SUBSET Nat
  BY <1>1 DEF DueThisYear, Year
<1>3. k \in due /\ \A y \in due : k <= y
  <2> HIDE DEF due
  <2>1. \E x \in due : \A y \in due : x <= y
    BY <1>2, LeastNatural DEF due
  <2> QED
    BY <2>1 DEF Min
<1>4. r = [ev |-> f, cal |-> d]
  BY DEF DoRemoveNext
<1> HIDE DEF k, d, r
<1>5. /\ k \in Year(c) /\ b \in 1 .. nBuckets(c) /\ c.buckets[b] # <<>> /\ f \in S
      /\ \E j \in 0 .. k : f.ts \div w = D + j
  BY <1>3, FoundDue
<1>6. k \in Nat /\ top = (D + k + 1) * w
  <2>1. k \in Nat
    BY <1>1, <1>5 DEF Year
  <2> QED
    BY <2>1, DayIs
<1>7. f.ts \div w = D + k
  <2>1. PICK j \in 0 .. k : f.ts \div w = D + j
    BY <1>5
  <2>2. j \in Year(c)
    BY <1>1, <1>5, <2>1 DEF Year
  <2> HIDE DEF f, w, D
  <2>3. f \in S /\ f.ts \div c.width = (c.lastPrio \div c.width) + j
    BY <1>5, <2>1 DEF w, D
  <2>4. j \in due
    BY <2>2, <2>3, DueFound
  <2> QED
    BY <1>3, <1>6, <2>1, <2>4
<1>8. ASSUME NEW e \in S \ {f} PROVE Less(f, e)
  <2>1. e \in Keys /\ f \in Keys /\ e.ts \in Nat /\ f.ts \in Nat
    BY <1>1, <1>5 DEF Keys
  <2> DEFINE x == e.ts
             y == f.ts
  <2>2. x \in Nat /\ y \in Nat /\ x \div w \in Nat /\ x >= c.lastPrio
    BY <1>1, <2>1, DayOf DEF Since
  <2>3. D <= x \div w
    <3> DEFINE p == c.lastPrio
    <3> HIDE DEF x, p, w
    <3> QED
      BY <1>1, <2>2, LaterDay DEF p
  <2>4. CASE x \div w <= D + k
    <3> DEFINE j == x \div w - D
    <3>1. j \in 0 .. k /\ x \div w = D + j
      <4> HIDE DEF x, w, D
      <4> QED
        BY <1>1, <1>6, <2>2, <2>3, <2>4
    <3>2. j \in Year(c) /\ e.ts \div c.width = (c.lastPrio \div c.width) + j
      <4> HIDE DEF j
      <4> QED
        BY <1>1, <1>5, <3>1 DEF Year
    <3> HIDE DEF j, x
    <3>3. j \in due /\ (e = NextEvent(c.buckets[Day(c, j)]) \/ Less(NextEvent(c.buckets[Day(c, j)]), e))
      BY <3>2, DueFound
    <3>4. j = k
      BY <1>3, <1>6, <3>1, <3>3
    <3> QED
      BY <1>8, <3>3, <3>4
  <2>5. CASE ~(x \div w <= D + k)
    <3>1. ~(x <= y)
      <4> SUFFICES ASSUME x <= y PROVE FALSE
        OBVIOUS
      <4>1. y \div w = D + k
        BY <1>7
      <4> HIDE DEF x, y, w
      <4>2. x \div w <= y \div w
        BY <1>1, <2>2, LaterDay
      <4> QED
        BY <2>5, <4>1, <4>2
    <3> QED
      BY <2>1, <2>2, <3>1 DEF Less
  <2> QED
    BY <2>4, <2>5
<1>9. top \in Nat
  BY <1>1, <1>6
<1>10. /\ Hash(c, f.ts) = b
       /\ Filed(d, S \ {f}) /\ SamePlan(c, d)
       /\ d.lastPrio = f.ts /\ d.lastBucket = b /\ d.bucketTop = top
  <2> HIDE DEF b, top
  <2>1. Pops(c, S, b, NextEvent(c.buckets[b]), top, PoppedAt(c, b, top))
    BY <1>5, <1>9, Popped
  <2> QED
    BY <2>1 DEF Pops, PoppedAt, d
<1>11. Timed(d)
  <2>1. d.width = c.width /\ Hash(d, f.ts) = Hash(c, f.ts)
    BY <1>10, SameHash DEF SamePlan
  <2>2. d.bucketTop = (f.ts \div w + 1) * w
    BY <1>6, <1>7, <1>10
  <2> HIDE DEF f, b, top
  <2> QED
    BY <1>10, <2>1, <2>2 DEF Timed
<1> HIDE DEF f
<1> QED
  BY <1>4, <1>5, <1>8, <1>10, <1>11 DEF Yields, r

\* With nothing due this year the earliest of the buckets' next events is the earliest of all.
LEMMA NextLater ==
  ASSUME NEW c, NEW S, Filed(c, S), S # {}, DueThisYear(c) = {}
  PROVE  Yields(c, S, DoRemoveNext(c))
<1> DEFINE w == c.width
           next == {NextEvent(c.buckets[b]) : b \in {d \in DOMAIN c.buckets : c.buckets[d] # <<>>}}
           f == MinEvent(c)
           b == Hash(c, f.ts)
           top == (f.ts \div w + 1) * w
           d == [c EXCEPT !.buckets[b] = Pop(@), !.lastBucket = b, !.lastPrio = f.ts,
                          !.bucketTop = top]
           r == DoRemoveNext(c)
<1>1. w \in Nat \ {0} /\ S \in SUBSET Keys /\ nBuckets(c) \in Nat \ {0} /\ c \in CalendarTypes
  BY DEF Filed, CalendarTypes
<1>2. DOMAIN c.buckets = 1 .. nBuckets(c)
  BY <1>1 DEF CalendarTypes, nBuckets
<1>3. \A a \in 1 .. nBuckets(c) : Sorts(c.buckets[a], InDay(c, S, a))
  BY DEF Filed
<1>4. ASSUME NEW e \in next
      PROVE  e \in S /\ e = NextEvent(c.buckets[Hash(c, e.ts)]) /\ c.buckets[Hash(c, e.ts)] # <<>>
  <2>1. PICK a \in 1 .. nBuckets(c) : c.buckets[a] # <<>> /\ e = NextEvent(c.buckets[a])
    BY <1>2, <1>4
  <2> DEFINE q == c.buckets[a]
  <2>2. Sorts(q, InDay(c, S, a)) /\ q # <<>> /\ e = NextEvent(q)
    BY <1>3, <2>1
  <2> HIDE DEF q
  <2>3. e \in InDay(c, S, a)
    BY <2>2, SortedNext
  <2>4. e \in S /\ Hash(c, e.ts) = a
    BY <2>3 DEF InDay
  <2> QED
    BY <2>1, <2>4
<1>5. ASSUME NEW e \in S PROVE \E g \in next : e = g \/ Less(g, e)
  <2> DEFINE a == Hash(c, e.ts)
             q == c.buckets[a]
  <2>1. a \in 1 .. nBuckets(c)
    <3>1. e.ts \in Nat
      BY <1>1 DEF Keys
    <3> QED
      BY <3>1, HashIs
  <2>2. Sorts(q, InDay(c, S, a)) /\ e \in InDay(c, S, a)
    BY <1>3, <2>1 DEF InDay
  <2> HIDE DEF q
  <2>3. q # <<>>
    BY <2>2, SortedIsList
  <2>4. e = NextEvent(q) \/ Less(NextEvent(q), e)
    BY <2>2, <2>3, SortedNext
  <2>5. NextEvent(q) \in next
    BY <1>2, <2>1, <2>3 DEF q
  <2> QED
    BY <2>4, <2>5
<1>6. next \in SUBSET Keys /\ next # {}
  BY <1>1, <1>4, <1>5
<1>7. f \in next /\ \A g \in next \ {f} : Less(f, g)
  <2>1. f = CHOOSE e \in next : \A g \in next \ {e} : Less(e, g)
    BY DEF MinEvent
  <2> HIDE DEF next, f
  <2>2. \E e \in next : \A g \in next \ {e} : Less(e, g)
    BY <1>6, Earliest
  <2> QED
    BY <2>1, <2>2
<1>8. r = [ev |-> f, cal |-> d]
  BY DEF DoRemoveNext
<1> HIDE DEF next, f, d, r
<1>9. f \in S /\ f \in Keys /\ f.ts \in Nat /\ f = NextEvent(c.buckets[b]) /\ c.buckets[b] # <<>>
  BY <1>1, <1>4, <1>7 DEF Keys
<1>10. b \in 1 .. nBuckets(c)
  BY <1>9, HashIs
<1>11. ASSUME NEW e \in S \ {f} PROVE Less(f, e)
  <2>1. PICK g \in next : e = g \/ Less(g, e)
    BY <1>5
  <2>2. g = f \/ Less(f, g)
    BY <1>7
  <2>3. e \in Keys /\ g \in Keys /\ f \in Keys /\ e # f
    BY <1>1, <1>6, <1>9
  <2> QED
    BY <2>1, <2>2, <2>3, Ordered
<1>12. top \in Nat
  BY <1>1, <1>9, DayOf
<1>13. /\ Filed(d, S \ {f}) /\ SamePlan(c, d)
       /\ d.lastPrio = f.ts /\ d.lastBucket = b /\ d.bucketTop = top
  <2> HIDE DEF b, top
  <2>1. Pops(c, S, b, NextEvent(c.buckets[b]), top, PoppedAt(c, b, top))
    BY <1>9, <1>10, <1>12, Popped
  <2> QED
    BY <1>9, <2>1 DEF Pops, PoppedAt, d
<1>14. Timed(d)
  BY <1>13, SameHash DEF SamePlan, Timed
<1> QED
  BY <1>8, <1>9, <1>11, <1>13, <1>14 DEF Yields, r

\* The search finds the earliest event.
LEMMA DoRemoveNextIs ==
  ASSUME NEW c, NEW S, Filed(c, S), Timed(c), Since(c, S), S # {}
  PROVE  Yields(c, S, DoRemoveNext(c))
BY NextThisYear, NextLater

----------------------------------------------------------------------------
(* Resizing                                                                *)

\* The first k elements of the list q.
Firsts(q, k) == {q[i] : i \in 1 .. k}

\* The next element of a list is a new event.
LEMMA FirstsGrow ==
  ASSUME NEW q, NEW T, Lists(q, T), NEW k \in 1 .. Len(q)
  PROVE  /\ q[k] \in Keys /\ q[k] \in T
         /\ q[k] \notin Firsts(q, k - 1)
         /\ Firsts(q, k) = Firsts(q, k - 1) \cup {q[k]}
         /\ Firsts(q, k) \subseteq T
<1>1. q \in Seq(Keys) /\ Len(q) \in Nat
  BY DEF Lists
<1>2. q[k] \in Keys /\ q[k] \in T /\ Firsts(q, k) \subseteq T
  BY <1>1 DEF Lists, Firsts
<1>3. q[k] \notin Firsts(q, k - 1)
  BY <1>1 DEF Lists, Firsts, Distinct
<1>4. Firsts(q, k) = Firsts(q, k - 1) \cup {q[k]}
  <2>1. 1 .. k = (1 .. k - 1) \cup {k}
    BY <1>1
  <2> QED
    BY <2>1 DEF Firsts
<1> QED
  BY <1>2, <1>3, <1>4

\* All elements together are the events of the list.
LEMMA FirstsAre ==
  ASSUME NEW q, NEW T, Lists(q, T)
  PROVE  Firsts(q, Len(q)) = T /\ Firsts(q, 0) = {} /\ Len(q) \in Nat
<1>1. q \in Seq(Keys)
  BY DEF Lists
<1> QED
  BY <1>1 DEF Lists, Firsts

\* A list has as many elements as its set.
LEMMA ListCounts ==
  ASSUME NEW q, NEW T, Lists(q, T)
  PROVE  IsFiniteSet(T) /\ Cardinality(T) = Len(q)
<1> DEFINE n == Len(q)
           A == 1 .. n
<1>1. q \in Seq(Keys) /\ n \in Nat
  BY DEF Lists
<1>2. IsFiniteSet(A) /\ Cardinality(A) = n
  <2>1. 1 \in Int /\ n \in Int
    BY <1>1
  <2>2. IsFiniteSet(A) /\ Cardinality(A) = IF 1 > n THEN 0 ELSE n - 1 + 1
    <3> HIDE DEF n
    <3> QED
      BY <2>1, FS_Interval
  <2> QED
    BY <1>1, <2>2
<1>3. q \in Bijection(A, T)
  <2>1. DOMAIN q = A /\ q \in [A -> T]
    BY <1>1 DEF Lists
  <2>2. IsInjective(q)
    BY <2>1 DEF Lists, Distinct, IsInjective
  <2>3. \A t \in T : \E a \in A : q[a] = t
    BY DEF Lists
  <2> QED
    BY <2>1, <2>2, <2>3 DEF Bijection, Injection, Surjection
<1> HIDE DEF A, n
<1>4. ExistsBijection(A, T)
  BY <1>3 DEF ExistsBijection
<1>5. IsFiniteSet(T) /\ Cardinality(T) = Cardinality(A)
  BY <1>2, <1>4, FS_Bijection
<1> QED
  BY <1>2, <1>5 DEF n

\* What the calendar is after k of the events of q were put into c.
Inserting(c, R, q, k) ==
  {d \in CalendarTypes : Filed(d, R \cup Firsts(q, k)) /\ SamePlan(c, d) /\ SameTime(c, d)}

\* InsertAll adds every event of a list.
LEMMA InsertAllIs ==
  ASSUME NEW c, NEW R, Filed(c, R), NEW q, NEW T, Lists(q, T), R \cap T = {}
  PROVE  /\ Filed(InsertAll(c, q), R \cup T)
         /\ SamePlan(c, InsertAll(c, q))
         /\ SameTime(c, InsertAll(c, q))
<1> DEFINE n == Len(q)
           D == [k \in 0 .. n |-> Inserting(c, R, q, k)]
           s == [z \in (1 .. n) \X CalendarTypes |-> DoInsert(z[2], q[z[1]])]
           after == CHOOSE a : a = [k \in 0 .. n |-> IF k = 0 THEN c ELSE DoInsert(a[k - 1], q[k])]
<1>1. n \in Nat /\ Firsts(q, n) = T /\ Firsts(q, 0) = {}
  BY FirstsAre
<1>2. \A k \in 1 .. n : \A y \in D[k - 1] : s[<<k, y>>] = DoInsert(y, q[k]) /\ DoInsert(y, q[k]) \in D[k]
  <2> SUFFICES ASSUME NEW k \in 1 .. n, NEW y \in D[k - 1]
               PROVE  s[<<k, y>>] = DoInsert(y, q[k]) /\ DoInsert(y, q[k]) \in D[k]
    OBVIOUS
  <2>1. k - 1 \in 0 .. n /\ k \in 0 .. n
        /\ D[k - 1] = Inserting(c, R, q, k - 1) /\ D[k] = Inserting(c, R, q, k)
    BY <1>1
  <2> DEFINE P == R \cup Firsts(q, k - 1)
             ev == q[k]
             w == DoInsert(y, ev)
  <2>2. y \in CalendarTypes /\ Filed(y, P) /\ SamePlan(c, y) /\ SameTime(c, y)
    BY <2>1 DEF Inserting
  <2>3. s[<<k, y>>] = DoInsert(y, q[k])
    BY <2>2
  <2> HIDE DEF D, s
  <2>4. ev \in Keys /\ ev \notin P /\ P \cup {ev} = R \cup Firsts(q, k)
    BY FirstsGrow
  <2> HIDE DEF P, ev
  <2>5. Filed(w, P \cup {ev}) /\ SamePlan(y, w) /\ SameTime(y, w)
    BY <2>2, <2>4, DoInsertIs
  <2> HIDE DEF w
  <2>6. w \in Inserting(c, R, q, k)
    BY <2>2, <2>4, <2>5 DEF Inserting, Filed, SamePlan, SameTime
  <2> QED
    BY <2>1, <2>3, <2>6 DEF w, ev
<1>3. c \in D[0]
  <2>1. R \cup Firsts(q, 0) = R
    BY <1>1
  <2>2. c \in CalendarTypes /\ SamePlan(c, c) /\ SameTime(c, c) /\ Filed(c, R \cup Firsts(q, 0))
    BY <2>1 DEF Filed, SamePlan, SameTime
  <2>3. c \in Inserting(c, R, q, 0)
    BY <2>2 DEF Inserting
  <2> QED
    BY <1>1, <2>3
<1> HIDE DEF D, s, n
<1>4. PICK r : Runs(n, c, s, r) /\ Stays(n, D, r)
  <2>1. Closed(n, D, s)
    BY <1>2 DEF Closed
  <2> QED
    BY <1>1, <1>3, <2>1, Turns
<1>5. r = [k \in 0 .. n |-> IF k = 0 THEN c ELSE DoInsert(r[k - 1], q[k])]
  BY <1>1, <1>2, <1>4 DEF Runs, Stays
<1>6. after = [k \in 0 .. n |-> IF k = 0 THEN c ELSE DoInsert(after[k - 1], q[k])]
  BY <1>5, Zenon
<1>7. InsertAll(c, q) = after[n]
  BY DEF InsertAll, Repeat, n
<1> HIDE DEF after
<1>8. after[n] \in D[n]
  <2>1. after[0] \in D[0]
    BY <1>1, <1>3, <1>6
  <2>2. ASSUME NEW k \in 1 .. n, after[k - 1] \in D[k - 1] PROVE after[k] \in D[k]
    <3>1. k \in 0 .. n /\ k # 0
      BY <1>1
    <3>2. after[k] = DoInsert(after[k - 1], q[k])
      BY <1>6, <3>1
    <3> QED
      BY <1>2, <2>2, <3>2
  <2>3. Keeps(n, D, after)
    BY <2>1, <2>2 DEF Keeps
  <2> QED
    BY <1>1, <2>3, Kept
<1> QED
  BY <1>1, <1>7, <1>8 DEF D, Inserting

\* A list grows by an event it does not hold.
LEMMA ListAppend ==
  ASSUME NEW q, NEW T, Lists(q, T), NEW ev \in Keys, ev \notin T
  PROVE  Lists(Append(q, ev), T \cup {ev}) /\ Len(Append(q, ev)) = Len(q) + 1
<1> DEFINE g == Append(q, ev)
           n == Len(q) + 1
<1>1. q \in Seq(Keys) /\ n \in Nat \ {0} /\ g \in Seq(Keys) /\ Len(g) = n /\ g[n] = ev
      /\ \A i \in 1 .. n - 1 : g[i] = q[i]
  BY DEF Lists
<1>2. \A i \in 1 .. n - 1 : q[i] \in T
  BY <1>1 DEF Lists
<1> HIDE DEF g
<1>3. Distinct(g)
  <2> SUFFICES ASSUME NEW i \in 1 .. n, NEW j \in 1 .. n, g[i] = g[j] PROVE i = j
    BY <1>1 DEF Distinct
  <2>1. CASE i = n \/ j = n
    BY <1>1, <1>2, <2>1
  <2>2. CASE i \in 1 .. n - 1 /\ j \in 1 .. n - 1
    BY <1>1, <2>2 DEF Lists, Distinct
  <2> QED
    BY <1>1, <2>1, <2>2
<1>4. \A i \in 1 .. n : g[i] \in T \cup {ev}
  BY <1>1, <1>2
<1>5. \A e \in T \cup {ev} : \E i \in 1 .. n : g[i] = e
  BY <1>1 DEF Lists
<1> QED
  BY <1>1, <1>3, <1>4, <1>5 DEF Lists, g

\* What a calendar yields leaves it ready for the next search.
LEMMA YieldsSince ==
  ASSUME NEW c, NEW S \in SUBSET Keys, NEW r, Yields(c, S, r)
  PROVE  Since(r.cal, S \ {r.ev}) /\ r.ev \in Keys /\ r.cal \in CalendarTypes /\ r.cal.lastPrio = r.ev.ts
<1> DEFINE T == S \ {r.ev}
<1>1. r.ev \in S /\ (\A e \in T : Less(r.ev, e)) /\ Filed(r.cal, T) /\ r.cal.lastPrio = r.ev.ts
  BY DEF Yields
<1>2. T \in SUBSET Keys /\ r.cal \in CalendarTypes
  BY <1>1 DEF Filed
<1>3. ASSUME NEW e \in T PROVE e.ts >= r.cal.lastPrio
  <2>1. e \in Keys /\ r.ev \in Keys /\ Less(r.ev, e)
    BY <1>1
  <2> QED
    BY <1>1, <2>1 DEF Less, Keys
<1> QED
  BY <1>1, <1>2, <1>3 DEF Since

\* The samples come in the order of their times, the last one at the time reached.
InTime(r) ==
  /\ \A i \in 1 .. Len(r.taken) - 1 : r.taken[i].ts <= r.taken[i + 1].ts
  /\ r.taken # <<>> => r.taken[Len(r.taken)].ts = r.cal.lastPrio

\* What k samples leave of c, and the samples.
Sampled(c, S, k) ==
  {r \in [cal : CalendarTypes, taken : Seq(Keys)] :
     \E T \in SUBSET S :
       /\ Lists(r.taken, T) /\ Len(r.taken) = k
       /\ Filed(r.cal, S \ T) /\ Timed(r.cal) /\ Since(r.cal, S \ T) /\ SamePlan(c, r.cal)
       /\ InTime(r)}

\* A turn of the sampling takes out the next event.
LEMMA SampleIs ==
  ASSUME NEW c, NEW S \in SUBSET Keys, IsFiniteSet(S), NEW k \in Nat, k < Cardinality(S),
         NEW y \in Sampled(c, S, k), NEW j
  PROVE  Sample(y, j) \in Sampled(c, S, k + 1)
<1>1. PICK T \in SUBSET S :
        /\ Lists(y.taken, T) /\ Len(y.taken) = k
        /\ Filed(y.cal, S \ T) /\ Timed(y.cal) /\ Since(y.cal, S \ T) /\ SamePlan(c, y.cal)
        /\ InTime(y)
  BY DEF Sampled
<1> DEFINE R == S \ T
           x == DoRemoveNext(y.cal)
           ev == x.ev
           d == x.cal
           q == Append(y.taken, ev)
           U == T \cup {ev}
<1>2. R # {}
  <2> SUFFICES ASSUME T = S PROVE FALSE
    BY <1>1
  <2>1. Cardinality(S) = k
    BY <1>1, ListCounts
  <2> QED
    BY <2>1
<1>3. Yields(y.cal, R, x)
  BY <1>1, <1>2, DoRemoveNextIs
<1> HIDE DEF x
<1>4. /\ Since(d, R \ {ev}) /\ d \in CalendarTypes
      /\ ev \in R /\ Filed(d, R \ {ev}) /\ Timed(d) /\ SamePlan(y.cal, d)
      /\ d.lastPrio = ev.ts
  <2>1. R \in SUBSET Keys
    OBVIOUS
  <2> HIDE DEF R
  <2> QED
    BY <1>3, <2>1, YieldsSince DEF Yields
<1>5. R \ {ev} = S \ U /\ U \in SUBSET S /\ ev \in Keys /\ ev \notin T
  BY <1>1, <1>4
<1>6. ev.ts >= y.cal.lastPrio
  BY <1>1, <1>4 DEF Since
<1> HIDE DEF R, ev, d
<1>7. Lists(q, U) /\ Len(q) = k + 1
  BY <1>1, <1>5, ListAppend
<1>8. q \in Seq(Keys)
  BY <1>7 DEF Lists
<1>9. SamePlan(c, d)
  BY <1>1, <1>4 DEF SamePlan
<1>10. Sample(y, j) = [cal |-> d, taken |-> q]
  BY DEF Sample, d, ev, x
<1>11. InTime([cal |-> d, taken |-> q])
  <2>1. y.taken \in Seq(Keys) /\ k \in Nat /\ Len(y.taken) = k
    BY <1>1 DEF Lists
  <2>2. q[k + 1] = ev /\ \A i \in 1 .. k : q[i] = y.taken[i]
    BY <1>5, <2>1
  <2>3. k > 0 => y.taken[k].ts = y.cal.lastPrio
    BY <1>1, <2>1 DEF InTime
  <2> HIDE DEF q
  <2>4. ASSUME NEW i \in 1 .. k PROVE q[i].ts <= q[i + 1].ts
    <3>1. CASE i = k
      <4>1. y.cal.lastPrio \in Nat /\ ev.ts \in Nat
        BY <1>1, <1>5 DEF Filed, CalendarTypes, Keys
      <4> QED
        <5>1. k \in 1 .. k /\ k > 0
          BY <2>1, <3>1
        <5>2. q[k].ts = y.cal.lastPrio /\ q[k + 1].ts = ev.ts
          BY <2>2, <2>3, <5>1
        <5> QED
          BY <1>6, <3>1, <4>1, <5>2
    <3>2. CASE i # k
      <4>1. i \in 1 .. k - 1 /\ i + 1 \in 1 .. k
        BY <2>1, <3>2
      <4> QED
        BY <1>1, <2>1, <2>2, <4>1 DEF InTime
    <3> QED
      BY <3>1, <3>2
  <2>5. Len(q) = k + 1 /\ Len(q) - 1 = k
    BY <1>7, <2>1
  <2> QED
    BY <1>4, <2>2, <2>4, <2>5 DEF InTime
<1> HIDE DEF q, U
<1>12. [cal |-> d, taken |-> q] \in Sampled(c, S, k + 1)
  BY <1>4, <1>5, <1>7, <1>8, <1>9, <1>11 DEF Sampled
<1> QED
  BY <1>10, <1>12

\* The samples are events of the calendar, each once, and it still holds the others.
LEMMA SamplesAre ==
  ASSUME NEW c, NEW S, Filed(c, S), Timed(c), Since(c, S), IsFiniteSet(S),
         NEW n \in Nat, n <= Cardinality(S)
  PROVE  Samples(c, n) \in Sampled(c, S, n)
<1> DEFINE x == [cal |-> c, taken |-> <<>>]
           D == [k \in 0 .. n |-> Sampled(c, S, k)]
           s == [z \in (1 .. n) \X [cal : CalendarTypes, taken : Seq(Keys)] |-> Sample(z[2], z[1])]
           after == CHOOSE a : a = [k \in 0 .. n |-> IF k = 0 THEN x ELSE Sample(a[k - 1], k)]
<1>1. S \in SUBSET Keys /\ c \in CalendarTypes /\ Cardinality(S) \in Nat
  BY FS_CardinalityType DEF Filed
<1>2. \A k \in 1 .. n : \A y \in D[k - 1] : s[<<k, y>>] = Sample(y, k) /\ Sample(y, k) \in D[k]
  <2> SUFFICES ASSUME NEW k \in 1 .. n, NEW y \in D[k - 1]
               PROVE  s[<<k, y>>] = Sample(y, k) /\ Sample(y, k) \in D[k]
    OBVIOUS
  <2> DEFINE l == k - 1
  <2>1. l \in 0 .. n /\ k \in 0 .. n /\ l + 1 = k /\ l \in Nat /\ l < Cardinality(S)
        /\ D[k - 1] = Sampled(c, S, l) /\ D[k] = Sampled(c, S, k)
    BY <1>1
  <2>2. y \in Sampled(c, S, l)
    BY <2>1
  <2>3. s[<<k, y>>] = Sample(y, k)
    BY <2>2 DEF Sampled
  <2> HIDE DEF D, s, l
  <2>4. Sample(y, k) \in Sampled(c, S, l + 1)
    BY <1>1, <2>1, <2>2, SampleIs
  <2> QED
    BY <2>1, <2>3, <2>4
<1>3. x \in D[0]
  <2>1. Lists(<<>>, {}) /\ Len(<<>>) = 0 /\ <<>> \in Seq(Keys)
    BY DEF Lists, Distinct
  <2>2. S \ {} = S /\ SamePlan(c, c)
    BY DEF SamePlan
  <2>3. x \in Sampled(c, S, 0)
    <3>1. Filed(c, S \ {}) /\ Since(c, S \ {})
      BY <2>2
    <3>2. x \in [cal : CalendarTypes, taken : Seq(Keys)] /\ x.taken = <<>> /\ x.cal = c
          /\ {} \in SUBSET S
      BY <1>1, <2>1
    <3> HIDE DEF x
    <3>3. InTime(x)
      BY <3>2 DEF InTime
    <3>4. \E T \in SUBSET S :
            /\ Lists(x.taken, T) /\ Len(x.taken) = 0
            /\ Filed(x.cal, S \ T) /\ Timed(x.cal) /\ Since(x.cal, S \ T) /\ SamePlan(c, x.cal)
            /\ InTime(x)
      BY <2>1, <2>2, <3>1, <3>2, <3>3
    <3> QED
      BY <3>2, <3>4 DEF Sampled
  <2> QED
    BY <2>3
<1> HIDE DEF D, s, x
<1>4. PICK r : Runs(n, x, s, r) /\ Stays(n, D, r)
  <2>1. Closed(n, D, s)
    BY <1>2 DEF Closed
  <2> QED
    BY <1>3, <2>1, Turns
<1>5. r = [k \in 0 .. n |-> IF k = 0 THEN x ELSE Sample(r[k - 1], k)]
  BY <1>2, <1>4 DEF Runs, Stays
<1>6. after = [k \in 0 .. n |-> IF k = 0 THEN x ELSE Sample(after[k - 1], k)]
  BY <1>5, Zenon
<1>7. Samples(c, n) = after[n]
  BY DEF Samples, Repeat, x
<1> HIDE DEF after
<1>8. after[n] \in D[n]
  <2>1. after[0] \in D[0]
    BY <1>3, <1>6
  <2>2. ASSUME NEW k \in 1 .. n, after[k - 1] \in D[k - 1] PROVE after[k] \in D[k]
    <3>1. k \in 0 .. n /\ k # 0
      OBVIOUS
    <3>2. after[k] = Sample(after[k - 1], k)
      BY <1>6, <3>1
    <3> QED
      BY <1>2, <2>2, <3>2
  <2>3. Keeps(n, D, after)
    BY <2>1, <2>2 DEF Keeps
  <2> QED
    BY <2>3, Kept
<1> QED
  BY <1>7, <1>8 DEF D

\* No gap between two samples is negative: the unsigned subtractions of
\* CalculateNewWidth do not wrap around.
THEOREM SamplesInOrder ==
  ASSUME NEW c, NEW S, Holds(c, S), IsFiniteSet(S), NEW n \in Nat, n <= Cardinality(S)
  PROVE  \A i \in 1 .. n - 1 : Samples(c, n).taken[i + 1].ts - Samples(c, n).taken[i].ts \in Nat
<1> DEFINE s == Samples(c, n)
<1>1. s \in Sampled(c, S, n)
  BY SamplesAre DEF Holds
<1> HIDE DEF s
<1>2. s.taken \in Seq(Keys) /\ Len(s.taken) = n /\ InTime(s)
  BY <1>1 DEF Sampled
<1> SUFFICES ASSUME NEW i \in 1 .. n - 1 PROVE s.taken[i + 1].ts - s.taken[i].ts \in Nat
  BY DEF s
<1>3. i \in 1 .. n /\ i + 1 \in 1 .. n
  OBVIOUS
<1>4. s.taken[i] \in Keys /\ s.taken[i + 1] \in Keys
  BY <1>2, <1>3
<1>5. s.taken[i].ts <= s.taken[i + 1].ts
  BY <1>2 DEF InTime
<1> QED
  BY <1>4, <1>5 DEF Keys

\* Taking samples and putting them back changes nothing but the order things are done in.
LEMMA ResampledIs ==
  ASSUME NEW c, NEW S, Filed(c, S), Timed(c), Since(c, S), IsFiniteSet(S),
         NEW n \in Nat, n <= Cardinality(S)
  PROVE  Filed(Resampled(c, n), S) /\ SamePlan(c, Resampled(c, n)) /\ SameTime(c, Resampled(c, n))
<1> DEFINE s == Samples(c, n)
           d == s.cal
           q == s.taken
           e == InsertAll(d, q)
           f == [e EXCEPT !.lastBucket = c.lastBucket, !.bucketTop = c.bucketTop, !.lastPrio = c.lastPrio]
<1>1. s \in Sampled(c, S, n)
  BY SamplesAre
<1> HIDE DEF s
<1>2. PICK T \in SUBSET S : Lists(q, T) /\ Filed(d, S \ T) /\ SamePlan(c, d)
  BY <1>1 DEF Sampled
<1> DEFINE R == S \ T
<1>3. R \cap T = {} /\ R \cup T = S /\ Filed(d, R)
  BY <1>2
<1> HIDE DEF R, d, q
<1>4. Filed(e, S) /\ SamePlan(d, e)
  <2>1. Filed(e, R \cup T) /\ SamePlan(d, e)
    BY <1>2, <1>3, InsertAllIs
  <2> QED
    BY <1>3, <2>1
<1> HIDE DEF e
<1>5. e \in CalendarTypes /\ c \in CalendarTypes
  BY <1>4 DEF Filed
<1>6. f \in CalendarTypes /\ f.buckets = e.buckets /\ f.width = e.width /\ SameTime(c, f)
  BY <1>5 DEF CalendarTypes, SameTime
<1> HIDE DEF f
<1>7. SamePlan(e, f)
  BY <1>6 DEF SamePlan, nBuckets
<1>8. Filed(f, S)
  <2>1. \A b : InDay(f, S, b) = InDay(e, S, b)
    BY <1>7, SameHash DEF InDay
  <2> QED
    BY <1>4, <1>6, <1>7, <2>1 DEF Filed, SamePlan
<1>9. Resampled(c, n) = f
  BY DEF Resampled, f, e, d, q, s
<1>10. SamePlan(c, f)
  BY <1>2, <1>4, <1>7 DEF SamePlan
<1> QED
  BY <1>6, <1>8, <1>9, <1>10

\* A sum of natural numbers is one.
LEMMA TotalIs ==
  ASSUME NEW n \in Nat, NEW gap, \A k \in 1 .. n : gap[k] \in Nat
  PROVE  Total(n, gap) \in Nat
<1> DEFINE D == [k \in 0 .. n |-> Nat]
           s == [z \in (1 .. n) \X Nat |-> z[2] + gap[z[1]]]
           after == CHOOSE a : a = [k \in 0 .. n |-> IF k = 0 THEN 0 ELSE a[k - 1] + gap[k]]
<1>1. \A k \in 1 .. n : \A y \in D[k - 1] : s[<<k, y>>] = y + gap[k] /\ y + gap[k] \in D[k]
  OBVIOUS
<1>2. 0 \in D[0]
  OBVIOUS
<1> HIDE DEF D, s
<1>3. PICK r : Runs(n, 0, s, r) /\ Stays(n, D, r)
  <2> DEFINE x == 0
  <2>1. Closed(n, D, s) /\ x \in D[0]
    BY <1>1, <1>2 DEF Closed
  <2> HIDE DEF x
  <2>2. \E r : Runs(n, x, s, r) /\ Stays(n, D, r)
    BY <2>1, Turns
  <2> QED
    BY <2>2 DEF x
<1>4. r = [k \in 0 .. n |-> IF k = 0 THEN 0 ELSE r[k - 1] + gap[k]]
  BY <1>1, <1>3 DEF Runs, Stays
<1>5. after = [k \in 0 .. n |-> IF k = 0 THEN 0 ELSE after[k - 1] + gap[k]]
  BY <1>4, Zenon
<1>6. Total(n, gap) = after[n]
  BY DEF Total, Repeat
<1> HIDE DEF after
<1>7. after[n] \in D[n]
  <2>1. after[0] \in D[0]
    BY <1>2, <1>5
  <2>2. ASSUME NEW k \in 1 .. n, after[k - 1] \in D[k - 1] PROVE after[k] \in D[k]
    <3>1. k \in 0 .. n /\ k # 0
      OBVIOUS
    <3>2. after[k] = after[k - 1] + gap[k]
      BY <1>5, <3>1
    <3> QED
      BY <1>1, <2>2, <3>2
  <2>3. Keeps(n, D, after)
    BY <2>1, <2>2 DEF Keeps
  <2> QED
    BY <2>3, Kept
<1> QED
  BY <1>6, <1>7 DEF D

\* At least two events are sampled, and no more than there are.
LEMMA nSamplesIs ==
  ASSUME NEW size \in Nat, size >= 2
  PROVE  nSamples(size) \in 2 .. size
<1>1. CASE size <= 5
  BY <1>1 DEF nSamples
<1>2. CASE size > 5
  <2> DEFINE m == 5 + (size \div 10)
             T == {m, 25}
  <2>1. m \in 5 .. size
    BY <1>2
  <2>2. nSamples(size) = CHOOSE x \in T : \A y \in T : x <= y
    BY <1>2 DEF nSamples, Min
  <2> HIDE DEF m
  <2>3. \E x \in T : \A y \in T : x <= y
    BY <2>1
  <2> HIDE DEF T
  <2>4. nSamples(size) \in T /\ \A y \in T : nSamples(size) <= y
    BY <2>2, <2>3
  <2> QED
    BY <2>1, <2>4 DEF T
<1> QED
  BY <1>1, <1>2

\* Days have a positive width.
LEMMA NewWidthIs ==
  ASSUME NEW c, NEW S, Filed(c, S), Timed(c), Since(c, S), IsFiniteSet(S),
         NEW size \in Nat, size <= Cardinality(S)
  PROVE  CalculateNewWidth(c, size) \in Nat \ {0}
<1>1. CASE size < 2
  BY <1>1 DEF CalculateNewWidth
<1>2. CASE size >= 2
  <2> DEFINE n == nSamples(size)
             taken == Samples(c, n).taken
             gap == [i \in 1 .. n - 1 |-> taken[i + 1].ts - taken[i].ts]
             twiceAvg == (Total(n - 1, gap) \div (n - 1)) * 2
             usual == [i \in 1 .. n - 1 |-> IF gap[i] <= twiceAvg THEN gap[i] ELSE 0]
             sum == Total(n - 1, usual)
             T == {3 * sum, 1}
  <2>1. n \in 2 .. size
    BY <1>2, nSamplesIs
  <2>2. CalculateNewWidth(c, size) = Max(T)
    <3>1. ~(size < 2)
      BY <1>2
    <3> QED
      BY <3>1 DEF CalculateNewWidth
  <2> HIDE DEF n, taken, twiceAvg
  <2>3. n \in Nat /\ n <= Cardinality(S) /\ n - 1 \in Nat
    <3>1. Cardinality(S) \in Nat
      BY FS_CardinalityType
    <3> QED
      BY <2>1, <3>1
  <2>4. Holds(c, S)
    BY DEF Holds
  <2>5. \A i \in 1 .. n - 1 : taken[i + 1].ts - taken[i].ts \in Nat
    BY <2>3, <2>4, SamplesInOrder DEF taken
  <2>6. \A i \in 1 .. n - 1 : usual[i] \in Nat
    BY <2>5
  <2> DEFINE m == n - 1
  <2>7. sum = Total(m, usual) /\ m \in Nat /\ \A i \in 1 .. m : usual[i] \in Nat
    BY <2>3, <2>6
  <2> HIDE DEF gap, usual, sum, m
  <2>8. sum \in Nat
    BY <2>7, TotalIs
  <2>9. \E x \in T : \A y \in T : x >= y
    BY <2>8
  <2>10. Max(T) \in T /\ \A y \in T : Max(T) >= y
    BY <2>9 DEF Max
  <2> QED
    BY <2>2, <2>8, <2>10
<1> QED
  BY <1>1, <1>2

\* A calendar just initialized is empty and its search starts at the time given.
LEMMA CalendarIs ==
  ASSUME NEW n \in Nat \ {0}, NEW w \in Nat \ {0}, NEW t \in Nat
  PROVE  /\ Filed(Calendar(n, w, t), {}) /\ Timed(Calendar(n, w, t))
         /\ nBuckets(Calendar(n, w, t)) = n
         /\ Calendar(n, w, t).lastPrio = t
<1> DEFINE c == Calendar(n, w, t)
           bs == [b \in 1 .. n |-> <<>>]
           d == t \div w
           i == (d % n) + 1
           top == (d + 1) * w
<1>1. c = [buckets |-> bs, width |-> w, lastPrio |-> t, lastBucket |-> i, bucketTop |-> top]
  BY DEF Calendar
<1>2. bs \in Seq(Seq(Keys)) /\ Len(bs) = n /\ \A b \in 1 .. n : bs[b] = <<>>
  <2>1. \A b \in 1 .. n : bs[b] = <<>>
    OBVIOUS
  <2>2. bs \in [1 .. n -> Seq(Keys)]
    OBVIOUS
  <2> HIDE DEF bs
  <2> QED
    BY <2>1, <2>2
<1>3. d \in Nat /\ top \in Nat
  <2>1. d \in Nat
    BY DayOf
  <2> HIDE DEF d
  <2> QED
    BY <2>1
<1> HIDE DEF d, bs, top
<1>4. i \in Nat
  <2>1. d % n \in 0 .. n - 1
    BY <1>3, YearDay, 0 \in Nat
  <2> QED
    BY <2>1
<1> HIDE DEF i, c
<1>5. c \in CalendarTypes /\ nBuckets(c) = n
  BY <1>1, <1>2, <1>3, <1>4 DEF CalendarTypes, nBuckets
<1>6. Sorts(<<>>, {})
  BY DEF Sorts
<1>7. Filed(c, {})
  <2>1. \A b : InDay(c, {}, b) = {}
    BY DEF InDay
  <2>2. \A b \in 1 .. n : c.buckets[b] = <<>>
    BY <1>1, <1>2
  <2> QED
    BY <1>5, <1>6, <2>1, <2>2 DEF Filed
<1>8. Timed(c)
  BY <1>1, <1>5 DEF Timed, Hash, i, top, d
<1> QED
  BY <1>1, <1>5, <1>7, <1>8 DEF c

\* The events of the first k buckets of c.
UpTo(c, S, k) == {e \in S : Hash(c, e.ts) \in 1 .. k}

\* The new calendar after the events of k buckets of c were moved.
Moving(c, S, new, k) ==
  {d \in CalendarTypes : Filed(d, UpTo(c, S, k)) /\ SamePlan(new, d) /\ SameTime(new, d)}

\* DoResize moves every event of every bucket into the new calendar.
LEMMA MovedIs ==
  ASSUME NEW c, NEW S, Filed(c, S), NEW new, Filed(new, {})
  PROVE  /\ Filed(Moved(c, new), S)
         /\ SamePlan(new, Moved(c, new))
         /\ SameTime(new, Moved(c, new))
<1> DEFINE n == nBuckets(c)
           q(k) == c.buckets[k]
           D == [k \in 0 .. n |-> Moving(c, S, new, k)]
           s == [z \in (1 .. n) \X CalendarTypes |-> InsertAll(z[2], q(z[1]))]
           after == CHOOSE a : a = [k \in 0 .. n |-> IF k = 0 THEN new ELSE InsertAll(a[k - 1], q(k))]
<1>1. n \in Nat \ {0} /\ S \in SUBSET Keys
  BY DEF Filed
<1>2. \A k \in 1 .. n : \A y \in D[k - 1] : s[<<k, y>>] = InsertAll(y, q(k)) /\ InsertAll(y, q(k)) \in D[k]
  <2> SUFFICES ASSUME NEW k \in 1 .. n, NEW y \in D[k - 1]
               PROVE  s[<<k, y>>] = InsertAll(y, q(k)) /\ InsertAll(y, q(k)) \in D[k]
    OBVIOUS
  <2>1. k - 1 \in 0 .. n /\ k \in 0 .. n
        /\ D[k - 1] = Moving(c, S, new, k - 1) /\ D[k] = Moving(c, S, new, k)
    BY <1>1
  <2> DEFINE R == UpTo(c, S, k - 1)
             T == InDay(c, S, k)
             p == q(k)
             w == InsertAll(y, p)
  <2>2. y \in CalendarTypes /\ Filed(y, R) /\ SamePlan(new, y) /\ SameTime(new, y)
    BY <2>1 DEF Moving
  <2>3. s[<<k, y>>] = InsertAll(y, q(k))
    BY <2>2
  <2> HIDE DEF D, s
  <2>4. Sorts(p, T)
    BY DEF Filed
  <2>5. R \cap T = {} /\ R \cup T = UpTo(c, S, k)
    <3>1. 1 .. k = (1 .. k - 1) \cup {k} /\ k \notin 1 .. k - 1
      BY <1>1
    <3> QED
      BY <3>1 DEF UpTo, InDay
  <2> HIDE DEF R, T, p, q
  <2>6. Lists(p, T)
    BY <2>4, SortedIsList
  <2>7. Filed(w, R \cup T) /\ SamePlan(y, w) /\ SameTime(y, w)
    BY <2>2, <2>5, <2>6, InsertAllIs
  <2> HIDE DEF w
  <2>8. w \in Moving(c, S, new, k)
    BY <2>2, <2>5, <2>7 DEF Moving, Filed, SamePlan, SameTime
  <2> QED
    BY <2>1, <2>3, <2>8 DEF w, p
<1>3. new \in D[0]
  <2>1. UpTo(c, S, 0) = {}
    BY DEF UpTo
  <2>2. new \in CalendarTypes /\ SamePlan(new, new) /\ SameTime(new, new) /\ Filed(new, UpTo(c, S, 0))
    BY <2>1 DEF Filed, SamePlan, SameTime
  <2>3. new \in Moving(c, S, new, 0)
    BY <2>2 DEF Moving
  <2> QED
    BY <1>1, <2>3
<1> HIDE DEF D, s, n, q
<1>4. PICK r : Runs(n, new, s, r) /\ Stays(n, D, r)
  <2>1. Closed(n, D, s)
    BY <1>2 DEF Closed
  <2> QED
    BY <1>1, <1>3, <2>1, Turns
<1>5. r = [k \in 0 .. n |-> IF k = 0 THEN new ELSE InsertAll(r[k - 1], q(k))]
  BY <1>1, <1>2, <1>4 DEF Runs, Stays
<1>6. after = [k \in 0 .. n |-> IF k = 0 THEN new ELSE InsertAll(after[k - 1], q(k))]
  BY <1>5, Zenon
<1>7. Moved(c, new) = after[n]
  BY DEF Moved, Repeat, n, q
<1> HIDE DEF after
<1>8. after[n] \in D[n]
  <2>1. after[0] \in D[0]
    BY <1>1, <1>3, <1>6
  <2>2. ASSUME NEW k \in 1 .. n, after[k - 1] \in D[k - 1] PROVE after[k] \in D[k]
    <3>1. k \in 0 .. n /\ k # 0
      BY <1>1
    <3>2. after[k] = InsertAll(after[k - 1], q(k))
      BY <1>6, <3>1
    <3> QED
      BY <1>2, <2>2, <3>2
  <2>3. Keeps(n, D, after)
    BY <2>1, <2>2 DEF Keeps
  <2> QED
    BY <1>1, <2>3, Kept
<1>9. UpTo(c, S, n) = S
  <2> SUFFICES ASSUME NEW e \in S PROVE Hash(c, e.ts) \in 1 .. n
    BY DEF UpTo
  <2>1. e.ts \in Nat
    BY <1>1 DEF Keys
  <2> QED
    BY <2>1, HashIs DEF n
<1> QED
  BY <1>1, <1>7, <1>8, <1>9 DEF D, Moving

\* DoResize loses nothing and leaves the search at the same time.
LEMMA ResizeIs ==
  ASSUME NEW c, NEW S, Holds(c, S), IsFiniteSet(S),
         NEW size \in Nat, size <= Cardinality(S), NEW newSize \in Nat \ {0}
  PROVE  /\ Holds(Resize(c, size, newSize), S)
         /\ Resize(c, size, newSize).lastPrio = c.lastPrio
<1> DEFINE a == IF size < 2 THEN c ELSE Resampled(c, nSamples(size))
           w == CalculateNewWidth(c, size)
           t == c.lastPrio
           new == Calendar(newSize, w, t)
           d == Moved(a, new)
<1>1. Filed(c, S) /\ Timed(c) /\ Since(c, S) /\ t \in Nat
  BY DEF Holds, Filed, CalendarTypes
<1>2. Filed(a, S)
  <2>1. CASE size < 2
    BY <1>1, <2>1
  <2>2. CASE ~(size < 2)
    <3> DEFINE n == nSamples(size)
    <3>1. n \in Nat /\ n <= Cardinality(S)
      <4>1. n \in 2 .. size /\ Cardinality(S) \in Nat
        BY <2>2, nSamplesIs, FS_CardinalityType
      <4> QED
        BY <4>1
    <3> HIDE DEF n
    <3>2. Filed(Resampled(c, n), S)
      BY <1>1, <3>1, ResampledIs
    <3> QED
      BY <2>2, <3>2 DEF n
  <2> QED
    BY <2>1, <2>2
<1>3. w \in Nat \ {0}
  BY <1>1, NewWidthIs
<1> HIDE DEF a, w, t
<1>4. Filed(new, {}) /\ Timed(new) /\ new.lastPrio = t
  BY <1>1, <1>3, CalendarIs
<1> HIDE DEF new
<1>5. Filed(d, S) /\ SamePlan(new, d) /\ SameTime(new, d)
  BY <1>2, <1>4, MovedIs
<1>6. Resize(c, size, newSize) = d
  BY DEF Resize, d, a, new, w, t
<1> HIDE DEF d
<1>7. Timed(d)
  BY <1>4, <1>5, SameHash DEF Timed, SamePlan, SameTime
<1>8. Since(d, S) /\ d.lastPrio = c.lastPrio
  BY <1>1, <1>4, <1>5 DEF Since, SameTime, t
<1> QED
  BY <1>5, <1>6, <1>7, <1>8 DEF Holds

\* With or without a resize the events are all there.
LEMMA ResizeUpIs ==
  ASSUME NEW c, NEW S, Holds(c, S), IsFiniteSet(S), NEW size \in Nat, size <= Cardinality(S)
  PROVE  Holds(ResizeUp(c, size), S) /\ ResizeUp(c, size).lastPrio = c.lastPrio
<1> DEFINE m == 2 * nBuckets(c)
<1>1. m \in Nat \ {0}
  BY DEF Holds, Filed
<1> HIDE DEF m
<1>2. Holds(Resize(c, size, m), S) /\ Resize(c, size, m).lastPrio = c.lastPrio
  BY <1>1, ResizeIs
<1> QED
  BY <1>2 DEF ResizeUp, m

LEMMA ResizeDownIs ==
  ASSUME NEW c, NEW S, Holds(c, S), IsFiniteSet(S), NEW size \in Nat, size <= Cardinality(S)
  PROVE  Holds(ResizeDown(c, size), S) /\ ResizeDown(c, size).lastPrio = c.lastPrio
<1> DEFINE m == nBuckets(c) \div 2
<1>1. CASE size < m
  <2>1. m \in Nat \ {0}
    BY <1>1 DEF Holds, Filed
  <2> HIDE DEF m
  <2>2. Holds(Resize(c, size, m), S) /\ Resize(c, size, m).lastPrio = c.lastPrio
    BY <2>1, ResizeIs
  <2> QED
    BY <1>1, <2>2 DEF ResizeDown, m
<1>2. CASE ~(size < m)
  BY <1>2 DEF ResizeDown
<1> QED
  BY <1>1, <1>2

\* Insert adds one event, with the resize it may bring.
LEMMA CalendarInserted ==
  ASSUME NEW c, NEW S, Holds(c, S), IsFiniteSet(S), NEW ev \in Keys, ev \notin S,
         ev.ts >= c.lastPrio
  PROVE  /\ Holds(Inserted(c, Cardinality(S), ev), S \cup {ev})
         /\ Inserted(c, Cardinality(S), ev).lastPrio = c.lastPrio
<1> DEFINE d == DoInsert(c, ev)
           T == S \cup {ev}
           m == Cardinality(S) + 1
<1>1. Filed(d, T) /\ SamePlan(c, d) /\ SameTime(c, d)
  BY DoInsertIs DEF Holds
<1>2. IsFiniteSet(T) /\ m = Cardinality(T) /\ m \in Nat
  BY FS_AddElement, FS_CardinalityType
<1> HIDE DEF d, m
<1>3. Timed(d) /\ Since(d, T)
  BY <1>1, SameHash DEF Holds, Timed, Since, SamePlan, SameTime
<1> HIDE DEF T
<1>4. Holds(d, T) /\ m <= Cardinality(T)
  BY <1>1, <1>2, <1>3 DEF Holds
<1>5. Holds(ResizeUp(d, m), T) /\ ResizeUp(d, m).lastPrio = d.lastPrio
  BY <1>2, <1>4, ResizeUpIs
<1> QED
  BY <1>1, <1>5 DEF Inserted, SameTime, d, m, T

\* r.ev is the earliest event of S, and r.cal holds the others.
Gives(S, r) ==
  /\ r.ev \in S
  /\ \A e \in S \ {r.ev} : Less(r.ev, e)
  /\ Holds(r.cal, S \ {r.ev})
  /\ r.cal.lastPrio = r.ev.ts
  /\ IsFiniteSet(S \ {r.ev})
  /\ Cardinality(S \ {r.ev}) = Cardinality(S) - 1

\* RemoveNext yields the earliest event, with the resize it may bring.
LEMMA CalendarRemoved ==
  ASSUME NEW c, NEW S, Holds(c, S), IsFiniteSet(S), S # {}
  PROVE  Gives(S, Removed(c, Cardinality(S)))
<1> DEFINE x == DoRemoveNext(c)
           ev == x.ev
           d == x.cal
           T == S \ {ev}
           m == Cardinality(S) - 1
           r == Removed(c, Cardinality(S))
<1>1. Yields(c, S, x)
  BY DoRemoveNextIs DEF Holds
<1>2. S \in SUBSET Keys
  BY DEF Holds, Filed
<1>3. r = [ev |-> ev, cal |-> ResizeDown(d, m)]
  BY DEF Removed
<1> HIDE DEF x, r
<1>4. ev \in S /\ (\A e \in T : Less(ev, e)) /\ Filed(d, T) /\ Timed(d) /\ d.lastPrio = ev.ts
  BY <1>1 DEF Yields
<1>5. Since(d, T)
  BY <1>1, <1>2, YieldsSince
<1>6. IsFiniteSet(T) /\ Cardinality(T) = m /\ m \in Nat
  BY <1>4, FS_RemoveElement, FS_CardinalityType
<1> HIDE DEF T, d, m
<1>7. Holds(d, T) /\ m <= Cardinality(T)
  BY <1>4, <1>5, <1>6 DEF Holds
<1>8. Holds(ResizeDown(d, m), T) /\ ResizeDown(d, m).lastPrio = d.lastPrio
  BY <1>6, <1>7, ResizeDownIs
<1>9. r.ev = ev /\ r.cal = ResizeDown(d, m)
  BY <1>3
<1> HIDE DEF ev
<1> QED
  BY <1>4, <1>6, <1>8, <1>9 DEF T, m, r, Gives

\* What Remove makes of c when the event is the one at i in bucket b.
Without(c, size, b, i) == ResizeDown([c EXCEPT !.buckets[b] = RemoveAt(@, i)], size - 1)

\* d holds the events of S but ev.
Lacks(c, S, ev, d) ==
  /\ ev \in S
  /\ Holds(d, S \ {ev})
  /\ d.lastPrio = c.lastPrio
  /\ IsFiniteSet(S \ {ev})
  /\ Cardinality(S \ {ev}) = Cardinality(S) - 1

\* Remove takes out the event it found, with the resize it may bring.
LEMMA CalendarWithout ==
  ASSUME NEW c, NEW S, Holds(c, S), IsFiniteSet(S), NEW b \in 1 .. nBuckets(c),
         NEW i \in 1 .. Len(c.buckets[b]), NEW ev, ev = c.buckets[b][i]
  PROVE  Lacks(c, S, ev, Without(c, Cardinality(S), b, i))
<1> DEFINE q == c.buckets[b]
           p == RemoveAt(q, i)
           T == S \ {ev}
           d == [c EXCEPT !.buckets[b] = p]
           m == Cardinality(S) - 1
<1>1. c \in CalendarTypes /\ S \in SUBSET Keys /\ Sorts(q, InDay(c, S, b)) /\ Filed(c, S)
  BY DEF Holds, Filed
<1> HIDE DEF q
<1>2. ev = q[i] /\ i \in 1 .. Len(q)
  BY DEF q
<1>3. Sorts(p, InDay(c, S, b) \ {ev}) /\ ev \in InDay(c, S, b)
  <2> DEFINE Q == InDay(c, S, b)
  <2> HIDE DEF Q
  <2>1. Sorts(q, Q) /\ i \in 1 .. Len(q)
    BY <1>1, <1>2 DEF Q
  <2>2. Sorts(RemoveAt(q, i), Q \ {q[i]})
    BY <2>1, SortedRemove
  <2>3. q[i] \in Q
    BY <2>1 DEF Sorts
  <2> QED
    BY <1>2, <2>2, <2>3 DEF Q
<1> HIDE DEF p
<1>4. InDay(c, S, b) \ {ev} = InDay(c, T, b) /\ ev \in S
  BY <1>3 DEF InDay
<1>5. T \in SUBSET Keys /\ Elsewhere(c, S, T, b)
  BY <1>1, <1>3 DEF Elsewhere, InDay
<1>6. Replaced(c, d, b, p) /\ SameTime(c, d)
  <2>1. c.buckets \in Seq(Seq(Keys)) /\ b \in 1 .. Len(c.buckets) /\ p \in Seq(Keys)
    BY <1>1, <1>3 DEF CalendarTypes, nBuckets, Sorts
  <2> DEFINE bs == [c.buckets EXCEPT ![b] = p]
  <2>2. bs \in Seq(Seq(Keys))
    BY <2>1
  <2>3. d = [c EXCEPT !.buckets = bs]
    BY <1>1 DEF CalendarTypes
  <2> HIDE DEF bs, d
  <2> QED
    BY <1>1, <2>2, <2>3 DEF CalendarTypes, Replaced, SameTime, bs
<1>7. [c EXCEPT !.buckets[b] = RemoveAt(@, i)] = d
  BY DEF p, q
<1> HIDE DEF d
<1>8. IsFiniteSet(T) /\ Cardinality(T) = m /\ m \in Nat
  <2>1. ev \in S
    BY <1>4
  <2>2. Cardinality(S) \in Nat /\ Cardinality(S) # 0
    BY <2>1, FS_CardinalityType, FS_EmptySet
  <2>3. IsFiniteSet(S \ {ev}) /\ Cardinality(S \ {ev}) = Cardinality(S) - 1
    BY <2>1, FS_RemoveElement
  <2> QED
    BY <2>2, <2>3
<1> HIDE DEF T, m
<1>9. Sorts(p, InDay(c, T, b))
  BY <1>3, <1>4
<1>10. Filed(d, T) /\ SamePlan(c, d)
  BY <1>1, <1>5, <1>6, <1>9, Refiled
<1>11. Timed(d) /\ Since(d, T)
  BY <1>6, <1>10, SameHash DEF Holds, Timed, Since, SamePlan, SameTime, T
<1>12. Holds(d, T) /\ m <= Cardinality(T)
  BY <1>8, <1>10, <1>11 DEF Holds
<1>13. Holds(ResizeDown(d, m), T) /\ ResizeDown(d, m).lastPrio = d.lastPrio
  BY <1>8, <1>12, ResizeDownIs
<1> QED
  BY <1>4, <1>6, <1>7, <1>8, <1>13 DEF SameTime, T, m, Lacks, Without

----------------------------------------------------------------------------
(* The change of the scheduler                                             *)

HeapTakings(S, n, k) ==
  {r \in [heap : Seq(Keys), taken : Seq(Keys)] :
     /\ Len(r.heap) = n - k
     /\ InHeapOrder(r.heap)
     /\ \E T \in SUBSET S : Lists(r.taken, T) /\ Lists(r.heap, S \ T)}

\* A turn of SetScheduler takes the next event out of the old heap.
LEMMA TakeOfHeapIs ==
  ASSUME NEW S, NEW n \in Nat, NEW k \in 1 .. n, NEW y \in HeapTakings(S, n, k - 1)
  PROVE  TakeOfHeap(y, k) \in HeapTakings(S, n, k)
<1> DEFINE h == y.heap
           q == y.taken
           ev == h[1]
           g == Heap!Taken(h, 1)
           p == Append(q, ev)
<1>1. Len(h) = n - (k - 1) /\ InHeapOrder(h) /\ h \in Seq(Keys)
  BY DEF HeapTakings
<1>2. PICK T \in SUBSET S : Lists(q, T) /\ Lists(h, S \ T)
  BY DEF HeapTakings
<1> DEFINE R == S \ T
           U == T \cup {ev}
<1>3. h # <<>> /\ ev \in Keys /\ Len(h) - 1 = n - k
  BY <1>1
<1>4. ev \in R
  BY <1>1, <1>2, <1>3 DEF Lists
<1>5. R \ {ev} = S \ U /\ U \in SUBSET S /\ ev \notin T
  BY <1>2, <1>4
<1>6. TakeOfHeap(y, k) = [heap |-> g, taken |-> p]
  BY DEF TakeOfHeap
<1> HIDE DEF h, q, R
<1>7. Lists(g, R \ {ev}) /\ InHeapOrder(g) /\ Len(g) = Len(h) - 1
  BY <1>1, <1>2, <1>3, HeapTaken DEF R
<1> HIDE DEF ev
<1>8. Lists(p, U)
  BY <1>2, <1>3, <1>5, ListAppend
<1> HIDE DEF U, g, p
<1>9. g \in Seq(Keys) /\ p \in Seq(Keys) /\ Len(g) = n - k
  BY <1>3, <1>7, <1>8 DEF Lists
<1>10. [heap |-> g, taken |-> p] \in HeapTakings(S, n, k)
  BY <1>5, <1>7, <1>8, <1>9 DEF HeapTakings
<1> QED
  BY <1>6, <1>10

\* The heap is taken apart completely.
LEMMA HeapDrainedIs ==
  ASSUME NEW S, Lists(heap, S), InHeapOrder(heap)
  PROVE  Lists(HeapDrained, S)
<1> DEFINE n == Len(heap)
           x == [heap |-> heap, taken |-> <<>>]
           D == [k \in 0 .. n |-> HeapTakings(S, n, k)]
           s == [z \in (1 .. n) \X [heap : Seq(Keys), taken : Seq(Keys)] |-> TakeOfHeap(z[2], z[1])]
           after == CHOOSE a : a = [k \in 0 .. n |-> IF k = 0 THEN x ELSE TakeOfHeap(a[k - 1], k)]
<1>1. n \in Nat /\ heap \in Seq(Keys)
  BY DEF Lists
<1>2. \A k \in 1 .. n : \A y \in D[k - 1] : s[<<k, y>>] = TakeOfHeap(y, k) /\ TakeOfHeap(y, k) \in D[k]
  <2> SUFFICES ASSUME NEW k \in 1 .. n, NEW y \in D[k - 1]
               PROVE  s[<<k, y>>] = TakeOfHeap(y, k) /\ TakeOfHeap(y, k) \in D[k]
    OBVIOUS
  <2>1. D[k - 1] = HeapTakings(S, n, k - 1) /\ D[k] = HeapTakings(S, n, k)
    BY <1>1
  <2>2. y \in HeapTakings(S, n, k - 1)
    BY <2>1
  <2>3. s[<<k, y>>] = TakeOfHeap(y, k)
    BY <2>2 DEF HeapTakings
  <2> HIDE DEF D, s, n
  <2>4. TakeOfHeap(y, k) \in HeapTakings(S, n, k)
    BY <1>1, <2>2, TakeOfHeapIs
  <2> QED
    BY <2>1, <2>3, <2>4
<1>3. x \in D[0]
  <2>1. Lists(<<>>, {}) /\ <<>> \in Seq(Keys) /\ S \ {} = S
    BY DEF Lists, Distinct
  <2>2. x \in [heap : Seq(Keys), taken : Seq(Keys)] /\ x.heap = heap /\ x.taken = <<>>
        /\ Len(x.heap) = n - 0
    BY <1>1, <2>1
  <2> HIDE DEF x
  <2>3. \E T \in SUBSET S : Lists(x.taken, T) /\ Lists(x.heap, S \ T)
    BY <2>1, <2>2
  <2>4. x \in HeapTakings(S, n, 0)
    BY <2>2, <2>3 DEF HeapTakings
  <2> QED
    BY <1>1, <2>4
<1> HIDE DEF D, s, x, n
<1>4. PICK r : Runs(n, x, s, r) /\ Stays(n, D, r)
  <2>1. Closed(n, D, s)
    BY <1>2 DEF Closed
  <2> QED
    BY <1>1, <1>3, <2>1, Turns
<1>5. r = [k \in 0 .. n |-> IF k = 0 THEN x ELSE TakeOfHeap(r[k - 1], k)]
  BY <1>1, <1>2, <1>4 DEF Runs, Stays
<1>6. after = [k \in 0 .. n |-> IF k = 0 THEN x ELSE TakeOfHeap(after[k - 1], k)]
  BY <1>5, Zenon
<1>7. HeapDrained = after[n].taken
  BY DEF HeapDrained, Repeat, x, n
<1> HIDE DEF after
<1>8. after[n] \in D[n]
  <2>1. after[0] \in D[0]
    BY <1>1, <1>3, <1>6
  <2>2. ASSUME NEW k \in 1 .. n, after[k - 1] \in D[k - 1] PROVE after[k] \in D[k]
    <3>1. k \in 0 .. n /\ k # 0
      BY <1>1
    <3>2. after[k] = TakeOfHeap(after[k - 1], k)
      BY <1>6, <3>1
    <3> QED
      BY <1>2, <2>2, <3>2
  <2>3. Keeps(n, D, after)
    BY <2>1, <2>2 DEF Keeps
  <2> QED
    BY <1>1, <2>3, Kept
<1> DEFINE w == after[n]
<1>9. w \in HeapTakings(S, n, n)
  BY <1>1, <1>8 DEF D
<1> HIDE DEF w
<1>10. PICK T \in SUBSET S : Lists(w.taken, T) /\ Lists(w.heap, S \ T)
  BY <1>9 DEF HeapTakings
<1>11. Len(w.heap) = 0
  BY <1>1, <1>9 DEF HeapTakings
<1>12. S \ T = {}
  BY <1>10, <1>11 DEF Lists
<1>13. T = S
  BY <1>10, <1>12
<1> QED
  BY <1>7, <1>10, <1>13 DEF w

CalendarTakings(S, n, k) ==
  {r \in [cal : CalendarTypes, taken : Seq(Keys)] :
     \E T \in SUBSET S :
       Lists(r.taken, T) /\ Holds(r.cal, S \ T) /\ IsFiniteSet(S \ T) /\ Cardinality(S \ T) = n - k}

\* A turn of SetScheduler takes the next event out of the old calendar.
LEMMA TakeOfCalendarIs ==
  ASSUME NEW S, qSize \in Nat, NEW k \in 1 .. qSize, NEW y \in CalendarTakings(S, qSize, k - 1)
  PROVE  TakeOfCalendar(y, k) \in CalendarTakings(S, qSize, k)
<1> DEFINE n == qSize
           m == qSize + 1 - k
           c == y.cal
           q == y.taken
           r == Removed(c, m)
           ev == r.ev
           d == r.cal
           p == Append(q, ev)
<1>1. PICK T \in SUBSET S :
        Lists(q, T) /\ Holds(c, S \ T) /\ IsFiniteSet(S \ T) /\ Cardinality(S \ T) = n - (k - 1)
  BY DEF CalendarTakings
<1> DEFINE R == S \ T
           U == T \cup {ev}
<1>2. Cardinality(R) = m /\ m # 0 /\ m - 1 = n - k
  BY <1>1
<1>3. TakeOfCalendar(y, k) = [cal |-> d, taken |-> p]
  BY DEF TakeOfCalendar
<1>4. R \in SUBSET Keys /\ Holds(c, R) /\ IsFiniteSet(R)
  BY <1>1 DEF Holds, Filed
<1>5. R \cap T = {} /\ R \cup T = S /\ R = S \ T
  BY <1>1
<1> HIDE DEF R, m, c, q
<1>6. R # {}
  BY <1>2, FS_EmptySet
<1>7. Gives(R, r)
  BY <1>2, <1>4, <1>6, CalendarRemoved
<1> HIDE DEF r
<1>8. /\ ev \in R /\ Holds(d, R \ {ev}) /\ IsFiniteSet(R \ {ev})
      /\ Cardinality(R \ {ev}) = n - k
  BY <1>2, <1>7 DEF Gives
<1>9. R \ {ev} = S \ U /\ U \in SUBSET S /\ ev \notin T /\ ev \in Keys
  BY <1>4, <1>5, <1>8
<1> HIDE DEF ev, d
<1>10. Lists(p, U)
  BY <1>1, <1>9, ListAppend
<1> HIDE DEF U, p
<1>11. d \in CalendarTypes /\ p \in Seq(Keys)
  BY <1>8, <1>10 DEF Holds, Filed, Lists
<1>12. [cal |-> d, taken |-> p] \in CalendarTakings(S, n, k)
  BY <1>8, <1>9, <1>10, <1>11 DEF CalendarTakings
<1> QED
  BY <1>3, <1>12

\* All events come out of the old calendar, none of them twice.
LEMMA CalendarDrainedIs ==
  ASSUME NEW S, Holds(cal, S), IsFiniteSet(S), qSize = Cardinality(S)
  PROVE  Lists(CalendarDrained, S)
<1> DEFINE n == qSize
           x == [cal |-> cal, taken |-> <<>>]
           D == [k \in 0 .. n |-> CalendarTakings(S, n, k)]
           s == [z \in (1 .. n) \X [cal : CalendarTypes, taken : Seq(Keys)] |-> TakeOfCalendar(z[2], z[1])]
           after == CHOOSE a : a = [k \in 0 .. n |-> IF k = 0 THEN x ELSE TakeOfCalendar(a[k - 1], k)]
<1>1. n \in Nat /\ cal \in CalendarTypes
  BY FS_CardinalityType DEF Holds, Filed
<1>2. \A k \in 1 .. n : \A y \in D[k - 1] : s[<<k, y>>] = TakeOfCalendar(y, k) /\ TakeOfCalendar(y, k) \in D[k]
  <2> SUFFICES ASSUME NEW k \in 1 .. n, NEW y \in D[k - 1]
               PROVE  s[<<k, y>>] = TakeOfCalendar(y, k) /\ TakeOfCalendar(y, k) \in D[k]
    OBVIOUS
  <2>1. D[k - 1] = CalendarTakings(S, n, k - 1) /\ D[k] = CalendarTakings(S, n, k)
    BY <1>1
  <2>2. y \in CalendarTakings(S, n, k - 1)
    BY <2>1
  <2>3. s[<<k, y>>] = TakeOfCalendar(y, k)
    BY <2>2 DEF CalendarTakings
  <2> HIDE DEF D, s
  <2>4. TakeOfCalendar(y, k) \in CalendarTakings(S, n, k)
    BY <1>1, <2>2, TakeOfCalendarIs
  <2> QED
    BY <2>1, <2>3, <2>4
<1>3. x \in D[0]
  <2>1. Lists(<<>>, {}) /\ <<>> \in Seq(Keys) /\ S \ {} = S /\ {} \in SUBSET S
    BY DEF Lists, Distinct
  <2>2. x \in [cal : CalendarTypes, taken : Seq(Keys)] /\ x.cal = cal /\ x.taken = <<>>
        /\ Cardinality(S) = n - 0
    BY <1>1, <2>1
  <2> HIDE DEF x
  <2>3. \E T \in SUBSET S :
          Lists(x.taken, T) /\ Holds(x.cal, S \ T) /\ IsFiniteSet(S \ T) /\ Cardinality(S \ T) = n - 0
    BY <2>1, <2>2
  <2>4. x \in CalendarTakings(S, n, 0)
    BY <2>2, <2>3 DEF CalendarTakings
  <2> QED
    BY <1>1, <2>4
<1> HIDE DEF D, s, x, n
<1>4. PICK r : Runs(n, x, s, r) /\ Stays(n, D, r)
  <2>1. Closed(n, D, s)
    BY <1>2 DEF Closed
  <2> QED
    BY <1>1, <1>3, <2>1, Turns
<1>5. r = [k \in 0 .. n |-> IF k = 0 THEN x ELSE TakeOfCalendar(r[k - 1], k)]
  BY <1>1, <1>2, <1>4 DEF Runs, Stays
<1>6. after = [k \in 0 .. n |-> IF k = 0 THEN x ELSE TakeOfCalendar(after[k - 1], k)]
  BY <1>5, Zenon
<1>7. CalendarDrained = after[n].taken
  BY DEF CalendarDrained, Repeat, x, n
<1> HIDE DEF after
<1>8. after[n] \in D[n]
  <2>1. after[0] \in D[0]
    BY <1>1, <1>3, <1>6
  <2>2. ASSUME NEW k \in 1 .. n, after[k - 1] \in D[k - 1] PROVE after[k] \in D[k]
    <3>1. k \in 0 .. n /\ k # 0
      BY <1>1
    <3>2. after[k] = TakeOfCalendar(after[k - 1], k)
      BY <1>6, <3>1
    <3> QED
      BY <1>2, <2>2, <3>2
  <2>3. Keeps(n, D, after)
    BY <2>1, <2>2 DEF Keeps
  <2> QED
    BY <1>1, <2>3, Kept
<1> DEFINE w == after[n]
<1>9. w \in CalendarTakings(S, n, n)
  BY <1>1, <1>8 DEF D
<1> HIDE DEF w
<1>10. PICK T \in SUBSET S :
        Lists(w.taken, T) /\ IsFiniteSet(S \ T) /\ Cardinality(S \ T) = n - n
  BY <1>9 DEF CalendarTakings
<1>11. S \ T = {}
  <2>1. Cardinality(S \ T) = 0
    BY <1>1, <1>10
  <2> DEFINE R == S \ T
  <2> HIDE DEF R
  <2>2. R = {}
    BY <1>10, <2>1, FS_EmptySet DEF R
  <2> QED
    BY <2>2 DEF R
<1>12. T = S
  BY <1>10, <1>11
<1> QED
  BY <1>7, <1>10, <1>12 DEF w

HeapFillings(q, k) == {h \in Seq(Keys) : Lists(h, Firsts(q, k)) /\ InHeapOrder(h)}

\* A heap filled with the events drained holds them in heap order.
LEMMA FilledHeapIs ==
  ASSUME NEW q, NEW S, Lists(q, S)
  PROVE  Lists(FilledHeap(q), S) /\ InHeapOrder(FilledHeap(q))
<1> DEFINE n == Len(q)
           x == <<>>
           D == [k \in 0 .. n |-> HeapFillings(q, k)]
           s == [z \in (1 .. n) \X Seq(Keys) |-> Heap!Inserted(z[2], q[z[1]])]
           after == CHOOSE a : a = [k \in 0 .. n |-> IF k = 0 THEN x ELSE Heap!Inserted(a[k - 1], q[k])]
<1>1. n \in Nat /\ Firsts(q, n) = S /\ Firsts(q, 0) = {}
  BY FirstsAre
<1>2. \A k \in 1 .. n : \A y \in D[k - 1] :
        s[<<k, y>>] = Heap!Inserted(y, q[k]) /\ Heap!Inserted(y, q[k]) \in D[k]
  <2> SUFFICES ASSUME NEW k \in 1 .. n, NEW y \in D[k - 1]
               PROVE  s[<<k, y>>] = Heap!Inserted(y, q[k]) /\ Heap!Inserted(y, q[k]) \in D[k]
    OBVIOUS
  <2>1. D[k - 1] = HeapFillings(q, k - 1) /\ D[k] = HeapFillings(q, k)
    BY <1>1
  <2> DEFINE P == Firsts(q, k - 1)
             ev == q[k]
             w == Heap!Inserted(y, ev)
  <2>2. y \in Seq(Keys) /\ Lists(y, P) /\ InHeapOrder(y)
    BY <2>1 DEF HeapFillings
  <2>3. s[<<k, y>>] = Heap!Inserted(y, q[k])
    BY <2>2
  <2> HIDE DEF D, s
  <2>4. ev \in Keys /\ ev \notin P /\ P \cup {ev} = Firsts(q, k)
    BY FirstsGrow
  <2> HIDE DEF P, ev
  <2>5. Lists(w, P \cup {ev}) /\ InHeapOrder(w)
    BY <2>2, <2>4, HeapInserted
  <2> HIDE DEF w
  <2>6. w \in HeapFillings(q, k)
    BY <2>4, <2>5 DEF HeapFillings, Lists
  <2> QED
    BY <2>1, <2>3, <2>6 DEF w, ev
<1>3. x \in D[0]
  <2>1. Lists(<<>>, Firsts(q, 0)) /\ InHeapOrder(<<>>) /\ <<>> \in Seq(Keys)
    BY <1>1 DEF Lists, Distinct, InHeapOrder
  <2> QED
    BY <1>1, <2>1 DEF HeapFillings
<1> HIDE DEF D, s, n, x
<1>4. PICK r : Runs(n, x, s, r) /\ Stays(n, D, r)
  <2>1. Closed(n, D, s)
    BY <1>2 DEF Closed
  <2> QED
    BY <1>1, <1>3, <2>1, Turns
<1>5. r = [k \in 0 .. n |-> IF k = 0 THEN x ELSE Heap!Inserted(r[k - 1], q[k])]
  BY <1>1, <1>2, <1>4 DEF Runs, Stays
<1>6. after = [k \in 0 .. n |-> IF k = 0 THEN x ELSE Heap!Inserted(after[k - 1], q[k])]
  BY <1>5, Zenon
<1>7. FilledHeap(q) = after[n]
  BY DEF FilledHeap, Repeat, n, x
<1> HIDE DEF after
<1>8. after[n] \in D[n]
  <2>1. after[0] \in D[0]
    BY <1>1, <1>3, <1>6
  <2>2. ASSUME NEW k \in 1 .. n, after[k - 1] \in D[k - 1] PROVE after[k] \in D[k]
    <3>1. k \in 0 .. n /\ k # 0
      BY <1>1
    <3>2. after[k] = Heap!Inserted(after[k - 1], q[k])
      BY <1>6, <3>1
    <3> QED
      BY <1>2, <2>2, <3>2
  <2>3. Keeps(n, D, after)
    BY <2>1, <2>2 DEF Keeps
  <2> QED
    BY <1>1, <2>3, Kept
<1> QED
  BY <1>1, <1>7, <1>8 DEF D, HeapFillings

CalendarFillings(q, k) ==
  {c \in CalendarTypes :
     /\ Holds(c, Firsts(q, k)) /\ c.lastPrio = 0
     /\ IsFiniteSet(Firsts(q, k)) /\ Cardinality(Firsts(q, k)) = k}

\* A new calendar is empty and starts at time 0.
LEMMA NewCalendarIs == Holds(NewCalendar, {}) /\ NewCalendar.lastPrio = 0
<1> DEFINE n == 2
           w == 1
           t == 0
<1>1. n \in Nat \ {0} /\ w \in Nat \ {0} /\ t \in Nat
  OBVIOUS
<1> HIDE DEF n, w, t
<1>2. Filed(Calendar(n, w, t), {}) /\ Timed(Calendar(n, w, t)) /\ Calendar(n, w, t).lastPrio = t
  BY <1>1, CalendarIs
<1>3. NewCalendar = Calendar(n, w, t) /\ t = 0
  BY DEF NewCalendar, n, w, t
<1> QED
  BY <1>2, <1>3 DEF Holds, Since

\* A calendar filled with the events drained holds them and starts at time 0.
LEMMA FilledCalendarIs ==
  ASSUME NEW q, NEW S, Lists(q, S)
  PROVE  Holds(FilledCalendar(q), S) /\ FilledCalendar(q).lastPrio = 0
<1> DEFINE n == Len(q)
           x == NewCalendar
           D == [k \in 0 .. n |-> CalendarFillings(q, k)]
           s == [z \in (1 .. n) \X CalendarTypes |-> Inserted(z[2], z[1] - 1, q[z[1]])]
           after == CHOOSE a : a = [k \in 0 .. n |-> IF k = 0 THEN x ELSE Inserted(a[k - 1], k - 1, q[k])]
<1>1. n \in Nat /\ Firsts(q, n) = S /\ Firsts(q, 0) = {}
  BY FirstsAre
<1>2. \A k \in 1 .. n : \A y \in D[k - 1] :
        s[<<k, y>>] = Inserted(y, k - 1, q[k]) /\ Inserted(y, k - 1, q[k]) \in D[k]
  <2> SUFFICES ASSUME NEW k \in 1 .. n, NEW y \in D[k - 1]
               PROVE  s[<<k, y>>] = Inserted(y, k - 1, q[k]) /\ Inserted(y, k - 1, q[k]) \in D[k]
    OBVIOUS
  <2>1. D[k - 1] = CalendarFillings(q, k - 1) /\ D[k] = CalendarFillings(q, k)
    BY <1>1
  <2> DEFINE P == Firsts(q, k - 1)
             ev == q[k]
             m == k - 1
             w == Inserted(y, m, ev)
  <2>2. /\ y \in CalendarTypes /\ Holds(y, P) /\ y.lastPrio = 0
        /\ IsFiniteSet(P) /\ Cardinality(P) = m /\ m \in Nat /\ m + 1 = k
    BY <2>1 DEF CalendarFillings
  <2>3. s[<<k, y>>] = Inserted(y, k - 1, q[k])
    BY <2>2
  <2> HIDE DEF D, s
  <2>4. ev \in Keys /\ ev \notin P /\ P \cup {ev} = Firsts(q, k)
    BY FirstsGrow
  <2> HIDE DEF P, ev
  <2>5. ev.ts >= y.lastPrio
    BY <2>2, <2>4 DEF Keys
  <2>6. /\ Holds(Inserted(y, Cardinality(P), ev), P \cup {ev})
        /\ Inserted(y, Cardinality(P), ev).lastPrio = y.lastPrio
    BY <2>2, <2>4, <2>5, CalendarInserted
  <2>7. Holds(w, P \cup {ev}) /\ w.lastPrio = 0
    BY <2>2, <2>6
  <2>8. IsFiniteSet(P \cup {ev}) /\ Cardinality(P \cup {ev}) = k
    BY <2>2, <2>4, FS_AddElement
  <2> HIDE DEF w
  <2>9. w \in CalendarFillings(q, k)
    BY <2>4, <2>7, <2>8 DEF CalendarFillings, Holds, Filed
  <2> QED
    BY <2>1, <2>3, <2>9 DEF w, ev
<1>3. x \in D[0]
  <2>1. Holds(x, Firsts(q, 0)) /\ x.lastPrio = 0 /\ x \in CalendarTypes
    BY <1>1, NewCalendarIs DEF Holds, Filed
  <2>2. IsFiniteSet(Firsts(q, 0)) /\ Cardinality(Firsts(q, 0)) = 0
    BY <1>1, FS_EmptySet
  <2>3. x \in CalendarFillings(q, 0)
    BY <2>1, <2>2 DEF CalendarFillings
  <2> QED
    BY <1>1, <2>3
<1> HIDE DEF D, s, n, x
<1>4. PICK r : Runs(n, x, s, r) /\ Stays(n, D, r)
  <2>1. Closed(n, D, s)
    BY <1>2 DEF Closed
  <2> QED
    BY <1>1, <1>3, <2>1, Turns
<1>5. r = [k \in 0 .. n |-> IF k = 0 THEN x ELSE Inserted(r[k - 1], k - 1, q[k])]
  BY <1>1, <1>2, <1>4 DEF Runs, Stays
<1>6. after = [k \in 0 .. n |-> IF k = 0 THEN x ELSE Inserted(after[k - 1], k - 1, q[k])]
  BY <1>5, Zenon
<1>7. FilledCalendar(q) = after[n]
  BY DEF FilledCalendar, Repeat, n, x
<1> HIDE DEF after
<1>8. after[n] \in D[n]
  <2>1. after[0] \in D[0]
    BY <1>1, <1>3, <1>6
  <2>2. ASSUME NEW k \in 1 .. n, after[k - 1] \in D[k - 1] PROVE after[k] \in D[k]
    <3>1. k \in 0 .. n /\ k # 0
      BY <1>1
    <3>2. after[k] = Inserted(after[k - 1], k - 1, q[k])
      BY <1>6, <3>1
    <3> QED
      BY <1>2, <2>2, <3>2
  <2>3. Keeps(n, D, after)
    BY <2>1, <2>2 DEF Keeps
  <2> QED
    BY <1>1, <2>3, Kept
<1> QED
  BY <1>1, <1>7, <1>8 DEF D, CalendarFillings

----------------------------------------------------------------------------
(* The inductive invariant                                                 *)

\* Events are told apart by their uids, and none is due before the last one taken.
EventsDistinct ==
  /\ held \in SUBSET EventKeys /\ IsFiniteSet(held)
  /\ \A e \in held : e.uid < uid /\ e.ts >= last.ts
  /\ \A e, f \in held : e.uid = f.uid => e = f

HeapHolds == scheduler = "heap" => Lists(heap, held) /\ InHeapOrder(heap)

CalendarHolds ==
  scheduler = "calendar" =>
    Holds(cal, held) /\ qSize = Cardinality(held) /\ cal.lastPrio <= last.ts

SchedulersInv ==
  /\ scheduler \in Kinds /\ uid \in Nat \ {0} /\ last \in EventKeys
  /\ EventsDistinct /\ HeapHolds /\ CalendarHolds

\* Keys within the bounds are keys.
LEMMA KeysAre == EventKeys \subseteq Keys
BY BoundsAssumption DEF EventKeys, Keys

LEMMA InitHolds == Init => SchedulersInv
<1> SUFFICES ASSUME Init PROVE SchedulersInv
  OBVIOUS
<1>1. /\ scheduler \in Kinds /\ cal = NewCalendar /\ qSize = 0 /\ heap = <<>>
      /\ uid = 1 /\ last = Start /\ held = {}
  BY DEF Init, CalendarInit, Heap!Init
<1>2. Start \in EventKeys
  BY BoundsAssumption DEF Start, EventKeys
<1>3. Lists(<<>>, {}) /\ InHeapOrder(<<>>)
  BY DEF Lists, Distinct, InHeapOrder
<1>4. IsFiniteSet({}) /\ Cardinality({}) = 0
  BY FS_EmptySet
<1>5. Start.ts = 0
  BY DEF Start
<1> QED
  BY <1>1, <1>2, <1>3, <1>4, <1>5, NewCalendarIs
  DEF SchedulersInv, EventsDistinct, HeapHolds, CalendarHolds

\* The order of a bucket does not change, so what a calendar holds is the same before
\* and after a step.
LEMMA HoldsLater ==
  ASSUME reverse' = reverse, Holds(cal', held')
  PROVE  Holds(cal, held)'
BY DEF Holds, Filed, Timed, Since, Sorts, Order, InDay, Hash, nBuckets

\* An event is inserted: its uid is new.
NewEvent(ev) ==
  /\ ev \in EventKeys /\ ev.uid = uid /\ ev.ts >= last.ts
  /\ held' = held \cup {ev} /\ uid' = uid + 1 /\ last' = last

\* The next event is removed: it is the earliest.
TakenEvent(ev) ==
  /\ ev \in held /\ \A e \in held \ {ev} : Less(ev, e)
  /\ held' = held \ {ev} /\ uid' = uid /\ last' = ev

\* Another event is removed.
RemovedEvent(ev) == ev \in held /\ held' = held \ {ev} /\ uid' = uid /\ last' = last

\* Events stay apart by their uids whatever is inserted or removed.
LEMMA StayDistinct ==
  ASSUME SchedulersInv, NEW ev, NewEvent(ev) \/ TakenEvent(ev) \/ RemovedEvent(ev)
  PROVE  EventsDistinct' /\ uid' \in Nat \ {0} /\ last' \in EventKeys
<1>1. /\ uid \in Nat \ {0} /\ last \in EventKeys /\ held \in SUBSET EventKeys /\ IsFiniteSet(held)
      /\ \A e \in held : e.uid < uid /\ e.ts >= last.ts
      /\ \A e, f \in held : e.uid = f.uid => e = f
  BY DEF SchedulersInv, EventsDistinct
<1>2. \A e \in EventKeys : e \in Keys /\ e.uid \in Nat /\ e.ts \in Nat
  BY KeysAre DEF Keys
<1>3. CASE NewEvent(ev)
  <2>1. held' \in SUBSET EventKeys
    BY <1>1, <1>3 DEF NewEvent
  <2>2. IsFiniteSet(held')
    BY <1>1, <1>3, FS_AddElement DEF NewEvent
  <2>3. \A e \in held' : e.uid < uid' /\ e.ts >= last'.ts
    BY <1>1, <1>2, <1>3 DEF NewEvent
  <2>4. \A e, f \in held' : e.uid = f.uid => e = f
    BY <1>1, <1>2, <1>3 DEF NewEvent
  <2> QED
    BY <1>1, <1>3, <2>1, <2>2, <2>3, <2>4 DEF NewEvent, EventsDistinct
<1>4. CASE TakenEvent(ev)
  <2>1. IsFiniteSet(held')
    BY <1>1, <1>4, FS_RemoveElement DEF TakenEvent
  <2>2. ASSUME NEW e \in held' PROVE e.ts >= last'.ts
    <3>1. e \in held \ {ev} /\ ev \in held /\ Less(ev, e) /\ last' = ev
      BY <1>4 DEF TakenEvent
    <3>2. e.ts \in Nat /\ ev.ts \in Nat
      BY <1>1, <1>2, <3>1
    <3> QED
      BY <3>1, <3>2 DEF Less
  <2> QED
    BY <1>1, <1>4, <2>1, <2>2 DEF TakenEvent, EventsDistinct
<1>5. CASE RemovedEvent(ev)
  <2>1. IsFiniteSet(held')
    BY <1>1, <1>5, FS_RemoveElement DEF RemovedEvent
  <2> QED
    BY <1>1, <1>5, <2>1 DEF RemovedEvent, EventsDistinct
<1> QED
  BY <1>3, <1>4, <1>5

\* An operation of the heap inserts a new event or takes the earliest one.
LEMMA HeapStepHolds ==
  ASSUME SchedulersInv, HeapStep
  PROVE  SchedulersInv' /\ \E ev \in EventKeys : NewEvent(ev) \/ TakenEvent(ev)
<1>1. /\ scheduler = "heap" /\ scheduler' = scheduler
      /\ Lists(heap, held) /\ InHeapOrder(heap)
      /\ last \in EventKeys /\ uid \in Nat \ {0} /\ held \in SUBSET EventKeys
      /\ \A e \in held : e.uid < uid
  BY DEF HeapStep, SchedulersInv, HeapHolds, EventsDistinct
<1>2. ASSUME NEW ts \in last.ts .. MaxTs, Heap!Insert(ts)
      PROVE  SchedulersInv' /\ \E ev \in EventKeys : NewEvent(ev)
  <2> DEFINE ev == [ts |-> ts, uid |-> uid]
  <2>1. /\ uid <= MaxUid /\ heap' = Heap!Inserted(heap, ev)
        /\ held' = held \cup {ev} /\ uid' = uid + 1 /\ last' = last
    BY <1>2 DEF Heap!Insert
  <2>2. ev \in EventKeys /\ ev.uid = uid /\ ev.ts >= last.ts
    <3>1. last.ts \in Nat
      BY <1>1, KeysAre DEF Keys
    <3>2. ts \in 0 .. MaxTs /\ ts >= last.ts /\ uid \in 0 .. MaxUid
      BY <1>1, <2>1, <3>1, BoundsAssumption
    <3> QED
      BY <3>2 DEF EventKeys
  <2> HIDE DEF ev
  <2>3. NewEvent(ev)
    BY <2>1, <2>2 DEF NewEvent
  <2>4. ev \in Keys /\ ev \notin held
    BY <1>1, <2>2, KeysAre
  <2>5. Lists(heap', held') /\ InHeapOrder(heap')
    BY <1>1, <2>1, <2>4, HeapInserted
  <2>6. SchedulersInv'
    BY <1>1, <2>3, <2>5, StayDistinct
    DEF SchedulersInv, HeapHolds, CalendarHolds, Lists, InHeapOrder, Distinct, Kinds
  <2> QED
    BY <2>2, <2>3, <2>6
<1>3. ASSUME Heap!RemoveNext
      PROVE  SchedulersInv' /\ \E ev \in EventKeys : TakenEvent(ev)
  <2> DEFINE ev == heap[1]
  <2>1. /\ heap # <<>> /\ heap' = Heap!Taken(heap, 1) /\ last' = ev
        /\ held' = held \ {ev} /\ uid' = uid
    BY <1>3 DEF Heap!RemoveNext
  <2>2. ev \in held /\ \A e \in held \ {ev} : Less(ev, e)
    BY <1>1, <2>1, RootFirst
  <2>3. TakenEvent(ev)
    BY <2>1, <2>2 DEF TakenEvent
  <2>4. Lists(heap', held') /\ InHeapOrder(heap')
    BY <1>1, <2>1, HeapTaken
  <2> HIDE DEF ev
  <2>5. SchedulersInv'
    BY <1>1, <2>3, <2>4, StayDistinct
    DEF SchedulersInv, HeapHolds, CalendarHolds, Lists, InHeapOrder, Distinct, Kinds
  <2> QED
    BY <1>1, <2>2, <2>3, <2>5
<1>4. (\E ts \in last.ts .. MaxTs : Heap!Insert(ts)) \/ Heap!RemoveNext
  BY DEF HeapStep, Heap!NextWithoutRemove
<1> QED
  BY <1>2, <1>3, <1>4

\* An operation of the calendar inserts a new event, takes the earliest one or removes one.
LEMMA CalendarStepHolds ==
  ASSUME SchedulersInv, CalendarStep
  PROVE  SchedulersInv' /\ \E ev \in EventKeys : NewEvent(ev) \/ TakenEvent(ev) \/ RemovedEvent(ev)
<1>1. /\ scheduler = "calendar" /\ scheduler' = scheduler
      /\ Holds(cal, held) /\ qSize = Cardinality(held) /\ cal.lastPrio <= last.ts
      /\ last \in EventKeys /\ uid \in Nat \ {0} /\ held \in SUBSET EventKeys /\ IsFiniteSet(held)
      /\ \A e \in held : e.uid < uid
      /\ \A e, f \in held : e.uid = f.uid => e = f
  BY DEF CalendarStep, SchedulersInv, CalendarHolds, EventsDistinct
<1>2. last.ts \in Nat /\ cal.lastPrio \in Nat /\ qSize \in Nat
  BY <1>1, KeysAre, FS_CardinalityType DEF Keys, Holds, Filed, CalendarTypes
<1>3. ASSUME NEW ts \in last.ts .. MaxTs, Insert(ts)
      PROVE  SchedulersInv' /\ \E ev \in EventKeys : NewEvent(ev)
  <2> DEFINE ev == [ts |-> ts, uid |-> uid]
  <2>1. /\ uid <= MaxUid /\ cal' = Inserted(cal, qSize, ev) /\ qSize' = qSize + 1
        /\ held' = held \cup {ev} /\ uid' = uid + 1 /\ last' = last /\ reverse' = reverse
    BY <1>3 DEF Insert
  <2>2. ev \in EventKeys /\ ev.uid = uid /\ ev.ts >= last.ts
    <3>1. ts \in 0 .. MaxTs /\ ts >= last.ts /\ uid \in 0 .. MaxUid
      BY <1>1, <1>2, <2>1, BoundsAssumption
    <3> QED
      BY <3>1 DEF EventKeys
  <2> HIDE DEF ev
  <2>3. NewEvent(ev)
    BY <2>1, <2>2 DEF NewEvent
  <2>4. ev \in Keys /\ ev \notin held /\ ev.ts \in Nat
    BY <1>1, <2>2, KeysAre DEF Keys
  <2>5. ev.ts >= cal.lastPrio
    BY <1>1, <1>2, <2>2, <2>4
  <2>6. /\ Holds(Inserted(cal, Cardinality(held), ev), held \cup {ev})
        /\ Inserted(cal, Cardinality(held), ev).lastPrio = cal.lastPrio
    BY <1>1, <2>4, <2>5, CalendarInserted
  <2>7. Holds(cal, held)' /\ cal'.lastPrio <= last'.ts
    BY <1>1, <2>1, <2>6, HoldsLater
  <2>8. qSize' = Cardinality(held')
    BY <1>1, <1>2, <2>1, <2>4, FS_AddElement
  <2>9. SchedulersInv'
    BY <1>1, <2>3, <2>7, <2>8, StayDistinct DEF SchedulersInv, HeapHolds, CalendarHolds, Kinds
  <2> QED
    BY <2>2, <2>3, <2>9
<1>4. ASSUME RemoveNext
      PROVE  SchedulersInv' /\ \E ev \in EventKeys : TakenEvent(ev)
  <2> DEFINE r == Removed(cal, qSize)
             ev == r.ev
  <2>1. /\ qSize # 0 /\ cal' = r.cal /\ last' = ev /\ held' = held \ {ev}
        /\ qSize' = qSize - 1 /\ uid' = uid /\ reverse' = reverse
    BY <1>4 DEF RemoveNext
  <2> HIDE DEF r
  <2>2. held # {}
    BY <1>1, <2>1, FS_EmptySet
  <2>3. Gives(held, r)
    BY <1>1, <2>2, CalendarRemoved DEF r
  <2>4. TakenEvent(ev)
    BY <2>1, <2>3 DEF TakenEvent, Gives
  <2>5. Holds(cal, held)'
    <3>1. Holds(cal', held')
      BY <2>1, <2>3 DEF Gives
    <3> QED
      BY <2>1, <3>1, HoldsLater
  <2>6. cal'.lastPrio <= last'.ts
    <3>1. cal'.lastPrio = last'.ts /\ ev \in held
      BY <2>1, <2>3 DEF Gives
    <3>2. last'.ts \in Nat
      BY <1>1, <2>1, <3>1, KeysAre DEF Keys
    <3> QED
      BY <3>1, <3>2
  <2>7. qSize' = Cardinality(held') /\ ev \in held
    BY <1>1, <2>1, <2>3 DEF Gives
  <2> HIDE DEF ev
  <2>8. SchedulersInv'
    BY <1>1, <2>4, <2>5, <2>6, <2>7, StayDistinct DEF SchedulersInv, HeapHolds, CalendarHolds, Kinds
  <2> QED
    BY <1>1, <2>4, <2>7, <2>8
<1>5. ASSUME NEW ev \in held, RemoveEvent(ev)
      PROVE  SchedulersInv' /\ RemovedEvent(ev)
  <2> DEFINE b == Hash(cal, ev.ts)
  <2>1. PICK i \in DOMAIN cal.buckets[b] :
          /\ cal.buckets[b][i].uid = ev.uid
          /\ cal' = Without(cal, qSize, b, i)
    BY <1>5 DEF RemoveEvent, Without
  <2>2. qSize' = qSize - 1 /\ held' = held \ {ev} /\ uid' = uid /\ last' = last /\ reverse' = reverse
    BY <1>5 DEF RemoveEvent
  <2>3. RemovedEvent(ev)
    BY <2>2 DEF RemovedEvent
  <2>4. b \in 1 .. nBuckets(cal)
    <3>1. ev.ts \in Nat /\ Filed(cal, held)
      BY <1>1, KeysAre DEF Keys, Holds
    <3> QED
      BY <3>1, HashIs
  <2> HIDE DEF b
  <2>5. Sorts(cal.buckets[b], InDay(cal, held, b))
    BY <1>1, <2>4 DEF Holds, Filed
  <2>6. i \in 1 .. Len(cal.buckets[b]) /\ cal.buckets[b][i] \in held
    BY <2>1, <2>5 DEF Sorts, InDay
  <2>7. ev = cal.buckets[b][i]
    BY <1>1, <2>1, <2>6
  <2>8. Lacks(cal, held, ev, Without(cal, Cardinality(held), b, i))
    BY <1>1, <2>4, <2>6, <2>7, CalendarWithout
  <2>9. /\ Holds(cal', held') /\ cal'.lastPrio = cal.lastPrio
        /\ Cardinality(held') = Cardinality(held) - 1
    BY <1>1, <2>1, <2>2, <2>8 DEF Lacks
  <2>10. Holds(cal, held)'
    BY <2>2, <2>9, HoldsLater
  <2>11. cal'.lastPrio <= last'.ts /\ qSize' = Cardinality(held')
    BY <1>1, <2>2, <2>9
  <2>12. SchedulersInv'
    BY <1>1, <2>3, <2>10, <2>11, StayDistinct DEF SchedulersInv, HeapHolds, CalendarHolds, Kinds
  <2> QED
    BY <2>3, <2>12
<1>6. \/ \E ts \in last.ts .. MaxTs : Insert(ts)
      \/ RemoveNext
      \/ \E ev \in held : RemoveEvent(ev)
  BY DEF CalendarStep, CalendarNext
<1> QED
  BY <1>1, <1>3, <1>4, <1>5, <1>6

\* A change of the scheduler keeps the events and the time reached.
LEMMA SetSchedulerHolds ==
  ASSUME SchedulersInv, NEW kind \in Kinds, SetScheduler(kind)
  PROVE  SchedulersInv' /\ held' = held /\ last' = last
<1>1. /\ scheduler \in Kinds /\ scheduler' = kind
      /\ reverse' = reverse /\ uid' = uid /\ last' = last /\ held' = held
      /\ last \in EventKeys /\ uid \in Nat \ {0}
      /\ EventsDistinct
  BY DEF SetScheduler, SchedulersInv
<1>2. Lists(Drained, held)
  <2>1. CASE scheduler = "heap"
    <3>1. Lists(heap, held) /\ InHeapOrder(heap)
      BY <2>1 DEF SchedulersInv, HeapHolds
    <3>2. Lists(HeapDrained, held)
      BY <3>1, HeapDrainedIs
    <3> QED
      BY <2>1, <3>2 DEF Drained
  <2>2. CASE scheduler = "calendar"
    <3>1. Holds(cal, held) /\ IsFiniteSet(held) /\ qSize = Cardinality(held)
      BY <1>1, <2>2 DEF SchedulersInv, CalendarHolds, EventsDistinct
    <3>2. Lists(CalendarDrained, held)
      BY <3>1, CalendarDrainedIs
    <3> QED
      BY <2>2, <3>2 DEF Drained
  <2> QED
    BY <1>1, <2>1, <2>2 DEF Kinds
<1>3. EventsDistinct'
  BY <1>1 DEF EventsDistinct
<1> DEFINE events == Drained
<1>4. IF kind = "heap"
      THEN heap' = FilledHeap(events) /\ cal' = NewCalendar /\ qSize' = 0
      ELSE cal' = FilledCalendar(events) /\ qSize' = Len(events) /\ heap' = <<>>
  BY DEF SetScheduler
<1> HIDE DEF events
<1>5. Lists(events, held)
  BY <1>2 DEF events
<1>6. HeapHolds'
  <2> SUFFICES ASSUME kind = "heap" PROVE (Lists(heap, held) /\ InHeapOrder(heap))'
    BY <1>1 DEF HeapHolds
  <2>1. Lists(FilledHeap(events), held) /\ InHeapOrder(FilledHeap(events))
    BY <1>5, FilledHeapIs
  <2>2. Lists(heap', held') /\ InHeapOrder(heap')
    BY <1>1, <1>4, <2>1
  <2> QED
    BY <2>2 DEF Lists, InHeapOrder, Distinct
<1>7. CalendarHolds'
  <2> SUFFICES ASSUME kind = "calendar"
               PROVE  Holds(cal, held)' /\ qSize' = Cardinality(held') /\ cal'.lastPrio <= last'.ts
    BY <1>1 DEF CalendarHolds
  <2>1. Holds(FilledCalendar(events), held) /\ FilledCalendar(events).lastPrio = 0
    BY <1>5, FilledCalendarIs
  <2>2. cal' = FilledCalendar(events) /\ qSize' = Len(events)
    BY <1>4
  <2>3. Holds(cal', held') /\ cal'.lastPrio = 0
    BY <1>1, <2>1, <2>2
  <2>4. Holds(cal, held)'
    BY <1>1, <2>3, HoldsLater
  <2>5. Cardinality(held) = Len(events)
    BY <1>5, ListCounts
  <2>6. last.ts \in Nat
    BY <1>1, KeysAre DEF Keys
  <2> QED
    BY <1>1, <2>2, <2>3, <2>4, <2>5, <2>6
<1> QED
  BY <1>1, <1>3, <1>6, <1>7 DEF SchedulersInv

LEMMA StepHolds == SchedulersInv /\ [Next]_schedulersVars => SchedulersInv'
<1> SUFFICES ASSUME SchedulersInv, [Next]_schedulersVars PROVE SchedulersInv'
  OBVIOUS
<1>1. CASE HeapStep
  BY <1>1, HeapStepHolds
<1>2. CASE CalendarStep
  BY <1>2, CalendarStepHolds
<1>3. CASE \E kind \in Kinds : SetScheduler(kind)
  BY <1>3, SetSchedulerHolds
<1>4. CASE UNCHANGED schedulersVars
  <2>1. /\ scheduler' = scheduler /\ heap' = heap /\ cal' = cal /\ qSize' = qSize
        /\ reverse' = reverse /\ uid' = uid /\ last' = last /\ held' = held
    BY <1>4 DEF schedulersVars
  <2>2. EventsDistinct' /\ HeapHolds'
    BY <2>1 DEF SchedulersInv, EventsDistinct, HeapHolds, Lists, InHeapOrder, Distinct
  <2>3. CalendarHolds'
    BY <2>1, HoldsLater DEF SchedulersInv, CalendarHolds
  <2> QED
    BY <2>1, <2>2, <2>3 DEF SchedulersInv
<1> QED
  BY <1>1, <1>2, <1>3, <1>4 DEF Next

\* Either list holds the events of the simulation, in the order its operations rely on.
THEOREM SchedulersCorrect == Spec => []SchedulersInv
BY InitHolds, StepHolds, PTL DEF Spec

\* No insertion or removal, at whatever depth, and no change of the scheduler loses or
\* doubles an event of the heap.
THEOREM HeapHoldsEveryEvent == Spec => []HoldsEveryEvent
<1>1. SchedulersInv => HoldsEveryEvent
  <2> SUFFICES ASSUME SchedulersInv, scheduler = "heap"
               PROVE  {heap[i] : i \in DOMAIN heap} = held /\ Len(heap) = Cardinality(held)
    BY DEF HoldsEveryEvent
  <2>1. Lists(heap, held)
    BY DEF SchedulersInv, HeapHolds
  <2>2. heap \in Seq(Keys) /\ DOMAIN heap = 1 .. Len(heap)
    BY <2>1 DEF Lists
  <2>3. {heap[i] : i \in DOMAIN heap} = held
    BY <2>1, <2>2 DEF Lists
  <2>4. Len(heap) = Cardinality(held)
    BY <2>1, ListCounts
  <2> QED
    BY <2>3, <2>4
<1> QED
  BY <1>1, SchedulersCorrect, PTL

\* The places of a calendar: a bucket and a position in it.
Places(c) == UNION {{b} \X DOMAIN c.buckets[b] : b \in DOMAIN c.buckets}

\* A calendar has one place for each event it holds.
LEMMA PlacesCount ==
  ASSUME NEW c, NEW S, Filed(c, S), IsFiniteSet(S)
  PROVE  Cardinality(Places(c)) = Cardinality(S)
<1> DEFINE n == nBuckets(c)
           P == Places(c)
           f == [p \in P |-> c.buckets[p[1]][p[2]]]
<1>1. /\ n \in Nat /\ DOMAIN c.buckets = 1 .. n
      /\ \A b \in 1 .. n : c.buckets[b] \in Seq(Keys)
      /\ S \in SUBSET Keys
  BY DEF Filed, CalendarTypes, nBuckets
<1>2. ASSUME NEW b \in 1 .. n
      PROVE  /\ \A i \in DOMAIN c.buckets[b] : c.buckets[b][i] \in S /\ Hash(c, c.buckets[b][i].ts) = b
             /\ \A i, j \in DOMAIN c.buckets[b] : c.buckets[b][i] = c.buckets[b][j] => i = j
             /\ \A e \in S : Hash(c, e.ts) = b => \E i \in DOMAIN c.buckets[b] : c.buckets[b][i] = e
  <2> DEFINE q == c.buckets[b]
             T == InDay(c, S, b)
  <2>1. Sorts(q, T)
    BY DEF Filed
  <2> HIDE DEF q, T
  <2>2. Lists(q, T)
    BY <2>1, SortedIsList
  <2>3. q \in Seq(Keys) /\ DOMAIN q = 1 .. Len(q)
    BY <2>2 DEF Lists
  <2>4. /\ \A i \in DOMAIN q : q[i] \in T
        /\ \A i, j \in DOMAIN q : q[i] = q[j] => i = j
        /\ \A e \in T : \E i \in DOMAIN q : q[i] = e
    BY <2>2, <2>3 DEF Lists, Distinct
  <2> QED
    BY <2>4 DEF q, T, InDay
<1>3. \A p \in P : p[1] \in 1 .. n /\ p[2] \in DOMAIN c.buckets[p[1]] /\ p = <<p[1], p[2]>>
  BY <1>1 DEF Places
<1>4. \A b \in 1 .. n : \A i \in DOMAIN c.buckets[b] : <<b, i>> \in P
  BY <1>1 DEF Places
<1> HIDE DEF n, P
<1>5. f \in [P -> S]
  BY <1>2, <1>3
<1>6. IsInjective(f)
  <2> SUFFICES ASSUME NEW p \in P, NEW r \in P, f[p] = f[r] PROVE p = r
    BY DEF IsInjective
  <2>1. c.buckets[p[1]][p[2]] = c.buckets[r[1]][r[2]]
    OBVIOUS
  <2>2. p[1] = r[1]
    BY <1>2, <1>3, <2>1
  <2>3. p[2] = r[2]
    BY <1>2, <1>3, <2>1, <2>2
  <2> QED
    BY <1>3, <2>2, <2>3
<1>7. \A e \in S : \E p \in P : f[p] = e
  <2> SUFFICES ASSUME NEW e \in S PROVE \E p \in P : f[p] = e
    OBVIOUS
  <2>1. e.ts \in Nat
    BY <1>1 DEF Keys
  <2>2. Hash(c, e.ts) \in 1 .. n
    BY <2>1, HashIs DEF n
  <2>3. PICK i \in DOMAIN c.buckets[Hash(c, e.ts)] : c.buckets[Hash(c, e.ts)][i] = e
    BY <1>2, <2>2
  <2>4. <<Hash(c, e.ts), i>> \in P
    BY <1>4, <2>2
  <2> QED
    BY <2>3, <2>4
<1> HIDE DEF f
<1>8. f \in Injection(P, S) /\ f \in Surjection(P, S)
  BY <1>5, <1>6, <1>7 DEF Injection, Surjection
<1>9. Cardinality(P) = Cardinality(S)
  BY <1>8, FS_Injection
<1> QED
  BY <1>9 DEF P

\* Through every resize each event stays in the bucket its time hashes to, so Remove finds
\* it and its NS_ASSERT(false) is never reached.
THEOREM BucketsAreRight == Spec => []EventsInTheirBuckets
<1>1. SchedulersInv => EventsInTheirBuckets
  <2> SUFFICES ASSUME SchedulersInv, scheduler = "calendar"
               PROVE  /\ qSize = Cardinality(held)
                      /\ \A ev \in held : \E i \in DOMAIN cal.buckets[Hash(cal, ev.ts)] :
                           cal.buckets[Hash(cal, ev.ts)][i] = ev
                      /\ Cardinality(Places(cal)) = qSize
    BY DEF EventsInTheirBuckets, Places
  <2>1. Filed(cal, held) /\ IsFiniteSet(held) /\ qSize = Cardinality(held)
    BY DEF SchedulersInv, CalendarHolds, Holds, EventsDistinct
  <2>2. ASSUME NEW ev \in held
        PROVE  \E i \in DOMAIN cal.buckets[Hash(cal, ev.ts)] : cal.buckets[Hash(cal, ev.ts)][i] = ev
    <3> DEFINE b == Hash(cal, ev.ts)
               q == cal.buckets[b]
    <3>1. ev.ts \in Nat
      BY <2>1 DEF Filed, Keys
    <3>2. b \in 1 .. nBuckets(cal)
      BY <2>1, <3>1, HashIs
    <3>3. Sorts(q, InDay(cal, held, b)) /\ ev \in InDay(cal, held, b)
      BY <2>1, <3>2 DEF Filed, InDay
    <3> HIDE DEF q, b
    <3>4. Lists(q, InDay(cal, held, b))
      BY <3>3, SortedIsList
    <3>5. DOMAIN q = 1 .. Len(q)
      BY <3>4 DEF Lists
    <3> QED
      BY <3>3, <3>4, <3>5 DEF Lists, q, b
  <2>3. Cardinality(Places(cal)) = qSize
    BY <2>1, PlacesCount
  <2> QED
    BY <2>1, <2>2, <2>3
<1> QED
  BY <1>1, SchedulersCorrect, PTL

\* DoRemoveNext starts its search in the day of the last event taken, and nothing held is
\* due before it, whatever was inserted, removed or moved by a resize meanwhile.
THEOREM SearchIsInTime == Spec => []SearchStartsInTime
<1>1. SchedulersInv => SearchStartsInTime
  BY DEF SchedulersInv, CalendarHolds, Holds, Timed, Since, SearchStartsInTime
<1> QED
  BY <1>1, SchedulersCorrect, PTL

\* Every step is one of the abstract event list, or none.
LEMMA QueueStep ==
  ASSUME SchedulersInv, [Next]_schedulersVars
  PROVE  [Queue!Next]_(Queue!queueVars)
<1>1. held \in SUBSET EventKeys /\ \A e \in held : e.uid < uid /\ e.uid \in Nat
  BY KeysAre DEF SchedulersInv, EventsDistinct, Keys
<1>2. ASSUME NEW ev \in EventKeys, NewEvent(ev) PROVE Queue!Insert(ev)
  BY <1>1, <1>2 DEF NewEvent, Queue!Insert
<1>3. ASSUME NEW ev \in EventKeys, TakenEvent(ev) PROVE Queue!RemoveNext(ev)
  BY <1>3 DEF TakenEvent, Queue!RemoveNext, Queue!Less, Less
<1>4. ASSUME NEW ev \in EventKeys, RemovedEvent(ev) PROVE Queue!Remove(ev)
  BY <1>4 DEF RemovedEvent, Queue!Remove
<1>5. CASE HeapStep
  BY <1>2, <1>3, <1>5, HeapStepHolds DEF Queue!Next, Queue!EventKeys, EventKeys
<1>6. CASE CalendarStep
  BY <1>2, <1>3, <1>4, <1>6, CalendarStepHolds DEF Queue!Next, Queue!EventKeys, EventKeys
<1>7. CASE \E kind \in Kinds : SetScheduler(kind)
  BY <1>7, SetSchedulerHolds DEF Queue!queueVars
<1>8. CASE UNCHANGED schedulersVars
  BY <1>8 DEF schedulersVars, Queue!queueVars
<1> QED
  BY <1>5, <1>6, <1>7, <1>8 DEF Next

\* The heap, the calendar and the change between them implement EventQueue: what comes
\* out is the earliest event held, and nothing is lost or doubled on the way.
THEOREM ImplementsQueue == Spec => QueueSpec
<1>1. Init => Queue!Init
  BY DEF Init, CalendarInit, Queue!Init, Queue!Start, Start
<1>2. SchedulersInv /\ [Next]_schedulersVars => [Queue!Next]_(Queue!queueVars)
  BY QueueStep
<1> QED
  BY <1>1, <1>2, SchedulersCorrect, PTL DEF Spec, QueueSpec, Queue!Spec
=============================================================================
