------------------------------- MODULE ListProofs -------------------------------
(***************************************************************************)
(* Facts about sequences that the proofs about retrieval and about chunks   *)
(* share: what folds, concatenations, selections and maps return.  An       *)
(* induction is stated for a set, because a theorem with an operator as its *)
(* parameter cannot be used here.                                           *)
(***************************************************************************)
EXTENDS Lists, SequenceTheorems, FiniteSetTheorems, WellFoundedInduction, TLAPS

\* A set of natural numbers has a least element: this is what the induction below rests on.
LEMMA LeastElement ==
  ASSUME NEW T, T \subseteq Nat, T # {}
  PROVE  \E n \in T : \A m \in T : n <= m
<1> DEFINE R == {ss \in Nat \X Nat : ss[1] < ss[2]}
<1>1. IsWellFoundedOn(R, Nat)
  BY NatLessThanWellFounded DEF OpToRel
<1>2. \E n \in T : \A m \in T : <<m, n>> \notin R
  <2> HIDE DEF R
  <2> QED BY <1>1, WFMin
<1>3. PICK n \in T : \A m \in T : <<m, n>> \notin R
  BY <1>2
<1>4. ASSUME NEW m \in T PROVE n <= m
  <2>1. m \in Nat /\ n \in Nat /\ <<m, n>> \notin R
    BY <1>3
  <2> QED BY <2>1
<1> QED
  BY <1>4

\* Induction over the natural numbers, for a set instead of a predicate.
LEMMA Induction ==
  ASSUME NEW S, 0 \in S, \A n \in Nat : n \in S => n + 1 \in S
  PROVE  Nat \subseteq S
<1> SUFFICES ASSUME Nat \ S # {} PROVE FALSE
  OBVIOUS
<1>1. PICK n \in Nat \ S : \A m \in Nat \ S : n <= m
  <2>1. Nat \ S \subseteq Nat
    OBVIOUS
  <2> QED BY <2>1, LeastElement
<1>2. n - 1 \in Nat /\ n - 1 \in S
  BY <1>1
<1> QED
  BY <1>1, <1>2

\* The values that the steps lead to, one after the other.
Steps(step, N, V) == N \in Nat /\ step \in [1..N -> [V -> V]]
\* The sequence f of values from base on.
Leads(f, V, base, N, step) ==
    /\ f \in [0..N -> V]
    /\ f[0] = base
    /\ \A n \in 1..N : f[n] = step[n][f[n - 1]]

\* A recursion over 1..N that stays in V has a solution.
LEMMA Recursion ==
  ASSUME NEW V, NEW base \in V, NEW N, NEW step, Steps(step, N, V)
  PROVE  \E f : Leads(f, V, base, N, step)
<1> USE DEF Steps
<1> DEFINE Up(m) == \E f \in [0..m -> V] :
                       f[0] = base /\ \A n \in 1..m : f[n] = step[n][f[n - 1]]
           S == {m \in Nat : m <= N => Up(m)}
<1>1. 0 \in S
  <2> DEFINE g == [n \in 0..0 |-> base]
  <2>1. g \in [0..0 -> V] /\ g[0] = base
    OBVIOUS
  <2>2. \A n \in 1..0 : g[n] = step[n][g[n - 1]]
    OBVIOUS
  <2>3. Up(0)
    <3> HIDE DEF g
    <3> QED BY <2>1, <2>2
  <2> QED
    BY <2>3
<1>2. ASSUME NEW m \in Nat, m \in S PROVE m + 1 \in S
  <2>1. SUFFICES ASSUME m + 1 <= N PROVE Up(m + 1)
    OBVIOUS
  <2>2. PICK f \in [0..m -> V] : f[0] = base /\ \A n \in 1..m : f[n] = step[n][f[n - 1]]
    BY <1>2, <2>1
  <2> DEFINE g == [n \in 0..(m + 1) |-> IF n <= m THEN f[n] ELSE step[m + 1][f[m]]]
  <2>3. g \in [0..(m + 1) -> V]
    BY <2>1
  <2>4. g[0] = base
    BY <2>2
  <2>5. ASSUME NEW n \in 1..(m + 1) PROVE g[n] = step[n][g[n - 1]]
    <3>1. g[n - 1] = f[n - 1]
      OBVIOUS
    <3>2. CASE n <= m
      <4>1. n \in 1..m /\ g[n] = f[n]
        BY <3>2
      <4> QED BY <2>2, <3>1, <4>1
    <3>3. CASE n = m + 1
      <4>1. g[m + 1] = step[m + 1][f[m]]
        OBVIOUS
      <4>2. g[m] = f[m] /\ n - 1 = m
        BY <3>3
      <4> HIDE DEF g
      <4> QED BY <3>3, <4>1, <4>2
    <3> QED BY <3>2, <3>3
  <2> HIDE DEF g
  <2> QED BY <2>3, <2>4, <2>5
<1>3. Nat \subseteq S
  <2> HIDE DEF S
  <2> QED BY <1>1, <1>2, Induction
<1>4. N \in S
  BY <1>3
<1> QED
  BY <1>4 DEF Leads

\* Induction over sequences, for a set instead of a predicate.
LEMMA SeqInduction ==
  ASSUME NEW T, NEW P, <<>> \in P, \A s \in Seq(T), x \in T : s \in P => Append(s, x) \in P
  PROVE  Seq(T) \subseteq P
<1> DEFINE S == {n \in Nat : \A s \in Seq(T) : Len(s) = n => s \in P}
<1>1. 0 \in S
  OBVIOUS
<1>2. ASSUME NEW n \in Nat, n \in S PROVE n + 1 \in S
  <2>1. SUFFICES ASSUME NEW s \in Seq(T), Len(s) = n + 1 PROVE s \in P
    OBVIOUS
  <2>2. s # <<>>
    BY <2>1
  <2>3. PICK t \in Seq(T), x \in T : s = Append(t, x)
    BY <2>2, SequenceEmptyOrAppend
  <2>4. Len(t) = n
    BY <2>1, <2>3
  <2>5. t \in P
    BY <1>2, <2>4
  <2> QED BY <2>3, <2>5
<1>3. Nat \subseteq S
  <2> HIDE DEF S
  <2> QED BY <1>1, <1>2, Induction
<1>4. \A s \in Seq(T) : Len(s) \in S
  BY <1>3
<1> QED
  BY <1>4

-------------------------------------------------------------------------------
\* Two solutions of one recursion are equal.
LEMMA SameRecursion ==
  ASSUME NEW N \in Nat, NEW f, NEW g, DOMAIN f = 0..N, DOMAIN g = 0..N,
         f = [n \in 0..N |-> f[n]], g = [n \in 0..N |-> g[n]], f[0] = g[0],
         \A n \in 1..N : f[n - 1] = g[n - 1] => f[n] = g[n]
  PROVE  f = g
<1> DEFINE S == {n \in Nat : n <= N => f[n] = g[n]}
<1>1. 0 \in S
  OBVIOUS
<1>2. ASSUME NEW n \in Nat, n \in S PROVE n + 1 \in S
  <2>1. SUFFICES ASSUME n + 1 <= N PROVE f[n + 1] = g[n + 1]
    OBVIOUS
  <2>2. f[n] = g[n]
    BY <1>2, <2>1
  <2>3. n + 1 \in 1..N /\ (n + 1) - 1 = n
    BY <2>1
  <2> QED BY <2>2, <2>3
<1>3. Nat \subseteq S
  <2> HIDE DEF S
  <2> QED BY <1>1, <1>2, Induction
<1>4. \A n \in 0..N : n \in S
  BY <1>3
<1>5. \A n \in 0..N : f[n] = g[n]
  BY <1>4
<1> QED
  BY <1>5

\* Folded is the last value of such a recursion.
LEMMA FoldedDef ==
  ASSUME NEW V, NEW base \in V, NEW N, NEW step, Steps(step, N, V)
  PROVE  \E f : Leads(f, V, base, N, step) /\ Folded(base, step) = f[N]
<1> DEFINE Eq(f) == f = [n \in 0..N |-> IF n = 0 THEN base ELSE step[n][f[n - 1]]]
           c == CHOOSE f : Eq(f)
<1>1. PICK g : Leads(g, V, base, N, step)
  BY Recursion
<1>2. Eq(g)
  <2>1. \A n \in 0..N : n = 0 \/ n \in 1..N
    BY DEF Steps
  <2> QED BY <1>1, <2>1 DEF Leads
<1>3. Eq(c)
  <2> HIDE DEF Eq
  <2> QED BY <1>2, Zenon
<1>4. c[0] = base /\ \A n \in 1..N : c[n] = step[n][c[n - 1]]
  <2>1. 0 \in 0..N /\ \A n \in 1..N : n \in 0..N /\ n # 0
    BY DEF Steps
  <2> HIDE DEF c
  <2> QED BY <1>3, <2>1
<1>5. c = g
  <2>1. g = [n \in 0..N |-> g[n]] /\ DOMAIN g = 0..N /\ g[0] = base
    BY <1>1 DEF Leads
  <2>2. c = [n \in 0..N |-> c[n]] /\ DOMAIN c = 0..N
    <3> HIDE DEF c
    <3> QED BY <1>3
  <2>3. \A n \in 1..N : c[n - 1] = g[n - 1] => c[n] = g[n]
    <3> HIDE DEF c
    <3> QED BY <1>1, <1>4 DEF Leads
  <2>4. N \in Nat
    BY DEF Steps
  <2> HIDE DEF c
  <2> QED BY <1>4, <2>1, <2>2, <2>3, <2>4, SameRecursion
<1>6. Folded(base, step) = c[N]
  <2>1. Len(step) = N
    BY DEF Steps
  <2> QED BY <2>1 DEF Folded
<1> HIDE DEF c
<1> QED
  BY <1>1, <1>5, <1>6

\* What every step keeps is true in the end.
LEMMA FoldedInvariant ==
  ASSUME NEW V, NEW base \in V, NEW N, NEW step, Steps(step, N, V),
         NEW P, base \in P[0],
         \A n \in 1..N : \A v \in V : v \in P[n - 1] => step[n][v] \in P[n]
  PROVE  Folded(base, step) \in V \cap P[N]
<1>1. PICK f : Leads(f, V, base, N, step) /\ Folded(base, step) = f[N]
  BY FoldedDef
<1> DEFINE S == {n \in Nat : n <= N => f[n] \in P[n]}
<1>2. 0 \in S
  BY <1>1 DEF Leads
<1>3. ASSUME NEW n \in Nat, n \in S PROVE n + 1 \in S
  <2>1. SUFFICES ASSUME n + 1 <= N PROVE f[n + 1] \in P[n + 1]
    OBVIOUS
  <2>2. n + 1 \in 1..N /\ (n + 1) - 1 = n /\ n \in 0..N
    BY <2>1 DEF Steps
  <2>3. f[n] \in P[n] /\ f[n] \in V
    BY <1>1, <1>3, <2>1, <2>2 DEF Leads, Steps
  <2>4. f[n + 1] = step[n + 1][f[n]]
    BY <1>1, <2>2 DEF Leads
  <2> QED BY <2>2, <2>3, <2>4
<1>4. Nat \subseteq S
  <2> HIDE DEF S
  <2> QED BY <1>2, <1>3, Induction
<1>5. N \in S /\ N \in 0..N
  BY <1>4 DEF Steps
<1> QED
  BY <1>1, <1>5 DEF Leads, Steps

\* What every step keeps is true in the end, wherever else a step may lead.
LEMMA FoldedKeeps ==
  ASSUME NEW N \in Nat, NEW steps, Len(steps) = N, NEW base, NEW P, base \in P[0],
         \A n \in 1..N : \A v \in P[n - 1] : steps[n][v] \in P[n]
  PROVE  Folded(base, steps) \in P[N]
<1> DEFINE W == UNION {P[n] : n \in 0..N}
           step == [n \in 1..N |-> [v \in W |-> IF steps[n][v] \in W THEN steps[n][v] ELSE base]]
           Eq(f) == f = [n \in 0..N |-> IF n = 0 THEN base ELSE steps[n][f[n - 1]]]
           c == CHOOSE f : Eq(f)
<1>1. base \in W /\ \A n \in 0..N : P[n] \subseteq W
  OBVIOUS
<1>2. Steps(step, N, W)
  <2> HIDE DEF W
  <2> QED BY <1>1 DEF Steps
<1>3. PICK g : Leads(g, W, base, N, step)
  <2> HIDE DEF W, step
  <2> QED BY <1>1, <1>2, Recursion
<1> DEFINE S == {n \in Nat : n <= N => g[n] \in P[n] /\ (n > 0 => g[n] = steps[n][g[n - 1]])}
<1>4. Nat \subseteq S
  <2>1. 0 \in S
    BY <1>3 DEF Leads
  <2>2. ASSUME NEW n \in Nat, n \in S PROVE n + 1 \in S
    <3>1. SUFFICES ASSUME n + 1 <= N PROVE n + 1 \in S
      OBVIOUS
    <3>2. n + 1 \in 1..N /\ (n + 1) - 1 = n /\ n + 1 \in 0..N
      BY <3>1
    <3>3. g[n] \in P[n] /\ n \in 0..N
      BY <2>2, <3>1
    <3>4. steps[n + 1][g[n]] \in P[n + 1]
      BY <3>2, <3>3
    <3>5. g[n] \in W /\ steps[n + 1][g[n]] \in W
      BY <1>1, <3>2, <3>3, <3>4
    <3>6. g[n + 1] = step[n + 1][g[n]]
      BY <1>3, <3>2 DEF Leads
    <3>7. g[n + 1] = steps[n + 1][g[n]]
      <4> HIDE DEF W
      <4> QED BY <3>2, <3>5, <3>6
    <3> QED BY <3>2, <3>4, <3>7
  <2> HIDE DEF S
  <2> QED BY <2>1, <2>2, Induction
<1>5. \A n \in 0..N : g[n] \in P[n] /\ (n > 0 => g[n] = steps[n][g[n - 1]])
  BY <1>4
<1> HIDE DEF W, step, S
<1>6. /\ g = [n \in 0..N |-> g[n]] /\ DOMAIN g = 0..N /\ g[0] = base
      /\ \A n \in 1..N : g[n] = steps[n][g[n - 1]]
  BY <1>3, <1>5 DEF Leads
<1>7. Eq(g)
  BY <1>6
<1>8. Eq(c)
  <2> HIDE DEF Eq
  <2> QED BY <1>7, Zenon
<1> HIDE DEF c
<1>9. c[0] = base /\ \A n \in 1..N : c[n] = steps[n][c[n - 1]]
  BY <1>8
<1>10. c = [n \in 0..N |-> c[n]] /\ DOMAIN c = 0..N
  BY <1>8
<1>11. c = g
  <2>1. \A n \in 1..N : c[n - 1] = g[n - 1] => c[n] = g[n]
    BY <1>6, <1>9
  <2>2. c[0] = g[0]
    BY <1>6, <1>9
  <2> QED BY <1>6, <1>10, <2>1, <2>2, SameRecursion
<1>12. Folded(base, steps) = c[N]
  BY DEF Folded, c
<1> QED
  BY <1>5, <1>11, <1>12

\* A function on 1..N is a sequence of N.
LEMMA FunctionLen ==
  ASSUME NEW N \in Nat, NEW f, f = [n \in 1..N |-> f[n]]
  PROVE  Len(f) = N /\ DOMAIN f = 1..N
<1>1. DOMAIN f = 1..N
  OBVIOUS
<1>2. f \in [1..N -> {f[n] : n \in 1..N}]
  OBVIOUS
<1>3. f \in Seq({f[n] : n \in 1..N})
  <2> DEFINE T == {f[n] : n \in 1..N}
  <2>1. f \in [1..N -> T]
    BY <1>2
  <2> HIDE DEF T
  <2> QED BY <2>1
<1> QED
  BY <1>1, <1>3

\* The same for a fold whose steps are those of a sequence.
LEMMA WalkKeeps ==
  ASSUME NEW T, NEW seq \in Seq(T), NEW steps, steps = [n \in DOMAIN seq |-> steps[n]],
         NEW base, NEW P, base \in P[0],
         \A n \in 1..Len(seq) : \A v \in P[n - 1] : steps[n][v] \in P[n]
  PROVE  Folded(base, steps) \in P[Len(seq)]
<1>1. DOMAIN seq = 1..Len(seq) /\ Len(seq) \in Nat
  OBVIOUS
<1>2. Len(steps) = Len(seq)
  BY <1>1, FunctionLen
<1> QED
  BY <1>1, <1>2, FoldedKeeps

\* FlattenSeq is the last value of a recursion over the sequences that it puts together.
LEMMA FlattenDef ==
  ASSUME NEW T, NEW ss \in Seq(Seq(T)), Len(ss) > 0
  PROVE  \E f \in [1..Len(ss) -> Seq(T)] :
            /\ FlattenSeq(ss) = f[Len(ss)]
            /\ f[1] = ss[1]
            /\ \A i \in 2..Len(ss) : f[i] = f[i - 1] \o ss[i]
<1> DEFINE N == Len(ss)
           V == Seq(T)
           step == [i \in 1..N |-> [v \in V |-> IF i = 1 THEN ss[1] ELSE v \o ss[i]]]
           Eq(f) == f = [i \in 1..N |-> IF i = 1 THEN ss[i] ELSE f[i - 1] \o ss[i]]
           c == CHOOSE f : Eq(f)
           empty == <<>>
<1>1. N \in Nat \ {0} /\ step \in [1..N -> [V -> V]] /\ empty \in V
  OBVIOUS
<1>2. PICK g : Leads(g, V, empty, N, step)
  <2>1. Steps(step, N, V)
    BY <1>1 DEF Steps
  <2> HIDE DEF N, V, empty, step
  <2> QED BY <1>1, <2>1, Recursion
<1> DEFINE h == [i \in 1..N |-> g[i]]
<1>3. ASSUME NEW i \in 1..N PROVE h[i] = IF i = 1 THEN ss[i] ELSE h[i - 1] \o ss[i]
  <2>1. g[i - 1] \in V /\ g[i] = step[i][g[i - 1]]
    <3> HIDE DEF V, step, N, empty
    <3> QED BY <1>1, <1>2 DEF Leads
  <2>2. step[i][g[i - 1]] = IF i = 1 THEN ss[1] ELSE g[i - 1] \o ss[i]
    <3> HIDE DEF V, N
    <3> QED BY <2>1
  <2>3. i # 1 => h[i - 1] = g[i - 1]
    <3> HIDE DEF V
    <3> QED BY <1>1
  <2>4. h[i] = g[i]
    OBVIOUS
  <2> HIDE DEF h, step, N, V
  <2> QED BY <2>1, <2>2, <2>3, <2>4
<1>4. Eq(h)
  BY <1>3
<1>5. Eq(c)
  <2> HIDE DEF Eq
  <2> QED BY <1>4, Zenon
<1>6. FlattenSeq(ss) = c[N]
  BY DEF FlattenSeq
<1>7. \A i \in 1..N : c[i] = IF i = 1 THEN ss[i] ELSE c[i - 1] \o ss[i]
  <2> HIDE DEF c, N
  <2> QED BY <1>5
<1>8. c \in [1..N -> V]
  <2> DEFINE S == {n \in Nat : n \in 1..N => c[n] \in V}
  <2>1. 0 \in S
    OBVIOUS
  <2>2. ASSUME NEW n \in Nat, n \in S PROVE n + 1 \in S
    <3>1. SUFFICES ASSUME n + 1 \in 1..N PROVE c[n + 1] \in V
      OBVIOUS
    <3>2. ss[n + 1] \in V
      BY <3>1
    <3>3. CASE n = 0
      <4> HIDE DEF c
      <4> QED BY <1>7, <3>1, <3>2, <3>3
    <3>4. CASE n # 0
      <4>1. c[n] \in V
        BY <2>2, <3>1, <3>4
      <4>2. c[n + 1] = c[n] \o ss[n + 1]
        <5>1. (n + 1) - 1 = n /\ n + 1 # 1
          BY <3>4
        <5> HIDE DEF c, N
        <5> QED BY <1>7, <3>1, <5>1
      <4> HIDE DEF c
      <4> QED BY <3>2, <4>1, <4>2
    <3> QED BY <3>3, <3>4
  <2>3. Nat \subseteq S
    <3> HIDE DEF S
    <3> QED BY <2>1, <2>2, Induction
  <2>4. \A n \in 1..N : c[n] \in V
    <3>1. \A n \in 1..N : n \in Nat /\ n \in S
      <4> HIDE DEF S
      <4> QED BY <2>3, <1>1
    <3> HIDE DEF c, N, V
    <3> QED BY <3>1
  <2>5. c = [i \in 1..N |-> c[i]]
    <3> HIDE DEF c, N
    <3> QED BY <1>5
  <2> HIDE DEF c, N, V
  <2> QED BY <2>4, <2>5
<1>9. c[1] = ss[1] /\ \A i \in 2..N : c[i] = c[i - 1] \o ss[i]
  <2>1. 1 \in 1..N /\ \A i \in 2..N : i \in 1..N /\ i # 1
    BY <1>1
  <2> HIDE DEF c, N
  <2> QED BY <1>7, <2>1
<1> HIDE DEF c
<1> QED
  BY <1>6, <1>8, <1>9

\* Nothing, put together, is nothing.
LEMMA FlattenEmpty == FlattenSeq(<<>>) = <<>>
  BY DEF FlattenSeq

\* One more sequence comes after what the others make.
LEMMA FlattenAppend ==
  ASSUME NEW T, NEW ss \in Seq(Seq(T)), NEW s \in Seq(T)
  PROVE  /\ FlattenSeq(ss) \in Seq(T)
         /\ FlattenSeq(Append(ss, s)) = FlattenSeq(ss) \o s
<1> DEFINE tt == Append(ss, s)
           N == Len(ss)
<1>1. tt \in Seq(Seq(T)) /\ Len(tt) = N + 1 /\ N \in Nat /\ Len(tt) > 0
  OBVIOUS
<1>2. tt[N + 1] = s /\ \A n \in 1..N : tt[n] = ss[n]
  OBVIOUS
<1>3. PICK h \in [1..Len(tt) -> Seq(T)] :
         /\ FlattenSeq(tt) = h[Len(tt)] /\ h[1] = tt[1]
         /\ \A n \in 2..Len(tt) : h[n] = h[n - 1] \o tt[n]
  <2> HIDE DEF tt
  <2> QED BY <1>1, FlattenDef
<1>4. CASE N = 0
  <2>1. FlattenSeq(tt) = s
    <3> HIDE DEF tt
    <3> QED BY <1>1, <1>2, <1>3, <1>4
  <2>2. FlattenSeq(ss) = <<>>
    BY <1>4, FlattenEmpty
  <2>3. <<>> \o s = s
    OBVIOUS
  <2> QED BY <2>1, <2>2, <2>3
<1>5. CASE N > 0
  <2>1. PICK f \in [1..N -> Seq(T)] :
           /\ FlattenSeq(ss) = f[N] /\ f[1] = ss[1]
           /\ \A n \in 2..N : f[n] = f[n - 1] \o ss[n]
    BY <1>5, FlattenDef
  <2> DEFINE S == {n \in Nat : n \in 1..N => f[n] = h[n]}
  <2>2. 0 \in S
    OBVIOUS
  <2>3. ASSUME NEW n \in Nat, n \in S PROVE n + 1 \in S
    <3>1. SUFFICES ASSUME n + 1 \in 1..N PROVE f[n + 1] = h[n + 1]
      OBVIOUS
    <3>2. CASE n = 0
      <4>1. f[1] = h[1]
        <5> HIDE DEF tt, N
        <5> QED BY <1>2, <1>3, <2>1, <3>1, <3>2
      <4> QED BY <3>2, <4>1
    <3>3. CASE n # 0
      <4>1. /\ n + 1 \in 2..N /\ n + 1 \in 2..Len(tt) /\ (n + 1) - 1 = n
            /\ n \in 1..N
        <5> HIDE DEF tt, N
        <5> QED BY <1>1, <3>1, <3>3
      <4>2. f[n] = h[n]
        BY <2>3, <4>1
      <4>3. f[n + 1] = f[n] \o ss[n + 1]
        <5> HIDE DEF tt, N
        <5> QED BY <2>1, <4>1
      <4>4. h[n + 1] = h[n] \o ss[n + 1]
        <5> HIDE DEF tt, N
        <5> QED BY <1>2, <1>3, <3>1, <4>1
      <4> QED BY <4>2, <4>3, <4>4
    <3> QED BY <3>2, <3>3
  <2>4. Nat \subseteq S
    <3> HIDE DEF S
    <3> QED BY <2>2, <2>3, Induction
  <2>5. N \in S /\ N \in 1..N
    <3>1. N \in Nat /\ N \in 1..N
      BY <1>1, <1>5
    <3> HIDE DEF S
    <3> QED BY <2>4, <3>1
  <2>6. f[N] = h[N]
    BY <2>5
  <2>7. h[N + 1] = h[N] \o s
    <3>1. N + 1 \in 2..Len(tt) /\ (N + 1) - 1 = N
      <4> HIDE DEF tt, N
      <4> QED BY <1>1, <1>5
    <3> HIDE DEF tt, N
    <3> QED BY <1>2, <1>3, <3>1
  <2>8. f[N] \in Seq(T)
    BY <2>1, <2>5
  <2>9. FlattenSeq(ss) \in Seq(T) /\ FlattenSeq(tt) = FlattenSeq(ss) \o s
    <3> HIDE DEF tt, N
    <3> QED BY <1>1, <1>3, <2>1, <2>6, <2>7, <2>8
  <2> QED BY <2>9
<1>6. N = 0 \/ N > 0
  BY <1>1
<1> QED
  BY <1>4, <1>5, <1>6

\* The elements come from the sequences.
LEMMA FlattenType ==
  ASSUME NEW T, NEW ss \in Seq(Seq(T))
  PROVE  FlattenSeq(ss) \in Seq(T)
<1>1. <<>> \in Seq(T)
  OBVIOUS
<1> QED
  BY <1>1, FlattenAppend

\* One sequence stays what it is.
LEMMA FlattenOne ==
  ASSUME NEW T, NEW s \in Seq(T)
  PROVE  FlattenSeq(<<s>>) = s
<1>1. <<>> \in Seq(Seq(T)) /\ <<s>> = Append(<<>>, s) /\ <<>> \o s = s
  OBVIOUS
<1> QED
  BY <1>1, FlattenAppend, FlattenEmpty

\* Two lists of sequences, one after the other.
LEMMA FlattenConcat ==
  ASSUME NEW T, NEW ss \in Seq(Seq(T)), NEW tt \in Seq(Seq(T))
  PROVE  FlattenSeq(ss \o tt) = FlattenSeq(ss) \o FlattenSeq(tt)
<1> DEFINE V == Seq(T)
           P == {t \in Seq(V) : FlattenSeq(ss \o t) = FlattenSeq(ss) \o FlattenSeq(t)}
<1>1. FlattenSeq(ss) \in V
  BY FlattenType
<1>2. <<>> \in P
  <2>1. <<>> \in Seq(V) /\ ss \o <<>> = ss
    BY ConcatEmptySeq
  <2>2. FlattenSeq(ss) \o <<>> = FlattenSeq(ss)
    BY <1>1, ConcatEmptySeq
  <2> QED BY <2>1, <2>2, FlattenEmpty
<1>3. ASSUME NEW t \in Seq(V), NEW x \in V, t \in P
      PROVE  Append(t, x) \in P
  <2>1. Append(t, x) \in Seq(V) /\ ss \o t \in Seq(V)
    OBVIOUS
  <2>2. ss \o Append(t, x) = Append(ss \o t, x)
    OBVIOUS
  <2>3. FlattenSeq(ss \o t) = FlattenSeq(ss) \o FlattenSeq(t)
    BY <1>3
  <2>4. FlattenSeq(Append(ss \o t, x)) = FlattenSeq(ss \o t) \o x
    BY <2>1, FlattenAppend
  <2>5. FlattenSeq(Append(t, x)) = FlattenSeq(t) \o x /\ FlattenSeq(t) \in V
    BY FlattenAppend
  <2>6. (FlattenSeq(ss) \o FlattenSeq(t)) \o x = FlattenSeq(ss) \o (FlattenSeq(t) \o x)
    BY <1>1, <2>5, ConcatAssociative
  <2> QED BY <2>1, <2>2, <2>3, <2>4, <2>5, <2>6
<1>4. Seq(V) \subseteq P
  <2> HIDE DEF P, V
  <2> QED BY <1>2, <1>3, SeqInduction
<1>5. tt \in P
  BY <1>4
<1> QED
  BY <1>5

-------------------------------------------------------------------------------
\* The elements of s that are in S, in their order.
Only(s, S) == FlattenSeq([n \in DOMAIN s |-> IF s[n] \in S THEN <<s[n]>> ELSE <<>>])

\* A selection of positions is one of elements.
LEMMA AtIsOnly ==
  ASSUME NEW s, NEW P, NEW S, \A n \in DOMAIN s : n \in P <=> s[n] \in S
  PROVE  At(s, P) = Only(s, S)
  BY DEF At, Only

\* Only the elements of s matter.
LEMMA OnlySame ==
  ASSUME NEW s, NEW R, NEW S, \A n \in DOMAIN s : s[n] \in R <=> s[n] \in S
  PROVE  Only(s, R) = Only(s, S)
  BY DEF Only

\* Nothing is selected from nothing.
LEMMA OnlyEmpty == ASSUME NEW S PROVE Only(<<>>, S) = <<>>
  BY FlattenEmpty DEF Only

\* A selection has elements of the sequence.
LEMMA OnlyType ==
  ASSUME NEW T, NEW s \in Seq(T), NEW S
  PROVE  Only(s, S) \in Seq(T)
<1>1. [n \in DOMAIN s |-> IF s[n] \in S THEN <<s[n]>> ELSE <<>>] \in Seq(Seq(T))
  <2>1. \A n \in DOMAIN s : (IF s[n] \in S THEN <<s[n]>> ELSE <<>>) \in Seq(T)
    OBVIOUS
  <2> DEFINE V == Seq(T)
             f == [n \in DOMAIN s |-> IF s[n] \in S THEN <<s[n]>> ELSE <<>>]
  <2>2. f \in [1..Len(s) -> V]
    BY <2>1
  <2>3. f \in Seq(V)
    <3> HIDE DEF V, f
    <3> QED BY <2>2
  <2> QED BY <2>3
<1> QED
  BY <1>1, FlattenType DEF Only

\* One more element is selected or it is not.
LEMMA OnlyAppend ==
  ASSUME NEW T, NEW s \in Seq(T), NEW x \in T, NEW S
  PROVE  Only(Append(s, x), S) = IF x \in S THEN Append(Only(s, S), x) ELSE Only(s, S)
<1> DEFINE pick(y) == IF y \in S THEN <<y>> ELSE <<>>
           V == Seq(T)
           f == [n \in DOMAIN s |-> pick(s[n])]
           g == [n \in DOMAIN Append(s, x) |-> pick(Append(s, x)[n])]
<1>1. f \in Seq(V) /\ pick(x) \in V
  <2>1. f \in [1..Len(s) -> V] /\ pick(x) \in V
    OBVIOUS
  <2> HIDE DEF V, f
  <2> QED BY <2>1
<1>2. g = Append(f, pick(x))
  <2>1. f \in [1..Len(s) -> V] /\ Len(f) = Len(s)
    <3>1. f \in [1..Len(s) -> V]
      OBVIOUS
    <3> HIDE DEF V, f
    <3> QED BY <3>1
  <2>2. DOMAIN g = 1..(Len(s) + 1)
    OBVIOUS
  <2>3. \A n \in 1..Len(s) : g[n] = f[n]
    OBVIOUS
  <2>4. g[Len(s) + 1] = pick(x)
    OBVIOUS
  <2>5. g = [n \in 1..(Len(s) + 1) |-> g[n]]
    OBVIOUS
  <2> HIDE DEF g, f, V, pick
  <2>6. Append(f, pick(x)) = [n \in 1..(Len(s) + 1) |-> Append(f, pick(x))[n]]
    <3>1. Append(f, pick(x)) \in Seq(V) /\ Len(Append(f, pick(x))) = Len(s) + 1
      BY <1>1, <2>1
    <3>2. Append(f, pick(x)) \in [1..(Len(s) + 1) -> V]
      BY <3>1, LenProperties
    <3> QED BY <3>2
  <2>7. \A n \in 1..(Len(s) + 1) : g[n] = Append(f, pick(x))[n]
    BY <1>1, <2>1, <2>3, <2>4
  <2> QED BY <2>5, <2>6, <2>7
<1>3. FlattenSeq(Append(f, pick(x))) = FlattenSeq(f) \o pick(x) /\ FlattenSeq(f) \in V
  <2> HIDE DEF f, pick
  <2> QED BY <1>1, FlattenAppend
<1>4. Only(Append(s, x), S) = FlattenSeq(g) /\ Only(s, S) = FlattenSeq(f)
  BY DEF Only
<1>5. ASSUME NEW v \in V PROVE v \o pick(x) = IF x \in S THEN Append(v, x) ELSE v
  OBVIOUS
<1> HIDE DEF f, g, pick, V
<1> QED
  BY <1>2, <1>3, <1>4, <1>5

\* Selecting from two sequences, one after the other.
LEMMA OnlyConcat ==
  ASSUME NEW T, NEW s \in Seq(T), NEW t \in Seq(T), NEW S
  PROVE  Only(s \o t, S) = Only(s, S) \o Only(t, S)
<1> DEFINE P == {u \in Seq(T) : Only(s \o u, S) = Only(s, S) \o Only(u, S)}
<1>1. Only(s, S) \in Seq(T)
  BY OnlyType
<1>2. <<>> \in P
  BY <1>1, OnlyEmpty, ConcatEmptySeq
<1>3. ASSUME NEW u \in Seq(T), NEW x \in T, u \in P
      PROVE  Append(u, x) \in P
  <2>1. Append(u, x) \in Seq(T) /\ s \o u \in Seq(T) /\ s \o Append(u, x) = Append(s \o u, x)
    OBVIOUS
  <2>2. /\ Only(Append(u, x), S) = IF x \in S THEN Append(Only(u, S), x) ELSE Only(u, S)
        /\ Only(Append(s \o u, x), S) =
             IF x \in S THEN Append(Only(s \o u, S), x) ELSE Only(s \o u, S)
    BY <2>1, OnlyAppend
  <2>3. Only(u, S) \in Seq(T) /\ Only(s \o u, S) = Only(s, S) \o Only(u, S)
    BY <1>3, OnlyType
  <2>4. ASSUME NEW a \in Seq(T), NEW b \in Seq(T)
        PROVE  Append(a \o b, x) = a \o Append(b, x)
    <3>1. a \o b \in Seq(T) /\ <<x>> \in Seq(T)
      OBVIOUS
    <3>2. Append(a \o b, x) = (a \o b) \o <<x>> /\ Append(b, x) = b \o <<x>>
      BY <3>1, AppendIsConcat
    <3> QED BY <3>1, <3>2, ConcatAssociative
  <2>5. Append(Only(s, S) \o Only(u, S), x) = Only(s, S) \o Append(Only(u, S), x)
    BY <1>1, <2>3, <2>4
  <2> QED BY <2>1, <2>2, <2>3, <2>5
<1>4. Seq(T) \subseteq P
  <2> HIDE DEF P
  <2> QED BY <1>2, <1>3, SeqInduction
<1> QED
  BY <1>4

\* Selecting from one element.
LEMMA OnlyOne ==
  ASSUME NEW x, NEW S
  PROVE  Only(<<x>>, S) = IF x \in S THEN <<x>> ELSE <<>>
<1>1. <<>> \in Seq({x}) /\ <<x>> = Append(<<>>, x) /\ x \in {x}
  OBVIOUS
<1>2. Only(Append(<<>>, x), S) = IF x \in S THEN Append(<<>>, x) ELSE <<>>
  <2> DEFINE T == {x}
             e == <<>>
  <2>1. e \in Seq(T) /\ x \in T /\ Only(e, S) = e
    BY <1>1, OnlyEmpty
  <2> HIDE DEF T, e
  <2>2. Only(Append(e, x), S) = IF x \in S THEN Append(Only(e, S), x) ELSE Only(e, S)
    BY <2>1, OnlyAppend
  <2>3. Only(Append(e, x), S) = IF x \in S THEN Append(e, x) ELSE e
    BY <2>1, <2>2
  <2> QED BY <2>3 DEF e
<1> QED
  BY <1>1, <1>2

\* Nothing is added, and nothing of S is lost.
LEMMA OnlyElements ==
  ASSUME NEW T, NEW s \in Seq(T), NEW S
  PROVE  /\ \A n \in 1..Len(Only(s, S)) : Only(s, S)[n] \in S /\ \E m \in 1..Len(s) : s[m] = Only(s, S)[n]
         /\ \A m \in 1..Len(s) : s[m] \in S => \E n \in 1..Len(Only(s, S)) : s[m] = Only(s, S)[n]
         /\ Len(Only(s, S)) <= Len(s)
<1> DEFINE Sound(u) == \A n \in 1..Len(Only(u, S)) : Only(u, S)[n] \in S /\ \E m \in 1..Len(u) : u[m] = Only(u, S)[n]
           Complete(u) == \A m \in 1..Len(u) : u[m] \in S => \E n \in 1..Len(Only(u, S)) : u[m] = Only(u, S)[n]
           Short(u) == Len(Only(u, S)) <= Len(u)
           P == {u \in Seq(T) : Sound(u) /\ Complete(u) /\ Short(u)}
<1>1. <<>> \in P
  BY OnlyEmpty
<1>2. ASSUME NEW u \in Seq(T), NEW x \in T, u \in P
      PROVE  Append(u, x) \in P
  <2> DEFINE v == Append(u, x)
  <2>1. v \in Seq(T) /\ Len(v) = Len(u) + 1 /\ v[Len(u) + 1] = x /\ \A n \in 1..Len(u) : v[n] = u[n]
    OBVIOUS
  <2>2. Only(u, S) \in Seq(T)
    BY OnlyType
  <2>3. CASE x \notin S
    <3>1. Only(v, S) = Only(u, S)
      BY <2>3, OnlyAppend
    <3>2. Sound(v)
      <4> HIDE DEF v
      <4> QED BY <1>2, <2>1, <3>1
    <3>3. Complete(v)
      <4>1. \A m \in 1..Len(v) : m \in 1..Len(u) \/ m = Len(u) + 1
        BY <2>1
      <4> HIDE DEF v
      <4> QED BY <1>2, <2>1, <2>3, <3>1, <4>1
    <3>4. Short(v)
      <4> HIDE DEF v
      <4> QED BY <1>2, <2>1, <2>2, <3>1
    <3>5. v \in P
      <4> HIDE DEF v, Sound, Complete, Short
      <4> QED BY <2>1, <3>2, <3>3, <3>4
    <3> QED BY <3>5
  <2>4. CASE x \in S
    <3> DEFINE w == Only(v, S)
               o == Only(u, S)
    <3>1. w = Append(o, x)
      BY <2>4, OnlyAppend
    <3>2. /\ w \in Seq(T) /\ Len(w) = Len(o) + 1 /\ w[Len(o) + 1] = x
          /\ \A n \in 1..Len(o) : w[n] = o[n]
      BY <2>2, <3>1
    <3>3. Sound(v)
      <4>1. \A n \in 1..Len(w) : n \in 1..Len(o) \/ n = Len(o) + 1
        BY <2>2, <3>2
      <4>2. Len(u) + 1 \in 1..Len(v) /\ \A n \in 1..Len(u) : n \in 1..Len(v)
        BY <2>1
      <4> HIDE DEF v, w
      <4> QED BY <1>2, <2>1, <2>4, <3>2, <4>1, <4>2 DEF w
    <3>4. Complete(v)
      <4>1. \A m \in 1..Len(v) : m \in 1..Len(u) \/ m = Len(u) + 1
        BY <2>1
      <4>2. Len(o) + 1 \in 1..Len(w) /\ \A n \in 1..Len(o) : n \in 1..Len(w)
        BY <2>2, <3>2
      <4> HIDE DEF v, w
      <4> QED BY <1>2, <2>1, <2>4, <3>2, <4>1, <4>2 DEF w
    <3>5. Short(v)
      <4> HIDE DEF v
      <4> QED BY <1>2, <2>1, <2>2, <3>2
    <3>6. v \in P
      <4> HIDE DEF v, Sound, Complete, Short
      <4> QED BY <2>1, <3>3, <3>4, <3>5
    <3> QED BY <3>6
  <2> QED BY <2>3, <2>4
<1>3. Seq(T) \subseteq P
  <2> HIDE DEF P
  <2> QED BY <1>1, <1>2, SeqInduction
<1> QED
  BY <1>3

-------------------------------------------------------------------------------
\* A function applied to each element of a list.
LEMMA MapAppend ==
  ASSUME NEW T, NEW U, NEW h \in [T -> U], NEW s \in Seq(T), NEW x \in T
  PROVE  /\ [n \in DOMAIN s |-> h[s[n]]] \in Seq(U)
         /\ [n \in DOMAIN Append(s, x) |-> h[Append(s, x)[n]]] =
              Append([n \in DOMAIN s |-> h[s[n]]], h[x])
<1> DEFINE f == [n \in DOMAIN s |-> h[s[n]]]
           t == Append(s, x)
           g == [n \in DOMAIN t |-> h[t[n]]]
<1>1. f \in Seq(U) /\ Len(f) = Len(s) /\ Len(s) \in Nat /\ h[x] \in U
  <2>1. f \in [1..Len(s) -> U] /\ Len(s) \in Nat
    OBVIOUS
  <2> HIDE DEF f
  <2> QED BY <2>1
<1>2. \A n \in 1..Len(s) : f[n] = h[s[n]]
  OBVIOUS
<1>3. /\ t \in Seq(T) /\ Len(t) = Len(s) + 1 /\ t[Len(s) + 1] = x
      /\ \A n \in 1..Len(s) : t[n] = s[n]
  OBVIOUS
<1>4. /\ g \in [1..(Len(s) + 1) -> U] /\ g[Len(s) + 1] = h[x]
      /\ \A n \in 1..Len(s) : g[n] = h[s[n]]
  <2>1. DOMAIN t = 1..(Len(s) + 1) /\ \A n \in DOMAIN t : t[n] \in T
    BY <1>3
  <2> HIDE DEF t
  <2> QED BY <1>1, <1>3, <2>1
<1> HIDE DEF f, g, t
<1>5. g \in Seq(U) /\ Len(g) = Len(s) + 1
  BY <1>1, <1>4
<1>6. Append(f, h[x]) \in Seq(U) /\ Len(Append(f, h[x])) = Len(s) + 1
  BY <1>1
<1>7. \A n \in 1..(Len(s) + 1) : g[n] = Append(f, h[x])[n]
  <2>1. Append(f, h[x])[Len(s) + 1] = h[x] /\ \A n \in 1..Len(s) : Append(f, h[x])[n] = f[n]
    BY <1>1
  <2>2. \A n \in 1..(Len(s) + 1) : n \in 1..Len(s) \/ n = Len(s) + 1
    BY <1>1
  <2> QED BY <1>2, <1>4, <2>1, <2>2
<1>8. g = Append(f, h[x])
  BY <1>5, <1>6, <1>7, SeqEqual
<1> QED BY <1>1, <1>8 DEF f, g, t

\* No step.
LEMMA FoldedEmpty == ASSUME NEW base PROVE Folded(base, <<>>) = base
<1> DEFINE V == {base}
           steps == <<>>
<1>1. base \in V /\ Steps(steps, 0, V)
  BY DEF Steps
<1> HIDE DEF V, steps
<1>2. PICK f : Leads(f, V, base, 0, steps) /\ Folded(base, steps) = f[0]
  BY <1>1, FoldedDef
<1> QED BY <1>2 DEF Leads, steps

\* One more step.
LEMMA FoldedAppend ==
  ASSUME NEW V, NEW base \in V, NEW steps \in Seq([V -> V]), NEW step \in [V -> V]
  PROVE  /\ Folded(base, steps) \in V
         /\ Folded(base, Append(steps, step)) = step[Folded(base, steps)]
<1> DEFINE W == [V -> V]
           more == Append(steps, step)
           N == Len(steps)
<1>1. /\ more \in Seq(W) /\ Len(more) = N + 1 /\ more[N + 1] = step /\ N \in Nat
      /\ \A n \in 1..N : more[n] = steps[n]
  <2>1. steps \in Seq(W) /\ step \in W
    OBVIOUS
  <2> HIDE DEF W
  <2> QED BY <2>1
<1>2. Steps(steps, N, V) /\ Steps(more, N + 1, V)
  <2>1. steps \in [1..N -> W] /\ more \in [1..(N + 1) -> W]
    <3>1. steps \in Seq(W)
      OBVIOUS
    <3> HIDE DEF W, more
    <3> QED BY <1>1, <3>1, LenProperties
  <2> HIDE DEF more, N
  <2> QED BY <1>1, <2>1 DEF Steps
<1>3. PICK f : Leads(f, V, base, N, steps) /\ Folded(base, steps) = f[N]
  <2> HIDE DEF N
  <2> QED BY <1>2, FoldedDef
<1>4. PICK g : Leads(g, V, base, N + 1, more) /\ Folded(base, more) = g[N + 1]
  <2> HIDE DEF N, more
  <2> QED BY <1>2, FoldedDef
<1> HIDE DEF N, more, W
<1> DEFINE S == {n \in Nat : n <= N => f[n] = g[n]}
<1>5. 0 \in S
  BY <1>3, <1>4 DEF Leads
<1>6. ASSUME NEW n \in Nat, n \in S PROVE n + 1 \in S
  <2>1. SUFFICES ASSUME n + 1 <= N PROVE f[n + 1] = g[n + 1]
    OBVIOUS
  <2>2. n + 1 \in 1..N /\ n + 1 \in 1..(N + 1) /\ (n + 1) - 1 = n /\ f[n] = g[n]
    BY <1>1, <1>6, <2>1
  <2>3. f[n + 1] = steps[n + 1][f[n]]
    BY <1>3, <2>2 DEF Leads
  <2>4. g[n + 1] = more[n + 1][g[n]]
    BY <1>4, <2>2 DEF Leads
  <2> QED BY <1>1, <2>2, <2>3, <2>4
<1>7. Nat \subseteq S
  <2> HIDE DEF S
  <2> QED BY <1>5, <1>6, Induction
<1>8. f[N] = g[N] /\ f[N] \in V
  BY <1>1, <1>3, <1>7 DEF Leads
<1>9. g[N + 1] = more[N + 1][g[N]]
  <2>1. N + 1 \in 1..(N + 1) /\ (N + 1) - 1 = N
    BY <1>1
  <2> QED BY <1>4, <2>1 DEF Leads
<1> QED BY <1>1, <1>3, <1>4, <1>8, <1>9 DEF more

-------------------------------------------------------------------------------
\* p says where in s each element of t stands: t is s without some of its elements.
Places(p, t, s) ==
    /\ p \in [1..Len(t) -> 1..Len(s)]
    /\ \A n \in 1..Len(t) : t[n] = s[p[n]]
    /\ \A m \in 1..Len(t), n \in 1..Len(t) : m < n => p[m] < p[n]

\* A subsequence grows by an element behind its last place.
LEMMA PlacesExtend ==
  ASSUME NEW T, NEW s \in Seq(T), NEW t \in Seq(T), NEW p, Places(p, t, s),
         NEW k \in 1..Len(s), \A n \in 1..Len(t) : p[n] < k
  PROVE  \E q : /\ Places(q, Append(t, s[k]), s)
               /\ q[Len(t) + 1] = k
               /\ \A n \in 1..Len(t) : q[n] = p[n]
<1> DEFINE v == Append(t, s[k])
           N == Len(s)
           M == Len(t)
           q == [n \in 1..(M + 1) |-> IF n <= M THEN p[n] ELSE k]
<1>1. /\ M \in Nat /\ Len(v) = M + 1 /\ v[M + 1] = s[k] /\ \A n \in 1..M : v[n] = t[n]
  OBVIOUS
<1>2. N \in Nat
  OBVIOUS
<1>3. /\ p \in [1..M -> 1..N] /\ \A n \in 1..M : t[n] = s[p[n]]
      /\ \A m \in 1..M, n \in 1..M : m < n => p[m] < p[n]
  BY DEF Places
<1>4. q = [n \in 1..(M + 1) |-> IF n <= M THEN p[n] ELSE k]
  OBVIOUS
<1>5. k \in 1..N /\ \A n \in 1..M : p[n] < k
  OBVIOUS
<1> HIDE DEF v, q, M, N
<1>6. q \in [1..(M + 1) -> 1..N]
  BY <1>1, <1>2, <1>3, <1>4, <1>5
<1>7. q[M + 1] = k /\ \A n \in 1..M : q[n] = p[n]
  BY <1>1, <1>4
<1>8. \A n \in 1..(M + 1) : n \in 1..M \/ n = M + 1
  BY <1>1
<1>9. \A n \in 1..(M + 1) : v[n] = s[q[n]]
  BY <1>1, <1>3, <1>7, <1>8
<1>10. ASSUME NEW m \in 1..(M + 1), NEW n \in 1..(M + 1), m < n PROVE q[m] < q[n]
  <2>1. m \in 1..M
    BY <1>1, <1>10
  <2>2. q[m] = p[m]
    BY <1>7, <2>1
  <2>3. CASE n \in 1..M
    BY <1>3, <1>7, <1>10, <2>1, <2>2, <2>3
  <2>4. CASE n = M + 1
    BY <1>5, <1>7, <2>1, <2>2, <2>4
  <2> QED BY <1>8, <2>3, <2>4
<1>11. Places(q, v, s)
  BY <1>1, <1>6, <1>9, <1>10 DEF Places, N
<1> QED
  BY <1>7, <1>11 DEF v, M

\* A subsequence stays one when the sequence grows.
LEMMA PlacesWider ==
  ASSUME NEW T, NEW s \in Seq(T), NEW t, NEW p, Places(p, t, s), NEW x
  PROVE  Places(p, t, Append(s, x))
<1>1. /\ p \in [1..Len(t) -> 1..Len(s)]
      /\ \A n \in 1..Len(t) : t[n] = s[p[n]]
      /\ \A m \in 1..Len(t), n \in 1..Len(t) : m < n => p[m] < p[n]
  BY DEF Places
<1> DEFINE v == Append(s, x)
<1>2. Len(v) = Len(s) + 1 /\ Len(s) \in Nat /\ \A n \in 1..Len(s) : v[n] = s[n]
  OBVIOUS
<1> HIDE DEF v
<1>3. 1..Len(s) \subseteq 1..Len(v)
  BY <1>2
<1>4. p \in [1..Len(t) -> 1..Len(v)]
  BY <1>1, <1>3
<1>5. \A n \in 1..Len(t) : t[n] = v[p[n]]
  BY <1>1, <1>2
<1> QED BY <1>1, <1>4, <1>5 DEF Places, v

\* What is only of S stands in the list in its order.
LEMMA OnlyPlaces ==
  ASSUME NEW T, NEW s \in Seq(T), NEW S
  PROVE  \E p : Places(p, Only(s, S), s)
<1> DEFINE A == {u \in Seq(T) : \E p : Places(p, Only(u, S), u)}
<1>1. <<>> \in A
  <2> DEFINE e == <<>>
  <2>1. Only(e, S) = e /\ e \in Seq(T)
    BY OnlyEmpty
  <2>2. Places(e, e, e)
    BY DEF Places
  <2> QED BY <2>1, <2>2
<1>2. ASSUME NEW u \in Seq(T), NEW x \in T, u \in A PROVE Append(u, x) \in A
  <2> DEFINE v == Append(u, x)
             o == Only(u, S)
  <2>1. v \in Seq(T) /\ Len(v) = Len(u) + 1 /\ v[Len(u) + 1] = x /\ Len(u) \in Nat
    OBVIOUS
  <2>2. o \in Seq(T)
    BY OnlyType
  <2>3. Only(v, S) = IF x \in S THEN Append(o, x) ELSE o
    BY OnlyAppend
  <2>4. PICK p : Places(p, o, u)
    BY <1>2
  <2>5. Places(p, o, v)
    BY <2>4, PlacesWider
  <2> HIDE DEF o, v
  <2>6. \E q : Places(q, Append(o, v[Len(u) + 1]), v)
    <3>1. Len(u) + 1 \in 1..Len(v)
      BY <2>1
    <3>2. \A n \in 1..Len(o) : p[n] < Len(u) + 1
      BY <2>1, <2>4 DEF Places
    <3>3. \E q : /\ Places(q, Append(o, v[Len(u) + 1]), v)
                 /\ q[Len(o) + 1] = Len(u) + 1
                 /\ \A n \in 1..Len(o) : q[n] = p[n]
      BY <2>1, <2>2, <2>5, <3>1, <3>2, PlacesExtend
    <3> QED BY <3>3
  <2>7. \E q : Places(q, Only(v, S), v)
    BY <2>1, <2>3, <2>5, <2>6
  <2>8. v \in A
    BY <2>1, <2>7
  <2> QED BY <2>8 DEF v
<1>3. Seq(T) \subseteq A
  <2> HIDE DEF A
  <2> QED BY <1>1, <1>2, SeqInduction
<1> QED
  BY <1>3

\* A subsequence of a subsequence.
LEMMA PlacesCompose ==
  ASSUME NEW T, NEW s \in Seq(T), NEW t \in Seq(T), NEW u \in Seq(T),
         NEW p, NEW q, Places(p, t, s), Places(q, u, t)
  PROVE  Places([n \in 1..Len(u) |-> p[q[n]]], u, s)
<1> DEFINE N == Len(s)
           M == Len(t)
           K == Len(u)
           r == [n \in 1..K |-> p[q[n]]]
<1>1. N \in Nat /\ M \in Nat /\ K \in Nat
  OBVIOUS
<1>2. /\ p \in [1..M -> 1..N] /\ \A n \in 1..M : t[n] = s[p[n]]
      /\ \A m \in 1..M, n \in 1..M : m < n => p[m] < p[n]
  BY DEF Places
<1>3. /\ q \in [1..K -> 1..M] /\ \A n \in 1..K : u[n] = t[q[n]]
      /\ \A m \in 1..K, n \in 1..K : m < n => q[m] < q[n]
  BY DEF Places
<1>4. /\ r \in [1..K -> 1..N] /\ \A n \in 1..K : u[n] = s[r[n]]
      /\ \A m \in 1..K, n \in 1..K : m < n => r[m] < r[n]
  <2> HIDE DEF N, M, K
  <2> QED BY <1>1, <1>2, <1>3
<1> QED
  BY <1>4 DEF Places

-------------------------------------------------------------------------------
\* Lists put together.

\* The elements of two sequences, one after the other.
LEMMA ToSetConcat ==
  ASSUME NEW T, NEW s \in Seq(T), NEW t \in Seq(T)
  PROVE  ToSet(s \o t) = ToSet(s) \cup ToSet(t)
<1> DEFINE u == s \o t
           N == Len(s)
           M == Len(t)
<1>1. N \in Nat /\ M \in Nat /\ DOMAIN s = 1..N /\ DOMAIN t = 1..M
  OBVIOUS
<1>2. /\ DOMAIN u = 1..(N + M)
      /\ \A n \in 1..(N + M) : u[n] = IF n <= N THEN s[n] ELSE t[n - N]
  BY ConcatProperties
<1> HIDE DEF u, N, M
<1>3. \A n \in 1..N : n \in 1..(N + M) /\ u[n] = s[n]
  BY <1>1, <1>2
<1>4. \A n \in 1..M : N + n \in 1..(N + M) /\ u[N + n] = t[n]
  BY <1>1, <1>2
<1>5. ASSUME NEW n \in 1..(N + M)
      PROVE  n \in 1..N \/ (~(n <= N) /\ n - N \in 1..M)
  BY <1>1
<1>6. ToSet(u) \subseteq ToSet(s) \cup ToSet(t)
  <2>1. SUFFICES ASSUME NEW n \in 1..(N + M) PROVE u[n] \in ToSet(s) \cup ToSet(t)
    BY <1>2 DEF ToSet
  <2>2. CASE n \in 1..N
    BY <1>1, <1>3, <2>2 DEF ToSet
  <2>3. CASE ~(n <= N) /\ n - N \in 1..M
    <3>1. u[n] = t[n - N]
      BY <1>2, <2>3
    <3> QED BY <1>1, <2>3, <3>1 DEF ToSet
  <2> QED BY <1>5, <2>2, <2>3
<1>7. ToSet(s) \cup ToSet(t) \subseteq ToSet(u)
  <2>1. \A n \in 1..N : s[n] \in ToSet(u)
    BY <1>2, <1>3 DEF ToSet
  <2>2. \A n \in 1..M : t[n] \in ToSet(u)
    BY <1>2, <1>4 DEF ToSet
  <2> QED BY <1>1, <2>1, <2>2 DEF ToSet
<1> QED BY <1>6, <1>7 DEF u

\* The elements of one element.
LEMMA ToSetOne == ASSUME NEW x PROVE ToSet(<<x>>) = {x}
  BY DEF ToSet

\* The elements of a pair.
LEMMA ToSetTwo == ASSUME NEW x, NEW y PROVE ToSet(<<x, y>>) = {x, y}
  BY DEF ToSet

\* Nothing has no elements.
LEMMA ToSetEmpty == ToSet(<<>>) = {}
  BY DEF ToSet

\* Elements have the type of the sequence, and only nothing has none.
LEMMA ToSetType ==
  ASSUME NEW T, NEW s \in Seq(T)
  PROVE  ToSet(s) \subseteq T /\ (ToSet(s) = {} => s = <<>>)
<1>1. \A n \in 1..Len(s) : s[n] \in T
  OBVIOUS
<1>2. DOMAIN s = 1..Len(s) /\ Len(s) \in Nat
  OBVIOUS
<1>3. ToSet(s) \subseteq T
  BY <1>1, <1>2 DEF ToSet
<1>4. s # <<>> => s[1] \in ToSet(s)
  <2>1. s # <<>> => 1 \in 1..Len(s)
    OBVIOUS
  <2> QED BY <1>2, <2>1 DEF ToSet
<1> QED BY <1>3, <1>4

\* Selecting everything.
LEMMA OnlyAll ==
  ASSUME NEW T, NEW s \in Seq(T), NEW S, ToSet(s) \subseteq S
  PROVE  Only(s, S) = s
<1> DEFINE P == {u \in Seq(T) : Only(u, T) = u}
<1>1. <<>> \in P
  BY OnlyEmpty
<1>2. ASSUME NEW u \in Seq(T), NEW x \in T, u \in P PROVE Append(u, x) \in P
  <2>1. Only(Append(u, x), T) = Append(Only(u, T), x)
    BY OnlyAppend
  <2> QED BY <1>2, <2>1
<1>3. Seq(T) \subseteq P
  <2> HIDE DEF P
  <2> QED BY <1>1, <1>2, SeqInduction
<1>4. Only(s, T) = s
  BY <1>3
<1>5. \A n \in DOMAIN s : s[n] \in T /\ s[n] \in S
  <2>1. \A n \in DOMAIN s : s[n] \in ToSet(s)
    BY DEF ToSet
  <2> QED BY <2>1
<1>6. Only(s, T) = Only(s, S)
  BY <1>5, OnlySame
<1> QED BY <1>4, <1>6

\* Selecting nothing.
LEMMA OnlyNone ==
  ASSUME NEW T, NEW s \in Seq(T), NEW S, ToSet(s) \cap S = {}
  PROVE  Only(s, S) = <<>>
<1> DEFINE P == {u \in Seq(T) : Only(u, {}) = <<>>}
<1>1. <<>> \in P
  BY OnlyEmpty
<1>2. ASSUME NEW u \in Seq(T), NEW x \in T, u \in P PROVE Append(u, x) \in P
  <2>1. Only(Append(u, x), {}) = Only(u, {})
    BY OnlyAppend
  <2> QED BY <1>2, <2>1
<1>3. Seq(T) \subseteq P
  <2> HIDE DEF P
  <2> QED BY <1>1, <1>2, SeqInduction
<1>4. Only(s, {}) = <<>>
  BY <1>3
<1>5. \A n \in DOMAIN s : s[n] \notin S
  <2>1. \A n \in DOMAIN s : s[n] \in ToSet(s)
    BY DEF ToSet
  <2> QED BY <2>1
<1>6. Only(s, {}) = Only(s, S)
  BY <1>5, OnlySame
<1> QED BY <1>4, <1>6

\* A function applied to each element.
Mapped(h, s) == [n \in DOMAIN s |-> h[s[n]]]

\* A function applied to each element: types.
LEMMA MapType ==
  ASSUME NEW T, NEW U, NEW h \in [T -> U], NEW s \in Seq(T)
  PROVE  Mapped(h, s) \in Seq(U)
<1> DEFINE N == Len(s)
           f == Mapped(h, s)
<1>1. N \in Nat /\ DOMAIN s = 1..N /\ \A n \in 1..N : s[n] \in T
  OBVIOUS
<1> HIDE DEF N
<1>2. f \in [1..N -> U]
  BY <1>1 DEF Mapped
<1> HIDE DEF f
<1> QED BY <1>1, <1>2 DEF f, N

\* The function keeps the length.
LEMMA MapLen ==
  ASSUME NEW T, NEW h, NEW s \in Seq(T)
  PROVE  Len(Mapped(h, s)) = Len(s) /\ DOMAIN Mapped(h, s) = DOMAIN s
<1>1. Len(s) \in Nat /\ DOMAIN s = 1..Len(s)
  OBVIOUS
<1>2. DOMAIN Mapped(h, s) = 1..Len(s)
  BY <1>1 DEF Mapped
<1> QED BY <1>1, <1>2

\* The function on two sequences, one after the other.
LEMMA MapConcat ==
  ASSUME NEW T, NEW h, NEW s \in Seq(T), NEW t \in Seq(T)
  PROVE  Mapped(h, s \o t) = Mapped(h, s) \o Mapped(h, t)
<1> DEFINE U == {h[x] : x \in T}
           u == s \o t
           N == Len(s)
           M == Len(t)
           f == Mapped(h, s)
           g == Mapped(h, t)
           e == Mapped(h, u)
<1>1. N \in Nat /\ M \in Nat /\ DOMAIN s = 1..N /\ DOMAIN t = 1..M
  OBVIOUS
<1>2. (\A n \in 1..N : s[n] \in T) /\ \A n \in 1..M : t[n] \in T
  OBVIOUS
<1>3. /\ DOMAIN u = 1..(N + M) /\ u \in Seq(T)
      /\ \A n \in 1..(N + M) : u[n] = IF n <= N THEN s[n] ELSE t[n - N]
  BY ConcatProperties
<1>4. \A n \in 1..(N + M) : u[n] \in T
  <2>1. \A n \in 1..Len(u) : u[n] \in T
    <3>1. u \in Seq(T)
      OBVIOUS
    <3> HIDE DEF u
    <3> QED BY <3>1
  <2>2. Len(u) = N + M
    OBVIOUS
  <2> HIDE DEF u, N, M
  <2> QED BY <2>1, <2>2
<1>0. \A x \in T : h[x] \in U
  OBVIOUS
<1> HIDE DEF u, N, M, U
<1>5. f \in [1..N -> U] /\ g \in [1..M -> U] /\ e \in [1..(N + M) -> U]
  BY <1>0, <1>1, <1>2, <1>3, <1>4 DEF Mapped
<1>6. (\A n \in 1..N : f[n] = h[s[n]]) /\ \A n \in 1..M : g[n] = h[t[n]]
  BY <1>1 DEF Mapped
<1>7. \A n \in 1..(N + M) : e[n] = h[u[n]]
  BY <1>3 DEF Mapped
<1> HIDE DEF f, g, e
<1>8. f \in Seq(U) /\ g \in Seq(U) /\ e \in Seq(U) /\ Len(f) = N /\ Len(g) = M /\ Len(e) = N + M
  BY <1>1, <1>5
<1>9. f \o g \in Seq(U) /\ Len(f \o g) = N + M
  BY <1>8, ConcatProperties
<1>10. \A n \in 1..(N + M) : (f \o g)[n] = IF n <= N THEN f[n] ELSE g[n - N]
  BY <1>8, ConcatProperties
<1>11. ASSUME NEW n \in 1..(N + M) PROVE e[n] = (f \o g)[n]
  <2>0. n \in Int /\ (n \in 1..N \/ (~(n <= N) /\ n - N \in 1..M))
    BY <1>1
  <2>1. CASE n \in 1..N
    <3>1. n <= N
      BY <1>1, <2>1
    <3>2. (f \o g)[n] = f[n]
      BY <1>10, <3>1
    <3>3. u[n] = s[n]
      BY <1>3, <3>1
    <3>4. f[n] = h[s[n]] /\ e[n] = h[u[n]]
      BY <1>6, <1>7, <2>1
    <3> QED BY <3>2, <3>3, <3>4
  <2>2. CASE ~(n <= N) /\ n - N \in 1..M
    <3>2. (f \o g)[n] = g[n - N]
      BY <1>10, <2>2
    <3>3. u[n] = t[n - N]
      BY <1>3, <2>2
    <3>4. g[n - N] = h[t[n - N]] /\ e[n] = h[u[n]]
      BY <1>6, <1>7, <2>2
    <3> QED BY <3>2, <3>3, <3>4
  <2> QED BY <2>0, <2>1, <2>2
<1>12. e = f \o g
  BY <1>8, <1>9, <1>11, SeqEqual
<1> QED BY <1>12 DEF f, g, e, u

\* The function on nothing.
LEMMA MapEmpty == ASSUME NEW h PROVE Mapped(h, <<>>) = <<>>
  BY DEF Mapped

\* The function on one element.
LEMMA MapOne == ASSUME NEW h, NEW x PROVE Mapped(h, <<x>>) = <<h[x]>>
<1>1. DOMAIN <<x>> = {1} /\ <<x>>[1] = x
  OBVIOUS
<1>2. Mapped(h, <<x>>) = [n \in {1} |-> h[x]]
  BY <1>1 DEF Mapped
<1>3. <<h[x]>> = [n \in {1} |-> h[x]]
  OBVIOUS
<1> QED BY <1>2, <1>3

\* A list around one of its elements.
LEMMA AroundOne ==
  ASSUME NEW T, NEW s \in Seq(T), NEW k \in 1..Len(s)
  PROVE  /\ SubSeq(s, 1, k - 1) \in Seq(T) /\ SubSeq(s, k + 1, Len(s)) \in Seq(T)
         /\ Len(SubSeq(s, 1, k - 1)) = k - 1
         /\ s = (SubSeq(s, 1, k - 1) \o <<s[k]>>) \o SubSeq(s, k + 1, Len(s))
<1> DEFINE N == Len(s)
<1>1. N \in Nat /\ k \in 1..N
  OBVIOUS
<1>2. SubSeq(s, 1, k - 1) \in Seq(T) /\ Len(SubSeq(s, 1, k - 1)) = k - 1
  OBVIOUS
<1>3. SubSeq(s, k + 1, N) \in Seq(T)
  OBVIOUS
<1>4. SubSeq(s, 1, k) = SubSeq(s, 1, k - 1) \o <<s[k]>>
  <2>1. 1 \in 1..Len(s) /\ k \in 1..Len(s)
    BY <1>1
  <2> QED BY <2>1, SubSeqRecursiveSecond
<1>5. SubSeq(s, 1, k) \o SubSeq(s, k + 1, N) = SubSeq(s, 1, N)
  <2>1. 1 \in 1..(Len(s) + 1) /\ k \in (1 - 1)..Len(s) /\ N \in k..Len(s)
    BY <1>1
  <2> QED BY <2>1, ConcatAdjacentSubSeq
<1>6. SubSeq(s, 1, N) = s
  BY SubSeqFull
<1> QED BY <1>2, <1>3, <1>4, <1>5, <1>6

\* A pair is two sequences of one.
LEMMA PairConcat == ASSUME NEW x, NEW y PROVE <<x>> \o <<y>> = <<x, y>>
<1>1. <<x>> \o <<y>> \in Seq({x, y}) /\ Len(<<x>> \o <<y>>) = 2
  OBVIOUS
<1>2. (<<x>> \o <<y>>)[1] = x /\ (<<x>> \o <<y>>)[2] = y
  OBVIOUS
<1>3. <<x, y>> \in Seq({x, y}) /\ Len(<<x, y>>) = 2 /\ <<x, y>>[1] = x /\ <<x, y>>[2] = y
  OBVIOUS
<1> DEFINE u == <<x>> \o <<y>>
           v == <<x, y>>
           V == {x, y}
<1>4. u \in Seq(V) /\ v \in Seq(V) /\ Len(u) = 2 /\ Len(v) = 2 /\ u[1] = v[1] /\ u[2] = v[2]
  BY <1>1, <1>2, <1>3
<1> HIDE DEF u, v, V
<1>5. \A i \in 1..Len(u) : u[i] = v[i]
  BY <1>4
<1>6. u = v
  BY <1>4, <1>5, SeqEqual
<1> QED BY <1>6 DEF u, v

\* A list around two neighbours.
LEMMA AroundTwo ==
  ASSUME NEW T, NEW s \in Seq(T), NEW k \in 1..Len(s), k < Len(s)
  PROVE  \E a \in Seq(T), c \in Seq(T) :
            s = (a \o <<s[k], s[k + 1]>>) \o c /\ Len(a) = k - 1
<1> DEFINE a == SubSeq(s, 1, k - 1)
           b == SubSeq(s, k + 1, Len(s))
           c == SubSeq(s, k + 2, Len(s))
           x == s[k]
           y == s[k + 1]
<1>1. /\ a \in Seq(T) /\ Len(a) = k - 1
      /\ s = (a \o <<s[k]>>) \o b
  BY AroundOne
<1>2. k + 1 \in 1..Len(s) /\ x \in T /\ y \in T
  OBVIOUS
<1>3. b = <<y>> \o c /\ c \in Seq(T)
  <2>1. Len(s) \in (k + 1)..Len(s)
    BY <1>2
  <2>2. SubSeq(s, k + 1, Len(s)) = <<s[k + 1]>> \o SubSeq(s, (k + 1) + 1, Len(s))
    BY <1>2, <2>1, SubSeqRecursiveFirst
  <2>3. (k + 1) + 1 = k + 2
    OBVIOUS
  <2>4. c \in Seq(T)
    OBVIOUS
  <2> QED BY <2>2, <2>3, <2>4
<1> HIDE DEF a, b, c, x, y
<1>4. s = (a \o <<x>>) \o (<<y>> \o c)
  BY <1>1, <1>3 DEF x
<1>5. <<x>> \in Seq(T) /\ <<y>> \in Seq(T) /\ <<x>> \o <<y>> = <<x, y>>
  BY <1>2, PairConcat DEF x, y
<1>6. a \o <<x>> \in Seq(T)
  BY <1>1, <1>5, ConcatProperties
<1>7. (a \o <<x>>) \o (<<y>> \o c) = ((a \o <<x>>) \o <<y>>) \o c
  <2> DEFINE ax == a \o <<x>>
             sy == <<y>>
  <2>1. ax \in Seq(T) /\ sy \in Seq(T) /\ c \in Seq(T)
    BY <1>3, <1>5, <1>6
  <2> HIDE DEF ax, sy
  <2>2. (ax \o sy) \o c = ax \o (sy \o c)
    BY <2>1, ConcatAssociative
  <2> QED BY <2>2 DEF ax, sy
<1>8. (a \o <<x>>) \o <<y>> = a \o (<<x>> \o <<y>>)
  BY <1>1, <1>5, ConcatAssociative
<1> QED BY <1>1, <1>3, <1>4, <1>5, <1>7, <1>8 DEF x, y

\* Types of two sequences, one after the other.
LEMMA ConcatType == ASSUME NEW T, NEW s \in Seq(T), NEW t \in Seq(T) PROVE s \o t \in Seq(T)
  BY ConcatProperties

\* The indices of two lists put together.
LEMMA ConcatIndex ==
  ASSUME NEW T, NEW s \in Seq(T), NEW t \in Seq(T)
  PROVE  /\ s \o t \in Seq(T) /\ Len(s) \in Nat /\ Len(t) \in Nat
         /\ Len(s \o t) = Len(s) + Len(t)
         /\ \A n \in 1..Len(s) : n \in 1..Len(s \o t) /\ (s \o t)[n] = s[n]
         /\ \A n \in 1..Len(t) : Len(s) + n \in 1..Len(s \o t) /\ (s \o t)[Len(s) + n] = t[n]
         /\ \A n \in 1..Len(s \o t) : n \in 1..Len(s) \/ \E m \in 1..Len(t) : n = Len(s) + m
<1> DEFINE u == s \o t
           N == Len(s)
           M == Len(t)
<1>1. N \in Nat /\ M \in Nat /\ u \in Seq(T) /\ Len(u) = N + M
  BY ConcatProperties
<1>2. \A n \in 1..(N + M) : u[n] = IF n <= N THEN s[n] ELSE t[n - N]
  BY ConcatProperties
<1> HIDE DEF u, N, M
<1>3. \A n \in 1..N : n \in 1..(N + M) /\ u[n] = s[n]
  BY <1>1, <1>2
<1>4. \A n \in 1..M : N + n \in 1..(N + M) /\ u[N + n] = t[n]
  BY <1>1, <1>2
<1>5. ASSUME NEW n \in 1..(N + M), n \notin 1..N PROVE \E m \in 1..M : n = N + m
  <2>1. n - N \in 1..M /\ n = N + (n - N)
    BY <1>1, <1>5
  <2> QED BY <2>1
<1> QED BY <1>1, <1>3, <1>4, <1>5 DEF u, N, M

\* A list with growing keys: what is below a key, what has it, what is above.
\* A list s with q in it, after a and before c.
Glued(s, a, q, c) == s = (a \o q) \o c
\* A list s that is a, then b.
Joined(s, a, b) == s = a \o b

\* The elements of T whose key is below p, p, or above it.
Banded(T, key, p, Below, Equal, Above) ==
    /\ key \in [T -> Int] /\ p \in Int
    /\ \A x \in T : /\ x \in Below <=> key[x] < p
                    /\ x \in Equal <=> key[x] = p
                    /\ x \in Above <=> key[x] > p
\* The elements of s are in the order of their keys.
Growing(key, s) == \A i \in 1..Len(s), j \in 1..Len(s) : i < j => key[s[i]] <= key[s[j]]

\* A sequence in the order of a key is what lies below a value, at it and above it.
LEMMA OnlyBands ==
  ASSUME NEW T, NEW key, NEW p, NEW s \in Seq(T), NEW Below, NEW Equal, NEW Above,
         Banded(T, key, p, Below, Equal, Above), Growing(key, s)
  PROVE  Glued(s, Only(s, Below), Only(s, Equal), Only(s, Above))
<1> USE DEF Banded
<1> DEFINE Grows(u) == \A i \in 1..Len(u), j \in 1..Len(u) : i < j => key[u[i]] <= key[u[j]]
           Bands(u) == u = (Only(u, Below) \o Only(u, Equal)) \o Only(u, Above)
           P == {u \in Seq(T) : Grows(u) => Bands(u)}
<1>0. \A x \in T : key[x] \in Int
  OBVIOUS
<1>1. <<>> \in P
  <2>1. Bands(<<>>)
    <3>1. Only(<<>>, Below) = <<>> /\ Only(<<>>, Equal) = <<>> /\ Only(<<>>, Above) = <<>>
      BY OnlyEmpty
    <3> QED BY <3>1
  <2>2. <<>> \in Seq(T)
    OBVIOUS
  <2> HIDE DEF Bands, Grows
  <2> QED BY <2>1, <2>2
<1>2. ASSUME NEW u \in Seq(T), NEW x \in T, u \in P PROVE Append(u, x) \in P
  <2> DEFINE v == Append(u, x)
             N == Len(u)
  <2>1. /\ v \in Seq(T) /\ Len(v) = N + 1 /\ v[N + 1] = x /\ N \in Nat
        /\ \A n \in 1..N : v[n] = u[n]
    OBVIOUS
  <2>2. \A n \in 1..N : u[n] \in T
    OBVIOUS
  <2>3. SUFFICES ASSUME Grows(v) PROVE Bands(v)
    <3>1. Append(u, x) \in Seq(T)
      OBVIOUS
    <3> HIDE DEF Grows, Bands
    <3> QED BY <3>1
  <2> HIDE DEF v
  <2>4. Grows(u)
    <3>1. \A i \in 1..N, j \in 1..N : i < j =>
            i \in 1..Len(v) /\ j \in 1..Len(v) /\ v[i] = u[i] /\ v[j] = u[j]
      BY <2>1
    <3> QED BY <2>3, <3>1
  <2>5. \A n \in 1..N : key[u[n]] <= key[x]
    <3>1. \A n \in 1..N : n \in 1..Len(v) /\ N + 1 \in 1..Len(v) /\ n < N + 1
      BY <2>1
    <3> QED BY <2>1, <2>3, <3>1
  <2>6. u = (Only(u, Below) \o Only(u, Equal)) \o Only(u, Above)
    <3> HIDE DEF Grows
    <3> QED BY <1>2, <2>4
  <2>7. /\ Only(u, Below) \in Seq(T) /\ Only(u, Equal) \in Seq(T) /\ Only(u, Above) \in Seq(T)
        /\ Only(v, Below) = IF x \in Below THEN Append(Only(u, Below), x) ELSE Only(u, Below)
        /\ Only(v, Equal) = IF x \in Equal THEN Append(Only(u, Equal), x) ELSE Only(u, Equal)
        /\ Only(v, Above) = IF x \in Above THEN Append(Only(u, Above), x) ELSE Only(u, Above)
    <3>1. ASSUME NEW S
          PROVE  Only(v, S) = IF x \in S THEN Append(Only(u, S), x) ELSE Only(u, S)
      BY OnlyAppend DEF v
    <3>2. ASSUME NEW S PROVE Only(u, S) \in Seq(T)
      BY OnlyType
    <3> QED BY <3>1, <3>2
  <2>8. ToSet(u) \subseteq T /\ \A y \in ToSet(u) : key[y] <= key[x]
    <3>1. \A n \in DOMAIN u : key[u[n]] <= key[x]
      BY <2>5
    <3> QED BY <3>1, ToSetType DEF ToSet
  <2>9. key[x] < p => Only(u, Equal) = <<>> /\ Only(u, Above) = <<>>
    <3>1. ASSUME key[x] < p PROVE ToSet(u) \cap Equal = {} /\ ToSet(u) \cap Above = {}
      BY <1>0, <2>8, <3>1
    <3> QED BY <3>1, OnlyNone
  <2>10. key[x] = p => Only(u, Above) = <<>>
    <3>1. ASSUME key[x] = p PROVE ToSet(u) \cap Above = {}
      BY <1>0, <2>8, <3>1
    <3> QED BY <3>1, OnlyNone
  <2>11. /\ x \in Below <=> key[x] < p
         /\ x \in Equal <=> key[x] = p
         /\ x \in Above <=> key[x] > p
    OBVIOUS
  <2>12. key[x] \in Int
    OBVIOUS
  <2> DEFINE b == Only(u, Below)
             e == Only(u, Equal)
             a == Only(u, Above)
  <2>13. /\ b \in Seq(T) /\ e \in Seq(T) /\ a \in Seq(T) /\ u = (b \o e) \o a
    BY <2>6, <2>7
  <2>14. v = Append(u, x)
    BY DEF v
  <2> HIDE DEF a, b, e, v, Grows
  <2>15. CASE key[x] < p
    <3>1. e = <<>> /\ a = <<>>
      BY <2>9, <2>15 DEF e, a
    <3>2. u = b
      BY <2>13, <3>1, ConcatEmptySeq
    <3>3. Only(v, Below) = Append(b, x) /\ Only(v, Equal) = <<>> /\ Only(v, Above) = <<>>
      BY <2>7, <2>11, <2>12, <2>15, <3>1 DEF a, b, e
    <3>4. Append(b, x) \in Seq(T)
      BY <2>13
    <3>5. (Append(b, x) \o <<>>) \o <<>> = Append(b, x)
      BY <3>4, ConcatEmptySeq
    <3> QED BY <2>14, <3>2, <3>3, <3>5
  <2>16. CASE key[x] = p
    <3>1. a = <<>>
      BY <2>10, <2>16 DEF a
    <3>2. b \o e \in Seq(T) /\ u = b \o e
      BY <2>13, <3>1, ConcatEmptySeq, ConcatProperties
    <3>3. Only(v, Below) = b /\ Only(v, Equal) = Append(e, x) /\ Only(v, Above) = <<>>
      BY <2>7, <2>11, <2>12, <2>16, <3>1 DEF a, b, e
    <3>4. b \o Append(e, x) = Append(b \o e, x) /\ Append(b \o e, x) \in Seq(T)
      BY <2>13, <3>2
    <3>5. Append(b \o e, x) \o <<>> = Append(b \o e, x)
      BY <3>4, ConcatEmptySeq
    <3> QED BY <2>14, <3>2, <3>3, <3>4, <3>5
  <2>17. CASE key[x] > p
    <3>1. Only(v, Below) = b /\ Only(v, Equal) = e /\ Only(v, Above) = Append(a, x)
      BY <2>7, <2>11, <2>12, <2>17 DEF a, b, e
    <3>2. b \o e \in Seq(T)
      BY <2>13, ConcatProperties
    <3>3. (b \o e) \o Append(a, x) = Append((b \o e) \o a, x)
      <4> DEFINE w == b \o e
      <4>1. w \in Seq(T)
        BY <3>2
      <4> HIDE DEF w
      <4>2. w \o Append(a, x) = Append(w \o a, x)
        BY <2>13, <4>1
      <4> QED BY <4>2 DEF w
    <3> QED BY <2>13, <2>14, <3>1, <3>3
  <2> QED BY <2>12, <2>15, <2>16, <2>17
<1>3. Seq(T) \subseteq P
  <2> HIDE DEF P
  <2> QED BY <1>1, <1>2, SeqInduction
<1>4. Grows(s) => Bands(s)
  <2> HIDE DEF Grows, Bands
  <2> QED BY <1>3
<1>5. Grows(s)
  BY DEF Growing
<1> QED BY <1>4, <1>5 DEF Glued

\* Five sequences, bracketed around the one in the middle.
LEMMA ConcatFive ==
  ASSUME NEW T, NEW a \in Seq(T), NEW b \in Seq(T), NEW q \in Seq(T), NEW d \in Seq(T),
         NEW e \in Seq(T)
  PROVE  Glued((a \o ((b \o q) \o d)) \o e, a \o b, q, d \o e)
<1> DEFINE ab == a \o b
           bq == b \o q
           abq == ab \o q
<1>1. ab \in Seq(T)
  BY ConcatType
<1>2. bq \in Seq(T)
  BY ConcatType
<1>3. abq = a \o bq
  BY ConcatAssociative
<1> HIDE DEF ab, bq
<1>4. abq \in Seq(T)
  BY <1>1, ConcatType
<1>5. (a \o bq) \o d = a \o (bq \o d)
  BY <1>2, ConcatAssociative
<1> HIDE DEF abq
<1>6. (abq \o d) \o e = abq \o (d \o e)
  BY <1>4, ConcatAssociative
<1>7. (a \o (bq \o d)) \o e = (abq \o d) \o e
  BY <1>3, <1>5
<1> QED BY <1>6, <1>7 DEF ab, bq, abq, Glued

\* What is around a part of a part.
Around(T, s, q) == \E a \in Seq(T), c \in Seq(T) : Glued(s, a, q, c)

\* What is in a row within a row is in a row.
LEMMA AroundAround ==
  ASSUME NEW T, NEW s, NEW o, NEW q, q \in Seq(T), Around(T, s, o), Around(T, o, q)
  PROVE  Around(T, s, q)
<1>1. PICK a \in Seq(T), e \in Seq(T) : Glued(s, a, o, e)
  BY DEF Around
<1>2. PICK b \in Seq(T), d \in Seq(T) : Glued(o, b, q, d)
  BY DEF Around
<1>3. s = (a \o ((b \o q) \o d)) \o e
  BY <1>1, <1>2 DEF Glued
<1>4. Glued((a \o ((b \o q) \o d)) \o e, a \o b, q, d \o e)
  BY ConcatFive
<1>5. Glued(s, a \o b, q, d \o e)
  BY <1>3, <1>4
<1>6. a \o b \in Seq(T)
  BY ConcatType
<1>7. d \o e \in Seq(T)
  BY ConcatType
<1> QED BY <1>5, <1>6, <1>7 DEF Around

\* What moving the head of a list to the end of another one leaves
LEMMA MoveHead ==
  ASSUME NEW S, NEW s \in Seq(S), NEW q \in Seq(S), q # <<>>
  PROVE  /\ Head(q) \in S /\ Tail(q) \in Seq(S) /\ Append(s, Head(q)) \in Seq(S)
         /\ Append(s, Head(q)) \o Tail(q) = s \o q
<1>1. Head(q) \in S /\ Tail(q) \in Seq(S) /\ Append(s, Head(q)) \in Seq(S)
  OBVIOUS
<1>2. Append(s, Head(q)) \o Tail(q) \in Seq(S) /\ s \o q \in Seq(S)
  BY <1>1
<1>3. Len(Append(s, Head(q)) \o Tail(q)) = Len(s \o q)
  BY <1>1
<1>4. ASSUME NEW i \in 1..Len(s \o q)
      PROVE  (Append(s, Head(q)) \o Tail(q))[i] = (s \o q)[i]
  <2>1. CASE i <= Len(s)
    BY <1>1, <2>1
  <2>2. CASE i = Len(s) + 1
    BY <1>1, <2>2
  <2>3. CASE i > Len(s) + 1
    BY <1>1, <2>3
  <2> QED
    BY <2>1, <2>2, <2>3
<1> QED
  BY <1>1, <1>2, <1>3, <1>4

\* A list with one more element: its last, the rest and its elements
LEMMA AppendedPart ==
  ASSUME NEW S, NEW s \in Seq(S), NEW x \in S
  PROVE  /\ Append(s, x) # <<>> /\ Last(Append(s, x)) = x
         /\ Front(Append(s, x)) = s
         /\ ToSet(Append(s, x)) = ToSet(s) \cup {x}
<1>1. Append(s, x) # <<>> /\ Last(Append(s, x)) = x
  BY DEF Last
<1>2. Front(Append(s, x)) = s
  BY DEF Front
<1>3. ToSet(Append(s, x)) = ToSet(s) \cup {x}
  <2>1. DOMAIN s = 1..Len(s) /\ DOMAIN Append(s, x) = 1..(Len(s) + 1)
    OBVIOUS
  <2>2. \A i \in 1..Len(s) : Append(s, x)[i] = s[i]
    OBVIOUS
  <2>3. Append(s, x)[Len(s) + 1] = x /\ Len(s) \in Nat
    OBVIOUS
  <2> QED
    BY <2>1, <2>2, <2>3 DEF ToSet
<1> QED
  BY <1>1, <1>2, <1>3

\* A list is a prefix of what it is continued to.
LEMMA FirstPart ==
  ASSUME NEW S, NEW s \in Seq(S), NEW q \in Seq(S)
  PROVE  IsPrefix(s, s \o q)
  BY DEF IsPrefix

\* Two lists put together, by their elements
LEMMA ConcatParts ==
  ASSUME NEW T, NEW s \in Seq(T), NEW t \in Seq(T)
  PROVE  /\ s \o t \in Seq(T) /\ Len(s \o t) = Len(s) + Len(t)
         /\ \A k \in 1..Len(s) : (s \o t)[k] = s[k]
         /\ \A k \in 1..Len(t) : (s \o t)[Len(s) + k] = t[k]
<1>1. /\ s \o t \in Seq(T) /\ Len(s) \in Nat /\ Len(t) \in Nat
      /\ Len(s \o t) = Len(s) + Len(t)
      /\ \A k \in 1..Len(s) : k \in 1..Len(s \o t) /\ (s \o t)[k] = s[k]
      /\ \A k \in 1..Len(t) : Len(s) + k \in 1..Len(s \o t) /\ (s \o t)[Len(s) + k] = t[k]
  BY ConcatIndex
<1> QED BY <1>1

\* The first of the numbers of a set, or 0 when there are none: what SelectInSeq finds.
LEMMA FirstOf ==
  ASSUME NEW N \in Nat, NEW I, I \subseteq 1..N, NEW k, k = IF I # {} THEN Min(I) ELSE 0
  PROVE  \/ k = 0 /\ I = {}
         \/ k \in I /\ k \in 1..N /\ \A j \in I : k <= j
<1>1. CASE I = {}
  BY <1>1
<1>2. CASE I # {}
  <2>1. \E n \in I : \A m \in I : n <= m
    <3>1. I \subseteq Nat
      OBVIOUS
    <3> QED BY <1>2, <3>1, LeastElement
  <2>2. Min(I) \in I /\ \A m \in I : Min(I) <= m
    BY <2>1 DEF Min
  <2> QED BY <1>2, <2>2
<1> QED
  BY <1>1, <1>2

\* The front of a sequence is of the same elements.
LEMMA FrontPart ==
  ASSUME NEW T, NEW s \in Seq(T), NEW m \in Int, m <= Len(s)
  PROVE  /\ SubSeq(s, 1, m) \in Seq(T)
         /\ Len(SubSeq(s, 1, m)) = IF m >= 0 THEN m ELSE 0
         /\ \A k \in 1..m : SubSeq(s, 1, m)[k] = s[k]
<1>1. \A k \in 1..m : k \in 1..Len(s)
  OBVIOUS
<1> QED BY <1>1

\* The least of two numbers
LEMMA MinOfTwo ==
  ASSUME NEW a \in Int, NEW b \in Int
  PROVE  Min({a, b}) \in {a, b} /\ Min({a, b}) <= a /\ Min({a, b}) <= b
<1>1. \E x \in {a, b} : \A y \in {a, b} : x <= y
  OBVIOUS
<1>2. Min({a, b}) \in {a, b} /\ \A y \in {a, b} : Min({a, b}) <= y
  BY <1>1 DEF Min
<1> QED BY <1>2

\* Nothing more
LEMMA ConcatNothing ==
  ASSUME NEW T, NEW s \in Seq(T)
  PROVE  s \o <<>> = s /\ <<>> \o s = s
  OBVIOUS

\* One more element at the end
LEMMA AppendConcat ==
  ASSUME NEW T, NEW s \in Seq(T), NEW t \in Seq(T), NEW x \in T
  PROVE  s \o Append(t, x) = Append(s \o t, x) /\ s \o <<x>> = Append(s, x)
<1> DEFINE u == s \o t
           N == Len(s)
           M == Len(t)
           l == s \o Append(t, x)
           r == Append(u, x)
<1>1. /\ u \in Seq(T) /\ Len(u) = N + M /\ N \in Nat /\ M \in Nat
      /\ Append(t, x) \in Seq(T) /\ Len(Append(t, x)) = M + 1
  OBVIOUS
<1>2. l \in Seq(T) /\ r \in Seq(T) /\ Len(l) = N + (M + 1) /\ Len(r) = (N + M) + 1
  BY <1>1
<1>3. ASSUME NEW k \in 1..Len(l) PROVE l[k] = r[k]
  <2>1. CASE k <= N
    BY <1>1, <1>2, <2>1
  <2>2. CASE k > N /\ k <= N + M
    BY <1>1, <1>2, <2>2
  <2>3. CASE k = N + M + 1
    BY <1>1, <1>2, <2>3
  <2> QED BY <1>1, <1>2, <2>1, <2>2, <2>3
<1>4. l = r
  <2> HIDE DEF l, r
  <2>1. Len(l) = Len(r)
    BY <1>1, <1>2
  <2> QED BY <1>2, <1>3, <2>1
<1>5. s \o <<x>> = Append(s, x)
  OBVIOUS
<1> QED BY <1>4, <1>5

\* The first part of a sequence with one element more
LEMMA FrontOfAppend ==
  ASSUME NEW T, NEW s \in Seq(T), NEW x \in T, NEW k \in 0..Len(s)
  PROVE  /\ SubSeq(Append(s, x), 1, k) = SubSeq(s, 1, k)
         /\ SubSeq(s, 1, k) \in Seq(T) /\ SubSeq(s, 1, Len(s)) = s
  OBVIOUS

\* The first part of the first part
LEMMA FrontOfFront ==
  ASSUME NEW T, NEW s \in Seq(T), NEW k \in 0..Len(s), NEW j \in 0..k
  PROVE  /\ SubSeq(SubSeq(s, 1, k), 1, j) = SubSeq(s, 1, j)
         /\ SubSeq(s, 1, k) \in Seq(T) /\ Len(SubSeq(s, 1, k)) = k /\ k \in 0..Len(s)
  OBVIOUS

\* The least number of a set
LEMMA LeastOf ==
  ASSUME NEW S, S \subseteq Nat, S # {}
  PROVE  Min(S) \in S /\ \A k \in S : Min(S) <= k
<1>1. \E n \in S : \A m \in S : n <= m
  BY LeastElement
<1> QED BY <1>1 DEF Min

\* Another element at one place of a sequence
LEMMA PutElement ==
  ASSUME NEW T, NEW s \in Seq(T), NEW i \in 1..Len(s), NEW x \in T
  PROVE  LET t == [s EXCEPT ![i] = x]
         IN  /\ t \in Seq(T) /\ Len(t) = Len(s) /\ t[i] = x
             /\ \A k \in 1..Len(s) : k # i => t[k] = s[k]
  OBVIOUS

\* A set of numbers up to N has a greatest one.
LEMMA GreatestOf ==
  ASSUME NEW N \in Nat, NEW I, I \subseteq 1..N, I # {}
  PROVE  Max(I) \in I /\ \A i \in I : i <= Max(I)
<1> DEFINE J == {j \in Nat : \E i \in I : j = N - i}
<1>1. \A i \in I : i \in Nat /\ N - i \in Nat /\ i = N - (N - i)
  OBVIOUS
<1>2. J \subseteq Nat /\ J # {}
  BY <1>1
<1>3. PICK j \in J : \A k \in J : j <= k
  BY <1>2, LeastElement
<1>4. PICK i \in I : j = N - i
  BY <1>3
<1>5. ASSUME NEW k \in I PROVE k <= i
  <2>1. N - k \in J
    BY <1>1
  <2>2. j <= N - k
    BY <1>3, <2>1
  <2> QED BY <1>1, <1>4, <2>2
<1>6. \E x \in I : \A y \in I : x >= y
  <2>1. \A y \in I : i >= y
    BY <1>1, <1>5
  <2> QED BY <2>1
<1>7. Max(I) \in I /\ \A y \in I : Max(I) >= y
  BY <1>6 DEF Max
<1> QED BY <1>1, <1>7

\* A function on the elements of the lists is one on the elements of all of them.
LEMMA MapFlatten ==
  ASSUME NEW T, NEW U, NEW h \in [T -> U], NEW ss \in Seq(Seq(T))
  PROVE  /\ Mapped([v \in Seq(T) |-> Mapped(h, v)], ss) \in Seq(Seq(U))
         /\ Mapped(h, FlattenSeq(ss)) = FlattenSeq(Mapped([v \in Seq(T) |-> Mapped(h, v)], ss))
<1> DEFINE V == Seq(T)
           W == Seq(U)
           H == [v \in V |-> Mapped(h, v)]
           P == {s \in Seq(V) : Mapped(h, FlattenSeq(s)) = FlattenSeq(Mapped(H, s))}
           e == <<>>
<1>1. H \in [V -> W] /\ \A v \in V : H[v] = Mapped(h, v)
  BY MapType
<1> HIDE DEF H
<1>2. \A s \in Seq(V) : Mapped(H, s) \in Seq(W)
  <2> HIDE DEF V, W
  <2> QED BY <1>1, MapType
<1>3. e \in P
  <2>1. e \in Seq(V) /\ FlattenSeq(e) = e /\ Mapped(H, e) = e /\ Mapped(h, e) = e
    BY FlattenEmpty, MapEmpty
  <2> HIDE DEF e, V
  <2> QED BY <2>1
<1>4. ASSUME NEW s \in Seq(V), NEW x \in V, s \in P PROVE Append(s, x) \in P
  <2> DEFINE t == Append(s, x)
             F == FlattenSeq(s)
             Hs == Mapped(H, s)
  <2>1. F \in Seq(T) /\ FlattenSeq(t) = F \o x
    BY <1>4, FlattenAppend
  <2>2. Mapped(h, F \o x) = Mapped(h, F) \o Mapped(h, x)
    <3>1. x \in Seq(T)
      BY <1>4
    <3> HIDE DEF F
    <3> QED BY <2>1, <3>1, MapConcat
  <2>3. Mapped(h, F) = FlattenSeq(Hs)
    BY <1>4
  <2>4. Mapped(H, t) = Append(Hs, H[x])
    <3>1. H \in [V -> W] /\ s \in Seq(V) /\ x \in V
      BY <1>1, <1>4
    <3> HIDE DEF V, W
    <3>2. [n \in DOMAIN Append(s, x) |-> H[Append(s, x)[n]]] = Append([n \in DOMAIN s |-> H[s[n]]], H[x])
      BY <3>1, MapAppend
    <3> QED BY <3>2 DEF Mapped
  <2>5. FlattenSeq(Append(Hs, H[x])) = FlattenSeq(Hs) \o H[x]
    <3>1. Hs \in Seq(W) /\ H[x] \in W
      BY <1>1, <1>2, <1>4
    <3> HIDE DEF Hs
    <3>2. Hs \in Seq(Seq(U)) /\ H[x] \in Seq(U)
      BY <3>1
    <3> QED BY <3>2, FlattenAppend
  <2>6. H[x] = Mapped(h, x)
    BY <1>1, <1>4
  <2>7. t \in Seq(V)
    <3> HIDE DEF V
    <3> QED BY <1>4
  <2> HIDE DEF F, Hs, t, V
  <2>8. Mapped(h, FlattenSeq(t)) = FlattenSeq(Mapped(H, t))
    BY <2>1, <2>2, <2>3, <2>4, <2>5, <2>6, Zenon
  <2>9. t \in P
    BY <2>7, <2>8
  <2> QED BY <2>9 DEF t
<1> HIDE DEF P, V, W
<1>5. Seq(V) \subseteq P
  BY <1>3, <1>4, SeqInduction DEF e
<1>6. ss \in P /\ ss \in Seq(V)
  BY <1>5 DEF V
<1>7. Mapped(h, FlattenSeq(ss)) = FlattenSeq(Mapped(H, ss)) /\ Mapped(H, ss) \in Seq(W)
  BY <1>2, <1>6 DEF P
<1> QED BY <1>7 DEF H, V, W

\* A list whose elements are in T
LEMMA ListType ==
  ASSUME NEW T, NEW s, s = [n \in 1..Len(s) |-> s[n]], Len(s) \in Nat, \A n \in 1..Len(s) : s[n] \in T
  PROVE  s \in Seq(T)
<1>1. s \in [1..Len(s) -> T]
  OBVIOUS
<1> QED BY <1>1

\* The selection from three parts
LEMMA OnlyAround ==
  ASSUME NEW T, NEW a \in Seq(T), NEW x \in Seq(T), NEW b \in Seq(T), NEW S
  PROVE  Only((a \o x) \o b, S) = (Only(a, S) \o Only(x, S)) \o Only(b, S)
<1> DEFINE ax == a \o x
<1>1. ax \in Seq(T)
  OBVIOUS
<1>2. Only(ax, S) = Only(a, S) \o Only(x, S)
  BY OnlyConcat
<1> HIDE DEF ax
<1>3. Only(ax \o b, S) = Only(ax, S) \o Only(b, S)
  BY <1>1, OnlyConcat
<1> QED BY <1>2, <1>3 DEF ax

\* What is in one of the lists is in the list of all.
LEMMA FlattenHas ==
  ASSUME NEW T, NEW ss, ss \in Seq(Seq(T)), NEW k, k \in 1..Len(ss), NEW x, x \in ToSet(ss[k])
  PROVE  x \in ToSet(FlattenSeq(ss))
<1> DEFINE V == Seq(T)
           a == SubSeq(ss, 1, k - 1)
           b == SubSeq(ss, k + 1, Len(ss))
           s == ss[k]
           A == FlattenSeq(a)
           B == FlattenSeq(b)
<1>1. /\ a \in Seq(V) /\ b \in Seq(V) /\ s \in V
      /\ ss = (a \o <<s>>) \o b
  <2>1. ss \in Seq(V) /\ k \in 1..Len(ss)
    OBVIOUS
  <2> HIDE DEF V
  <2>2. /\ SubSeq(ss, 1, k - 1) \in Seq(V) /\ SubSeq(ss, k + 1, Len(ss)) \in Seq(V)
        /\ ss = (SubSeq(ss, 1, k - 1) \o <<ss[k]>>) \o SubSeq(ss, k + 1, Len(ss))
    BY <2>1, AroundOne
  <2>3. ss[k] \in V
    BY <2>1
  <2> QED BY <2>2, <2>3
<1>2. A \in Seq(T) /\ B \in Seq(T) /\ s \in Seq(T)
  <2> HIDE DEF a, b, s
  <2> QED BY <1>1, FlattenType
<1>3. FlattenSeq(ss) = (A \o s) \o B
  <2> HIDE DEF a, b, s
  <2>1. <<s>> \in Seq(V) /\ a \o <<s>> \in Seq(V)
    <3> HIDE DEF V
    <3> QED BY <1>1
  <2>2. FlattenSeq(ss) = FlattenSeq(a \o <<s>>) \o B
    BY <1>1, <2>1, FlattenConcat
  <2>3. FlattenSeq(a \o <<s>>) = A \o FlattenSeq(<<s>>)
    BY <1>1, <2>1, FlattenConcat
  <2>4. FlattenSeq(<<s>>) = s
    BY <1>2, FlattenOne
  <2> QED BY <2>2, <2>3, <2>4
<1>4. x \in ToSet(s)
  OBVIOUS
<1> HIDE DEF A, B, s
<1>5. ToSet((A \o s) \o B) = (ToSet(A) \cup ToSet(s)) \cup ToSet(B)
  <2> DEFINE As == A \o s
  <2>1. As \in Seq(T) /\ ToSet(As) = ToSet(A) \cup ToSet(s)
    BY <1>2, ToSetConcat
  <2> HIDE DEF As
  <2>2. ToSet(As \o B) = ToSet(As) \cup ToSet(B)
    BY <1>2, <2>1, ToSetConcat
  <2> QED BY <2>1, <2>2 DEF As
<1> QED BY <1>3, <1>4, <1>5

\* A list in reverse has the same elements.
LEMMA ReverseElements ==
  ASSUME NEW T, NEW s \in Seq(T)
  PROVE  Reverse(s) \in Seq(T) /\ ToSet(Reverse(s)) = ToSet(s)
<1> DEFINE n == Len(s)
           r == [i \in 1..n |-> s[(n - i) + 1]]
<1>1. n \in Nat /\ DOMAIN s = 1..n /\ \A i \in 1..n : s[i] \in T
  OBVIOUS
<1>2. Reverse(s) = r
  BY DEF Reverse
<1>3. \A i \in 1..n : (n - i) + 1 \in 1..n /\ (n - ((n - i) + 1)) + 1 = i
  BY <1>1
<1> HIDE DEF n
<1>4. /\ r \in [1..n -> T] /\ DOMAIN r = 1..n
      /\ \A i \in 1..n : r[i] = s[(n - i) + 1]
  BY <1>1, <1>3
<1>5. r \in Seq(T)
  BY <1>1, <1>4
<1> HIDE DEF r
<1>6. \A x : x \in ToSet(s) <=> \E i \in 1..n : x = s[i]
  BY <1>1 DEF ToSet
<1>7. \A x : x \in ToSet(r) <=> \E i \in 1..n : x = r[i]
  BY <1>4 DEF ToSet
<1>8. ASSUME NEW x \in ToSet(s) PROVE x \in ToSet(r)
  <2>1. PICK i \in 1..n : x = s[i]
    BY <1>6
  <2>2. (n - i) + 1 \in 1..n /\ r[(n - i) + 1] = s[i]
    BY <1>3, <1>4
  <2> QED BY <1>7, <2>1, <2>2
<1>9. ASSUME NEW x \in ToSet(r) PROVE x \in ToSet(s)
  <2>1. PICK i \in 1..n : x = r[i]
    BY <1>7
  <2> QED BY <1>3, <1>4, <1>6, <2>1
<1> QED BY <1>2, <1>5, <1>8, <1>9

\* No element is there twice.
Once(s) == \A j \in 1..Len(s), k \in 1..Len(s) : s[j] = s[k] => j = k
\* That is what IsInjective says of a list.
LEMMA OnceInjective ==
  ASSUME NEW T, NEW s \in Seq(T)
  PROVE  IsInjective(s) <=> Once(s)
<1>1. DOMAIN s = 1..Len(s)
  OBVIOUS
<1> QED BY <1>1 DEF IsInjective, Once

\* Two lists that have nothing in common
LEMMA OnceConcat ==
  ASSUME NEW T, NEW s \in Seq(T), NEW t \in Seq(T), Once(s), Once(t), ToSet(s) \cap ToSet(t) = {}
  PROVE  Once(s \o t)
<1> DEFINE u == s \o t
           N == Len(s)
           M == Len(t)
<1>1. /\ N \in Nat /\ M \in Nat /\ Len(u) = N + M
      /\ \A n \in 1..N : u[n] = s[n]
      /\ \A n \in 1..M : u[N + n] = t[n]
  BY ConcatIndex
<1>2. /\ \A n \in 1..N : s[n] \in ToSet(s)
      /\ \A n \in 1..M : t[n] \in ToSet(t)
  BY DEF ToSet
<1>3. \A j \in 1..N, k \in 1..M : s[j] # t[k]
  BY <1>2
<1>4. /\ \A j \in 1..N, k \in 1..N : s[j] = s[k] => j = k
      /\ \A j \in 1..M, k \in 1..M : t[j] = t[k] => j = k
  BY DEF Once
<1> HIDE DEF u, N, M
<1>5. ASSUME NEW j \in 1..Len(u), NEW k \in 1..Len(u), u[j] = u[k] PROVE j = k
  <2>1. CASE j \in 1..N /\ k \in 1..N
    BY <1>1, <1>4, <1>5, <2>1
  <2>2. CASE j \in 1..N /\ k \notin 1..N
    <3>1. k - N \in 1..M /\ N + (k - N) = k
      BY <1>1, <2>2
    <3>2. u[j] = s[j] /\ u[k] = t[k - N]
      BY <1>1, <2>2, <3>1
    <3> QED BY <1>3, <1>5, <2>2, <3>1, <3>2
  <2>3. CASE j \notin 1..N /\ k \in 1..N
    <3>1. j - N \in 1..M /\ N + (j - N) = j
      BY <1>1, <2>3
    <3>2. u[k] = s[k] /\ u[j] = t[j - N]
      BY <1>1, <2>3, <3>1
    <3> QED BY <1>3, <1>5, <2>3, <3>1, <3>2
  <2>4. CASE j \notin 1..N /\ k \notin 1..N
    <3>1. j - N \in 1..M /\ N + (j - N) = j /\ k - N \in 1..M /\ N + (k - N) = k
      BY <1>1, <2>4
    <3>2. u[k] = t[k - N] /\ u[j] = t[j - N]
      BY <1>1, <3>1
    <3>3. j - N = k - N
      BY <1>4, <1>5, <3>1, <3>2
    <3> QED BY <1>1, <3>3
  <2> QED BY <2>1, <2>2, <2>3, <2>4
<1>6. Once(u)
  BY <1>5 DEF Once
<1> QED BY <1>6 DEF u

\* Lists of different elements that have nothing in common
Disjoint(ss) ==
    /\ \A k \in 1..Len(ss) : Once(ss[k])
    /\ \A j, k \in 1..Len(ss) : j # k => ToSet(ss[j]) \cap ToSet(ss[k]) = {}
\* An element of a list that is put together is in one of its parts.
Origins(s, ss) == \A x \in ToSet(s) : \E k \in 1..Len(ss) : x \in ToSet(ss[k])
\* Put together they have no element twice.
LEMMA FlattenOnce ==
  ASSUME NEW T, NEW ss, ss \in Seq(Seq(T))
  PROVE  /\ Origins(FlattenSeq(ss), ss)
         /\ Disjoint(ss) => Once(FlattenSeq(ss))
<1> DEFINE V == Seq(T)
           P == {s \in Seq(V) : /\ Origins(FlattenSeq(s), s)
                                /\ Disjoint(s) => Once(FlattenSeq(s))}
           e == <<>>
<1>1. e \in P
  <2>1. e \in Seq(V) /\ FlattenSeq(e) = e /\ ToSet(e) = {} /\ Len(e) = 0
    BY FlattenEmpty, ToSetEmpty
  <2> HIDE DEF e, V
  <2> QED BY <2>1 DEF Origins, Once
<1>2. ASSUME NEW s \in Seq(V), NEW x \in V, s \in P PROVE Append(s, x) \in P
  <2> DEFINE t == Append(s, x)
             F == FlattenSeq(s)
             n == Len(s)
  <2>1. F \in Seq(T) /\ FlattenSeq(t) = F \o x
    BY <1>2, FlattenAppend
  <2>2. /\ t \in Seq(V) /\ n \in Nat /\ Len(t) = n + 1 /\ t[n + 1] = x
        /\ \A k \in 1..n : t[k] = s[k]
    <3> HIDE DEF V
    <3> QED BY <1>2
  <2>3. x \in Seq(T)
    BY <1>2
  <2>4. Origins(F, s) /\ (Disjoint(s) => Once(F))
    BY <1>2
  <2> HIDE DEF t, F, n, V, P
  <2>5. ToSet(F \o x) = ToSet(F) \cup ToSet(x)
    BY <2>1, <2>3, ToSetConcat
  <2>6. Origins(F \o x, t)
    <3>1. ASSUME NEW y \in ToSet(F \o x) PROVE \E k \in 1..Len(t) : y \in ToSet(t[k])
      <4>1. CASE y \in ToSet(x)
        <5>1. n + 1 \in 1..Len(t) /\ y \in ToSet(t[n + 1])
          BY <2>2, <4>1
        <5> QED BY <5>1
      <4>2. CASE y \in ToSet(F)
        <5>1. PICK k \in 1..n : y \in ToSet(s[k])
          BY <2>4, <4>2 DEF Origins, n
        <5>2. k \in 1..Len(t) /\ y \in ToSet(t[k])
          BY <2>2, <5>1
        <5> QED BY <5>2
      <4> QED BY <2>5, <3>1, <4>1, <4>2
    <3> QED BY <3>1 DEF Origins
  <2>7. ASSUME Disjoint(t) PROVE Once(F \o x)
    <3>1. /\ \A k \in 1..(n + 1) : Once(t[k])
          /\ \A j, k \in 1..(n + 1) : j # k => ToSet(t[j]) \cap ToSet(t[k]) = {}
      BY <2>2, <2>7 DEF Disjoint
    <3>2. \A k \in 1..n : k \in 1..(n + 1) /\ k # n + 1
      BY <2>2
    <3>3. n + 1 \in 1..(n + 1)
      BY <2>2
    <3>4. \A k \in 1..n : Once(s[k])
      BY <2>2, <3>1, <3>2
    <3>5. \A j, k \in 1..n : j # k => ToSet(s[j]) \cap ToSet(s[k]) = {}
      BY <2>2, <3>1, <3>2
    <3>6. Disjoint(s)
      BY <3>4, <3>5 DEF Disjoint, n
    <3>7. Once(F) /\ Once(x)
      BY <2>2, <2>4, <3>1, <3>3, <3>6
    <3>8. ASSUME NEW y, y \in ToSet(F), y \in ToSet(x) PROVE FALSE
      <4>1. PICK k \in 1..n : y \in ToSet(s[k])
        BY <2>4, <3>8 DEF Origins, n
      <4>2. ToSet(t[k]) \cap ToSet(t[n + 1]) = {}
        BY <3>1, <3>2, <3>3
      <4> QED BY <2>2, <3>8, <4>1, <4>2
    <3>9. ToSet(F) \cap ToSet(x) = {}
      BY <3>8
    <3> QED BY <2>1, <2>3, <3>7, <3>9, OnceConcat
  <2>8. t \in P
    BY <2>1, <2>2, <2>6, <2>7 DEF P
  <2> QED BY <2>8 DEF t
<1> HIDE DEF P, V
<1>3. Seq(V) \subseteq P
  BY <1>1, <1>2, SeqInduction DEF e
<1>4. ss \in P
  BY <1>3 DEF V
<1> QED BY <1>4 DEF P
===============================================================================
