----------------------------- MODULE ChunkingProofs -----------------------------
(***************************************************************************)
(* What the template chunkers make of a document, for any blocks, limits    *)
(* and windows: the children of a group, the groups of a document, the      *)
(* package they make up, and what becomes of the text.                      *)
(***************************************************************************)
EXTENDS ParsingProofs

-----------------------------------------------------------------------------
(* Children *)

\* Every block precedes those behind it.
Rising(s) == \A j \in 1..Len(s), k \in 1..Len(s) : j < k => Precedes(s[j], s[k])
\* Blocks in order, all of them among the first n of seq
Upto(seq, n) ==
    {s \in Seq(Block) : Rising(s) /\ \A k \in 1..Len(s) : \E j \in 1..n : s[k] = seq[j]}

\* The next block of the sequence goes behind those before it.
LEMMA UptoAppend ==
  ASSUME NEW seq \in Seq(Block), Rising(seq), NEW n \in 1..Len(seq), NEW s \in Upto(seq, n - 1)
  PROVE  Append(s, seq[n]) \in Upto(seq, n)
<1> DEFINE M == Len(s)
           t == Append(s, seq[n])
           b == seq[n]
<1>1. /\ s \in Seq(Block) /\ Rising(s)
      /\ \A k \in 1..Len(s) : \E j \in 1..(n - 1) : s[k] = seq[j]
  BY DEF Upto
<1>2. b \in Block /\ n \in Nat /\ Len(seq) \in Nat /\ n <= Len(seq)
  OBVIOUS
<1>3. t \in Seq(Block) /\ Len(t) = M + 1 /\ M \in Nat /\ t[M + 1] = b
      /\ \A k \in 1..M : t[k] = s[k]
  BY <1>1, <1>2
<1>4. \A k \in 1..Len(t) : k \in 1..M \/ k = M + 1
  BY <1>3
<1>5. ASSUME NEW k \in 1..M PROVE Precedes(s[k], b)
  <2>1. PICK j \in 1..(n - 1) : s[k] = seq[j]
    BY <1>1
  <2>2. j \in 1..Len(seq) /\ j < n
    BY <1>2, <2>1
  <2> QED BY <1>2, <2>1, <2>2 DEF Rising
<1> HIDE DEF t, b
<1>6. ASSUME NEW j \in 1..Len(t), NEW k \in 1..Len(t), j < k PROVE Precedes(t[j], t[k])
  <2>1. j \in 1..M
    BY <1>3, <1>4, <1>6
  <2>2. CASE k \in 1..M
    BY <1>1, <1>3, <1>6, <2>1, <2>2 DEF Rising
  <2>3. CASE k = M + 1
    BY <1>3, <1>5, <2>1, <2>3
  <2> QED BY <1>4, <2>2, <2>3
<1>7. ASSUME NEW k \in 1..Len(t) PROVE \E j \in 1..n : t[k] = seq[j]
  <2>1. CASE k \in 1..M
    <3>1. PICK j \in 1..(n - 1) : s[k] = seq[j]
      BY <1>1, <2>1
    <3>2. j \in 1..n
      BY <1>2, <3>1
    <3> QED BY <1>3, <2>1, <3>1, <3>2
  <2>2. CASE k = M + 1
    <3>1. n \in 1..n
      BY <1>2
    <3> QED BY <1>3, <2>2, <3>1 DEF b
  <2> QED BY <1>4, <2>1, <2>2
<1>8. t \in Upto(seq, n)
  BY <1>3, <1>6, <1>7 DEF Upto, Rising
<1> QED BY <1>8 DEF t, b

\* There are more blocks to be among.
LEMMA UptoWider ==
  ASSUME NEW seq, NEW n \in Nat, NEW s \in Upto(seq, n)
  PROVE  s \in Upto(seq, n + 1)
<1>1. 1..n \subseteq 1..(n + 1)
  OBVIOUS
<1> QED BY <1>1 DEF Upto

\* The first part of such blocks
LEMMA UptoFront ==
  ASSUME NEW seq, NEW n, NEW s \in Seq(Block), NEW t \in Seq(Block), NEW u \in Upto(seq, n),
         Joined(u, s, t)
  PROVE  s \in Upto(seq, n)
<1>1. u = s \o t
  BY DEF Joined
<1>2. /\ Len(s) \in Nat /\ Len(t) \in Nat /\ Len(s \o t) = Len(s) + Len(t)
      /\ \A k \in 1..Len(s) : k \in 1..Len(s \o t) /\ (s \o t)[k] = s[k]
  <2> QED BY ConcatIndex
<1>3. \A k \in 1..Len(s) : k \in 1..Len(u) /\ u[k] = s[k]
  BY <1>1, <1>2
<1>4. Rising(u) /\ \A k \in 1..Len(u) : \E j \in 1..n : u[k] = seq[j]
  BY DEF Upto
<1>5. Rising(s)
  BY <1>3, <1>4 DEF Rising
<1>6. \A k \in 1..Len(s) : \E j \in 1..n : s[k] = seq[j]
  BY <1>3, <1>4
<1> QED BY <1>5, <1>6 DEF Upto

\* Such blocks, when those of them that are not there are in L
Spanning(seq, L, n) ==
    {s \in Upto(seq, n) : \A j \in 1..n : seq[j] \in L \/ seq[j] \in ToSet(s)}

\* The next block goes behind those before it, and is there.
LEMMA OverAppend ==
  ASSUME NEW seq \in Seq(Block), Rising(seq), NEW L, NEW n \in 1..Len(seq),
         NEW s \in Spanning(seq, L, n - 1)
  PROVE  Append(s, seq[n]) \in Spanning(seq, L, n)
<1> DEFINE t == Append(s, seq[n])
<1>1. /\ s \in Upto(seq, n - 1) /\ n \in Nat
      /\ \A j \in 1..(n - 1) : seq[j] \in L \/ seq[j] \in ToSet(s)
  BY DEF Spanning
<1>2. t \in Upto(seq, n)
  BY <1>1, UptoAppend
<1>3. ToSet(t) = ToSet(s) \cup {seq[n]}
  <2> DEFINE B == Block
             x == seq[n]
  <2>1. s \in Seq(B) /\ x \in B
    BY <1>1 DEF Upto
  <2> HIDE DEF B, x
  <2>2. ToSet(Append(s, x)) = ToSet(s) \cup {x}
    BY <2>1, AppendedPart
  <2> QED BY <2>2 DEF x
<1> HIDE DEF t
<1>4. \A j \in 1..n : j \in 1..(n - 1) \/ j = n
  BY <1>1
<1>5. \A j \in 1..n : seq[j] \in L \/ seq[j] \in ToSet(t)
  BY <1>1, <1>3, <1>4
<1>6. t \in Spanning(seq, L, n)
  BY <1>2, <1>5 DEF Spanning
<1> QED BY <1>6 DEF t

\* A block of L need not be there.
LEMMA OverWider ==
  ASSUME NEW seq, NEW L, NEW n \in Nat, NEW s \in Spanning(seq, L, n), seq[n + 1] \in L
  PROVE  s \in Spanning(seq, L, n + 1)
<1>1. s \in Upto(seq, n) /\ \A j \in 1..n : seq[j] \in L \/ seq[j] \in ToSet(s)
  BY DEF Spanning
<1>2. s \in Upto(seq, n + 1)
  BY <1>1, UptoWider
<1>3. \A j \in 1..(n + 1) : j \in 1..n \/ j = n + 1
  OBVIOUS
<1>4. \A j \in 1..(n + 1) : seq[j] \in L \/ seq[j] \in ToSet(s)
  BY <1>1, <1>3
<1> QED BY <1>2, <1>4 DEF Spanning

\* What is dropped at the end is of L.
LEMMA OverFront ==
  ASSUME NEW seq, NEW L, NEW n, NEW s \in Seq(Block), NEW t \in Seq(Block),
         NEW u \in Spanning(seq, L, n), Joined(u, s, t), ToSet(t) \subseteq L
  PROVE  s \in Spanning(seq, L, n)
<1>1. u \in Upto(seq, n) /\ \A j \in 1..n : seq[j] \in L \/ seq[j] \in ToSet(u)
  BY DEF Spanning
<1>2. s \in Upto(seq, n)
  BY <1>1, UptoFront
<1>3. ToSet(u) = ToSet(s) \cup ToSet(t)
  <2> DEFINE B == Block
  <2>1. s \in Seq(B) /\ t \in Seq(B) /\ u = s \o t
    BY DEF Joined
  <2> HIDE DEF B
  <2>2. ToSet(s \o t) = ToSet(s) \cup ToSet(t)
    BY <2>1, ToSetConcat
  <2> QED BY <2>1, <2>2
<1>4. \A j \in 1..n : seq[j] \in L \/ seq[j] \in ToSet(s)
  BY <1>1, <1>3
<1> QED BY <1>2, <1>4 DEF Spanning

\* The blocks of one more child
LEMMA BlocksAppend ==
  ASSUME NEW done \in Seq(Draft), NEW d \in Draft
  PROVE  /\ BlocksOf(done) \in Seq(Block)
         /\ BlocksOf(Append(done, d)) = BlocksOf(done) \o d.blocks
<1> DEFINE V == Seq(Block)
           h == [x \in Draft |-> x.blocks]
           f(s) == [n \in DOMAIN s |-> h[s[n]]]
           more == Append(done, d)
<1>1. h \in [Draft -> V] /\ h[d] = d.blocks
  BY DEF Draft
<1>2. more \in Seq(Draft)
  OBVIOUS
<1>3. \A s \in Seq(Draft) : BlocksOf(s) = FlattenSeq(f(s))
  <2>1. ASSUME NEW s \in Seq(Draft) PROVE [k \in DOMAIN s |-> s[k].blocks] = f(s)
    <3>1. \A k \in DOMAIN s : s[k] \in Draft
      OBVIOUS
    <3> QED BY <3>1
  <2> QED BY <2>1 DEF BlocksOf
<1>4. f(done) \in Seq(V) /\ f(more) = Append(f(done), h[d])
  <2> HIDE DEF V, h
  <2> QED BY <1>1, MapAppend
<1> DEFINE ss == f(done)
           x == h[d]
<1>5. ss \in Seq(Seq(Block)) /\ x \in Seq(Block)
  BY <1>1, <1>4
<1>6. BlocksOf(done) = FlattenSeq(ss) /\ BlocksOf(more) = FlattenSeq(Append(ss, x))
  BY <1>2, <1>3, <1>4
<1>7. x = d.blocks
  BY <1>1
<1> HIDE DEF ss, x
<1>8. FlattenSeq(ss) \in Seq(Block) /\ FlattenSeq(Append(ss, x)) = FlattenSeq(ss) \o x
  BY <1>5, FlattenAppend
<1> QED BY <1>6, <1>7, <1>8

\* What a walk over the blocks of a group has made of them: children, and what is still open
Laid(acc) == (BlocksOf(acc.done) \o acc.open) \o acc.steps
\* What a template lets its children, its open child and its procedure be
Kinds(W) ==
    /\ W.good \subseteq Draft /\ W.open \subseteq Seq(Block) /\ W.steps \subseteq Seq(Block)
    /\ <<>> \in W.open /\ <<>> \in W.steps
\* The walk has come to block n of seq.
Making(seq, W, n) ==
    {acc \in Children : /\ acc.done \in Seq(W.good)
                        /\ acc.open \in W.open /\ acc.steps \in W.steps
                        /\ acc.open = <<>> \/ acc.steps = <<>>
                        /\ Laid(acc) \in Spanning(seq, W.left, n)}

\* A state of the walk, by its parts
LEMMA MadeOf ==
  ASSUME NEW seq, NEW W, NEW n, Kinds(W), NEW acc,
         NEW done \in Seq(W.good), NEW open \in W.open, NEW steps \in W.steps,
         NEW article \in Title, open = <<>> \/ steps = <<>>,
         acc = [done |-> done, open |-> open, steps |-> steps, article |-> article],
         (BlocksOf(done) \o open) \o steps \in Spanning(seq, W.left, n)
  PROVE  /\ acc \in Making(seq, W, n)
         /\ acc.done = done /\ acc.open = open /\ acc.steps = steps /\ acc.article = article
<1>1. acc.done = done /\ acc.open = open /\ acc.steps = steps /\ acc.article = article
  OBVIOUS
<1>2. done \in Seq(Draft) /\ open \in Seq(Block) /\ steps \in Seq(Block)
  BY DEF Kinds
<1>3. acc \in Children
  BY <1>2 DEF Children
<1> QED
  BY <1>1, <1>3 DEF Making, Laid

\* The parts of a state
LEMMA MadeParts ==
  ASSUME NEW seq, NEW W, NEW n, Kinds(W), NEW acc \in Making(seq, W, n)
  PROVE  /\ acc.done \in Seq(W.good) /\ acc.open \in W.open /\ acc.steps \in W.steps
         /\ acc.done \in Seq(Draft) /\ acc.open \in Seq(Block) /\ acc.steps \in Seq(Block)
         /\ acc.article \in Title /\ BlocksOf(acc.done) \in Seq(Block)
         /\ acc = [done |-> acc.done, open |-> acc.open, steps |-> acc.steps, article |-> acc.article]
         /\ acc.open = <<>> \/ acc.steps = <<>>
         /\ (BlocksOf(acc.done) \o acc.open) \o acc.steps \in Spanning(seq, W.left, n)
         /\ acc \in Children
<1>1. acc \in Children
  BY DEF Making
<1>2. /\ acc.done \in Seq(W.good) /\ acc.open \in W.open /\ acc.steps \in W.steps
      /\ acc.open = <<>> \/ acc.steps = <<>>
      /\ (BlocksOf(acc.done) \o acc.open) \o acc.steps \in Spanning(seq, W.left, n)
  BY DEF Making, Laid
<1>3. /\ acc.done \in Seq(Draft) /\ acc.open \in Seq(Block) /\ acc.steps \in Seq(Block)
      /\ acc.article \in Title
      /\ acc = [done |-> acc.done, open |-> acc.open, steps |-> acc.steps, article |-> acc.article]
  BY <1>1 DEF Children
<1>4. BlocksOf(acc.done) \in Seq(Block)
  <2>1. ASSUME NEW s \in Seq(Draft) PROVE BlocksOf(s) \in Seq(Block)
    <3> DEFINE h == [x \in Draft |-> x.blocks]
               V == Seq(Block)
               ss == Mapped(h, s)
    <3>1. h \in [Draft -> V]
      BY DEF Draft
    <3>2. ss \in Seq(V)
      <4> HIDE DEF h, V
      <4> QED BY <3>1, MapType
    <3>3. ss = [k \in DOMAIN s |-> s[k].blocks]
      BY DEF Mapped
    <3> HIDE DEF ss
    <3>4. FlattenSeq(ss) \in Seq(Block)
      BY <3>2, FlattenType
    <3> QED BY <3>3, <3>4 DEF BlocksOf
  <2> QED BY <1>3, <2>1
<1> QED
  BY <1>1, <1>2, <1>3, <1>4

\* The open child is closed.
LEMMA FlushMakes ==
  ASSUME NEW seq, NEW W, NEW n, Kinds(W), NEW acc \in Making(seq, W, n), NEW type,
         acc.open # <<>> => Drafted(acc.open, type, acc.article) \in W.good
  PROVE  LET new == Flush(acc, type)
         IN  /\ new \in Making(seq, W, n) /\ new.open = <<>> /\ new.steps = acc.steps
             /\ new.article = acc.article
<1> DEFINE done == acc.done
           open == acc.open
           steps == acc.steps
           article == acc.article
           d == Drafted(open, type, article)
           new == Flush(acc, type)
           more == Append(done, d)
           e == <<>>
<1>1. /\ done \in Seq(W.good) /\ open \in W.open /\ steps \in W.steps
      /\ done \in Seq(Draft) /\ open \in Seq(Block) /\ steps \in Seq(Block)
      /\ article \in Title /\ BlocksOf(done) \in Seq(Block)
      /\ acc = [done |-> done, open |-> open, steps |-> steps, article |-> article]
      /\ open = e \/ steps = e
      /\ (BlocksOf(done) \o open) \o steps \in Spanning(seq, W.left, n)
  BY MadeParts
<1>2. CASE open = e
  BY <1>2 DEF Flush
<1>3. CASE open # e
  <2>1. steps = e /\ d \in W.good
    BY <1>1, <1>3
  <2>2. new = [acc EXCEPT !.done = more, !.open = e]
    BY <1>3 DEF Flush
  <2>3. d \in Draft /\ e \in W.open /\ e \in W.steps
    BY <2>1 DEF Kinds
  <2>4. d.blocks = open
    BY DEF Drafted
  <2> HIDE DEF d, done, open, steps, article
  <2>5. BlocksOf(more) = BlocksOf(done) \o open
    BY <1>1, <2>3, <2>4, BlocksAppend
  <2>6. more \in Seq(W.good)
    <3> DEFINE G == W.good
    <3>1. done \in Seq(G) /\ d \in G
      BY <1>1, <2>1
    <3> HIDE DEF G
    <3>2. more \in Seq(G)
      BY <3>1
    <3> QED BY <3>2 DEF G
  <2> HIDE DEF more
  <2>7. new = [done |-> more, open |-> e, steps |-> e, article |-> article]
    BY <1>1, <2>1, <2>2
  <2>8. (BlocksOf(more) \o e) \o e \in Spanning(seq, W.left, n)
    <3> DEFINE bs == BlocksOf(done)
               cs == bs \o open
    <3>1. bs \in Seq(Block)
      BY <1>1
    <3> HIDE DEF bs
    <3>2. cs \in Seq(Block)
      BY <1>1, <3>1
    <3> HIDE DEF cs
    <3>3. cs \o e = cs
      BY <3>2, ConcatNothing
    <3>4. BlocksOf(more) = cs
      BY <2>5 DEF cs, bs
    <3>5. cs \o steps \in Spanning(seq, W.left, n)
      BY <1>1 DEF cs, bs
    <3> HIDE DEF e
    <3> QED BY <2>1, <3>3, <3>4, <3>5
  <2> HIDE DEF new
  <2>9. new \in Making(seq, W, n)
        /\ new.open = e /\ new.steps = e /\ new.article = article
    BY <1>1, <2>3, <2>6, <2>7, <2>8, MadeOf
  <2> QED BY <2>1, <2>9 DEF new, steps, article
<1> QED BY <1>2, <1>3

\* The steps of a procedure are closed.
LEMMA FlushStepsMakes ==
  ASSUME NEW seq, NEW W, NEW n, Kinds(W), NEW acc \in Making(seq, W, n),
         acc.steps # <<>> => Drafted(acc.steps, "manual_procedure", <<>>) \in W.good
  PROVE  LET new == FlushSteps(acc)
         IN  /\ new \in Making(seq, W, n) /\ new.open = acc.open /\ new.steps = <<>>
             /\ new.article = acc.article
<1> DEFINE done == acc.done
           open == acc.open
           steps == acc.steps
           article == acc.article
           d == Drafted(steps, "manual_procedure", <<>>)
           new == FlushSteps(acc)
           more == Append(done, d)
           e == <<>>
<1>1. /\ done \in Seq(W.good) /\ open \in W.open /\ steps \in W.steps
      /\ done \in Seq(Draft) /\ open \in Seq(Block) /\ steps \in Seq(Block)
      /\ article \in Title /\ BlocksOf(done) \in Seq(Block)
      /\ acc = [done |-> done, open |-> open, steps |-> steps, article |-> article]
      /\ open = e \/ steps = e
      /\ (BlocksOf(done) \o open) \o steps \in Spanning(seq, W.left, n)
  BY MadeParts
<1>2. CASE steps = e
  BY <1>2 DEF FlushSteps
<1>3. CASE steps # e
  <2>1. open = e /\ d \in W.good
    BY <1>1, <1>3
  <2>2. new = [acc EXCEPT !.done = more, !.steps = e]
    BY <1>3 DEF FlushSteps
  <2>3. d \in Draft /\ e \in W.open /\ e \in W.steps
    BY <2>1 DEF Kinds
  <2>4. d.blocks = steps
    BY DEF Drafted
  <2> HIDE DEF d, done, open, steps, article
  <2>5. BlocksOf(more) = BlocksOf(done) \o steps
    BY <1>1, <2>3, <2>4, BlocksAppend
  <2>6. more \in Seq(W.good)
    <3> DEFINE G == W.good
    <3>1. done \in Seq(G) /\ d \in G
      BY <1>1, <2>1
    <3> HIDE DEF G
    <3>2. more \in Seq(G)
      BY <3>1
    <3> QED BY <3>2 DEF G
  <2> HIDE DEF more
  <2>7. new = [done |-> more, open |-> e, steps |-> e, article |-> article]
    BY <1>1, <2>1, <2>2
  <2>8. (BlocksOf(more) \o e) \o e \in Spanning(seq, W.left, n)
    <3> DEFINE bs == BlocksOf(done)
               cs == bs \o steps
    <3>1. bs \in Seq(Block)
      BY <1>1
    <3> HIDE DEF bs
    <3>2. cs \in Seq(Block) /\ bs \o e = bs
      BY <1>1, <3>1, ConcatNothing
    <3> HIDE DEF cs
    <3>3. cs \o e = cs
      BY <3>2, ConcatNothing
    <3>4. BlocksOf(more) = cs
      BY <2>5 DEF cs, bs
    <3>5. (bs \o open) \o steps \in Spanning(seq, W.left, n)
      BY <1>1 DEF bs
    <3> HIDE DEF e
    <3>6. (bs \o e) \o steps = cs
      BY <3>2 DEF cs
    <3> QED BY <2>1, <3>3, <3>4, <3>5, <3>6
  <2> HIDE DEF new
  <2>9. new \in Making(seq, W, n)
        /\ new.open = e /\ new.steps = e /\ new.article = article
    BY <1>1, <2>3, <2>6, <2>7, <2>8, MadeOf
  <2> QED BY <2>1, <2>9 DEF new, open, article
<1> QED BY <1>2, <1>3

\* The block that a walk has come to
Coming(seq, n, b) == seq \in Seq(Block) /\ Rising(seq) /\ n \in 1..Len(seq) /\ b = seq[n]
NothingOpen(acc) == acc.open = <<>>
NoSteps(acc) == acc.steps = <<>>

\* A block that is left out
LEMMA SkipMakes ==
  ASSUME NEW seq, NEW W, NEW n, NEW b, Coming(seq, n, b), NEW acc \in Making(seq, W, n - 1),
         b \in W.left
  PROVE  acc \in Making(seq, W, n)
<1>1. n - 1 \in Nat /\ (n - 1) + 1 = n /\ seq[n] \in W.left
  BY DEF Coming
<1>2. \A s \in Spanning(seq, W.left, n - 1) : s \in Spanning(seq, W.left, n)
  BY <1>1, OverWider
<1> QED BY <1>2 DEF Making

\* A block that is a child of its own
LEMMA AloneMakes ==
  ASSUME NEW seq, NEW W, NEW n, NEW b, Kinds(W), Coming(seq, n, b),
         NEW acc \in Making(seq, W, n - 1), NothingOpen(acc), NoSteps(acc),
         NEW type, Drafted(<<b>>, type, acc.article) \in W.good
  PROVE  Alone(acc, b, type) \in Making(seq, W, n)
<1> DEFINE done == acc.done
           article == acc.article
           one == <<b>>
           d == Drafted(one, type, article)
           new == Alone(acc, b, type)
           more == Append(done, d)
           e == <<>>
<1>1. /\ done \in Seq(W.good) /\ done \in Seq(Draft) /\ article \in Title
      /\ BlocksOf(done) \in Seq(Block)
      /\ acc = [done |-> done, open |-> e, steps |-> e, article |-> article]
      /\ (BlocksOf(done) \o e) \o e \in Spanning(seq, W.left, n - 1)
  <2> DEFINE open == acc.open
             steps == acc.steps
  <2>1. /\ done \in Seq(W.good) /\ done \in Seq(Draft) /\ article \in Title
        /\ BlocksOf(done) \in Seq(Block)
        /\ acc = [done |-> done, open |-> open, steps |-> steps, article |-> article]
        /\ (BlocksOf(done) \o open) \o steps \in Spanning(seq, W.left, n - 1)
    BY MadeParts
  <2>2. open = e /\ steps = e
    BY DEF NothingOpen, NoSteps
  <2> HIDE DEF open, steps, e, done, article
  <2> QED BY <2>1, <2>2
<1>2. d \in W.good /\ d \in Draft /\ e \in W.open /\ e \in W.steps /\ d.blocks = one
  BY DEF Kinds, Drafted
<1>3. new = [acc EXCEPT !.done = more]
  BY DEF Alone
<1>4. seq \in Seq(Block) /\ Rising(seq) /\ n \in 1..Len(seq) /\ b = seq[n] /\ b \in Block
  BY DEF Coming
<1>5. one \in Seq(Block)
  BY <1>4
<1> HIDE DEF d, done, article
<1>6. BlocksOf(more) = BlocksOf(done) \o one
  BY <1>1, <1>2, BlocksAppend
<1>7. more \in Seq(W.good)
  <2> DEFINE G == W.good
  <2>1. done \in Seq(G) /\ d \in G
    BY <1>1, <1>2
  <2> HIDE DEF G
  <2>2. more \in Seq(G)
    BY <2>1
  <2> QED BY <2>2 DEF G
<1> HIDE DEF more
<1>8. new = [done |-> more, open |-> e, steps |-> e, article |-> article]
  BY <1>1, <1>3
<1>9. (BlocksOf(more) \o e) \o e \in Spanning(seq, W.left, n)
  <2> DEFINE bs == BlocksOf(done)
             cs == Append(bs, b)
  <2>1. bs \in Seq(Block)
    BY <1>1
  <2> HIDE DEF bs
  <2>2. bs \o e = bs
    BY <2>1, ConcatNothing
  <2>3. bs \in Spanning(seq, W.left, n - 1)
    <3>1. (bs \o e) \o e \in Spanning(seq, W.left, n - 1)
      BY <1>1 DEF bs
    <3> HIDE DEF e
    <3> QED BY <2>2, <3>1
  <2>4. cs \in Spanning(seq, W.left, n)
    BY <1>4, <2>3, OverAppend
  <2>5. bs \o one = cs
    BY <1>4, <2>1, AppendConcat
  <2>6. cs \in Seq(Block)
    BY <2>4 DEF Spanning, Upto
  <2> HIDE DEF cs, one
  <2>7. cs \o e = cs
    BY <2>6, ConcatNothing
  <2>8. BlocksOf(more) = cs
    BY <1>6, <2>5 DEF bs
  <2> HIDE DEF e
  <2> QED BY <2>4, <2>7, <2>8
<1> HIDE DEF new
<1>10. new \in Making(seq, W, n)
  BY <1>1, <1>2, <1>7, <1>8, <1>9, MadeOf
<1> QED BY <1>10 DEF new

\* A block that goes to the open child
LEMMA TakeMakes ==
  ASSUME NEW seq, NEW W, NEW n, NEW b, Kinds(W), Coming(seq, n, b),
         NEW acc \in Making(seq, W, n - 1), NoSteps(acc), Append(acc.open, b) \in W.open
  PROVE  Take(acc, b) \in Making(seq, W, n)
<1> DEFINE done == acc.done
           open == acc.open
           article == acc.article
           new == Take(acc, b)
           more == Append(open, b)
           e == <<>>
<1>1. /\ done \in Seq(W.good) /\ done \in Seq(Draft) /\ article \in Title
      /\ BlocksOf(done) \in Seq(Block) /\ open \in Seq(Block)
      /\ acc = [done |-> done, open |-> open, steps |-> e, article |-> article]
      /\ (BlocksOf(done) \o open) \o e \in Spanning(seq, W.left, n - 1)
  <2> DEFINE steps == acc.steps
  <2>1. /\ done \in Seq(W.good) /\ done \in Seq(Draft) /\ article \in Title
        /\ BlocksOf(done) \in Seq(Block) /\ open \in Seq(Block)
        /\ acc = [done |-> done, open |-> open, steps |-> steps, article |-> article]
        /\ (BlocksOf(done) \o open) \o steps \in Spanning(seq, W.left, n - 1)
    BY MadeParts
  <2>2. steps = e
    BY DEF NoSteps
  <2> HIDE DEF open, steps, e, done, article
  <2> QED BY <2>1, <2>2
<1>2. more \in W.open /\ e \in W.steps
  BY DEF Kinds
<1>3. new = [acc EXCEPT !.open = more]
  BY DEF Take
<1>4. seq \in Seq(Block) /\ Rising(seq) /\ n \in 1..Len(seq) /\ b = seq[n] /\ b \in Block
  BY DEF Coming
<1> HIDE DEF done, open, article
<1>5. (BlocksOf(done) \o more) \o e \in Spanning(seq, W.left, n)
  <2> DEFINE bs == BlocksOf(done)
             cs == bs \o open
             ds == Append(cs, b)
  <2>1. bs \in Seq(Block)
    BY <1>1
  <2> HIDE DEF bs
  <2>2. cs \in Seq(Block) /\ bs \o more = ds
    BY <1>1, <1>4, <2>1, AppendConcat
  <2> HIDE DEF cs
  <2>3. cs \o e \in Spanning(seq, W.left, n - 1)
    BY <1>1 DEF cs, bs
  <2>4. cs \o e = cs
    BY <2>2, ConcatNothing
  <2>5. cs \in Spanning(seq, W.left, n - 1)
    <3> HIDE DEF e
    <3> QED BY <2>3, <2>4
  <2>6. ds \in Spanning(seq, W.left, n)
    BY <1>4, <2>5, OverAppend
  <2>7. ds \in Seq(Block)
    BY <2>6 DEF Spanning, Upto
  <2> HIDE DEF ds
  <2>8. ds \o e = ds
    BY <2>7, ConcatNothing
  <2> HIDE DEF e, more
  <2> QED BY <2>2, <2>6, <2>8 DEF bs
<1> HIDE DEF more
<1>6. new = [done |-> done, open |-> more, steps |-> e, article |-> article]
  BY <1>1, <1>3
<1> HIDE DEF new
<1>7. new \in Making(seq, W, n)
  BY <1>1, <1>2, <1>5, <1>6, MadeOf
<1> QED BY <1>7 DEF new

\* A block that goes to the procedure
LEMMA StepMakes ==
  ASSUME NEW seq, NEW W, NEW n, NEW b, Kinds(W), Coming(seq, n, b),
         NEW acc \in Making(seq, W, n - 1), NothingOpen(acc), Append(acc.steps, b) \in W.steps
  PROVE  [acc EXCEPT !.steps = Append(@, b)] \in Making(seq, W, n)
<1> DEFINE done == acc.done
           steps == acc.steps
           article == acc.article
           new == [acc EXCEPT !.steps = Append(@, b)]
           more == Append(steps, b)
           e == <<>>
<1>1. /\ done \in Seq(W.good) /\ done \in Seq(Draft) /\ article \in Title
      /\ BlocksOf(done) \in Seq(Block) /\ steps \in Seq(Block)
      /\ acc = [done |-> done, open |-> e, steps |-> steps, article |-> article]
      /\ (BlocksOf(done) \o e) \o steps \in Spanning(seq, W.left, n - 1)
  <2> DEFINE open == acc.open
  <2>1. /\ done \in Seq(W.good) /\ done \in Seq(Draft) /\ article \in Title
        /\ BlocksOf(done) \in Seq(Block) /\ steps \in Seq(Block)
        /\ acc = [done |-> done, open |-> open, steps |-> steps, article |-> article]
        /\ (BlocksOf(done) \o open) \o steps \in Spanning(seq, W.left, n - 1)
    BY MadeParts
  <2>2. open = e
    BY DEF NothingOpen
  <2> HIDE DEF open, steps, e, done, article
  <2> QED BY <2>1, <2>2
<1>2. more \in W.steps /\ e \in W.open
  BY DEF Kinds
<1>3. new = [acc EXCEPT !.steps = more]
  OBVIOUS
<1>4. seq \in Seq(Block) /\ Rising(seq) /\ n \in 1..Len(seq) /\ b = seq[n] /\ b \in Block
  BY DEF Coming
<1> HIDE DEF done, steps, article
<1>5. (BlocksOf(done) \o e) \o more \in Spanning(seq, W.left, n)
  <2> DEFINE bs == BlocksOf(done)
             cs == bs \o e
             ds == Append(cs \o steps, b)
  <2>1. bs \in Seq(Block)
    BY <1>1
  <2> HIDE DEF bs
  <2>2. cs \in Seq(Block)
    BY <2>1
  <2> HIDE DEF cs
  <2>3. cs \o more = ds
    BY <1>1, <1>4, <2>2, AppendConcat
  <2>4. cs \o steps \in Spanning(seq, W.left, n - 1)
    BY <1>1 DEF cs, bs
  <2>5. ds \in Spanning(seq, W.left, n)
    BY <1>4, <2>4, OverAppend
  <2> HIDE DEF ds, more
  <2> QED BY <2>3, <2>5 DEF cs, bs
<1> HIDE DEF more
<1>6. new = [done |-> done, open |-> e, steps |-> more, article |-> article]
  BY <1>1, <1>3
<1> HIDE DEF new
<1>7. new \in Making(seq, W, n)
  BY <1>1, <1>2, <1>5, <1>6, MadeOf
<1> QED BY <1>7 DEF new

\* The article is another one.
LEMMA NamedMakes ==
  ASSUME NEW seq, NEW W, NEW n, Kinds(W), NEW acc \in Making(seq, W, n), NEW title \in Title
  PROVE  LET new == [acc EXCEPT !.article = title]
         IN  /\ new \in Making(seq, W, n) /\ new.open = acc.open /\ new.steps = acc.steps
             /\ new.article = title
<1> DEFINE done == acc.done
           open == acc.open
           steps == acc.steps
           new == [acc EXCEPT !.article = title]
<1>1. /\ done \in Seq(W.good) /\ open \in W.open /\ steps \in W.steps
      /\ acc = [done |-> done, open |-> open, steps |-> steps, article |-> acc.article]
      /\ open = <<>> \/ steps = <<>>
      /\ (BlocksOf(done) \o open) \o steps \in Spanning(seq, W.left, n)
  BY MadeParts
<1> HIDE DEF done, open, steps
<1>2. new = [done |-> done, open |-> open, steps |-> steps, article |-> title]
  BY <1>1
<1> HIDE DEF new
<1>3. new \in Making(seq, W, n) /\ new.open = open /\ new.steps = steps /\ new.article = title
  BY <1>1, <1>2, MadeOf
<1> QED BY <1>3 DEF new, open, steps

\* The open child is given up.
LEMMA DropMakes ==
  ASSUME NEW seq, NEW W, NEW n, Kinds(W), NEW acc \in Making(seq, W, n), NoSteps(acc),
         ToSet(acc.open) \subseteq W.left
  PROVE  LET new == [acc EXCEPT !.open = <<>>]
         IN  /\ new \in Making(seq, W, n) /\ new.open = <<>> /\ new.steps = <<>>
             /\ new.article = acc.article
<1> DEFINE done == acc.done
           open == acc.open
           article == acc.article
           e == <<>>
           new == [acc EXCEPT !.open = e]
<1>1. /\ done \in Seq(W.good) /\ article \in Title
      /\ BlocksOf(done) \in Seq(Block) /\ open \in Seq(Block)
      /\ acc = [done |-> done, open |-> open, steps |-> e, article |-> article]
      /\ (BlocksOf(done) \o open) \o e \in Spanning(seq, W.left, n)
  <2> DEFINE steps == acc.steps
  <2>1. /\ done \in Seq(W.good) /\ article \in Title
        /\ BlocksOf(done) \in Seq(Block) /\ open \in Seq(Block)
        /\ acc = [done |-> done, open |-> open, steps |-> steps, article |-> article]
        /\ (BlocksOf(done) \o open) \o steps \in Spanning(seq, W.left, n)
    BY MadeParts
  <2>2. steps = e
    BY DEF NoSteps
  <2> HIDE DEF open, steps, e, done, article
  <2> QED BY <2>1, <2>2
<1>6. ToSet(open) \subseteq W.left
  OBVIOUS
<1> HIDE DEF done, open, article
<1>2. (BlocksOf(done) \o e) \o e \in Spanning(seq, W.left, n)
  <2> DEFINE bs == BlocksOf(done)
             cs == bs \o open
  <2>1. bs \in Seq(Block)
    BY <1>1
  <2> HIDE DEF bs
  <2>2. cs \in Seq(Block)
    BY <1>1, <2>1
  <2>3. Joined(cs, bs, open)
    BY DEF Joined
  <2> HIDE DEF cs
  <2>4. cs \o e = cs /\ bs \o e = bs
    BY <2>1, <2>2, ConcatNothing
  <2>5. cs \o e \in Spanning(seq, W.left, n)
    BY <1>1 DEF cs, bs
  <2>6. cs \in Spanning(seq, W.left, n)
    <3> HIDE DEF e
    <3> QED BY <2>4, <2>5
  <2>7. bs \in Spanning(seq, W.left, n)
    BY <1>1, <1>6, <2>1, <2>3, <2>6, OverFront
  <2> HIDE DEF e
  <2> QED BY <2>4, <2>7 DEF bs
<1>3. new = [done |-> done, open |-> e, steps |-> e, article |-> article]
  BY <1>1
<1> HIDE DEF new
<1>4. e \in W.open /\ e \in W.steps
  BY DEF Kinds
<1>5. new \in Making(seq, W, n) /\ new.open = e /\ new.steps = e /\ new.article = article
  BY <1>1, <1>2, <1>3, <1>4, MadeOf
<1> QED BY <1>5 DEF new, article, e

\* The open child may be closed with this type.
Closable(acc, W, type) == acc.open # <<>> => Drafted(acc.open, type, acc.article) \in W.good
\* A block may be a child of its own with this type.
Lone(acc, W, b, type) == Drafted(<<b>>, type, acc.article) \in W.good
\* The open child may take the block.
Roomy(acc, W, b) == Append(acc.open, b) \in W.open
\* A block may open a child.
Opens(W, b) == <<b>> \in W.open

\* The open child is closed.
LEMMA FlushedMakes ==
  ASSUME NEW seq, NEW W, NEW n, Kinds(W), NEW acc \in Making(seq, W, n), NEW type,
         Closable(acc, W, type)
  PROVE  /\ Flush(acc, type) \in Making(seq, W, n) /\ NothingOpen(Flush(acc, type))
         /\ Flush(acc, type).article = acc.article
         /\ NoSteps(acc) => NoSteps(Flush(acc, type))
<1>1. acc.open # <<>> => Drafted(acc.open, type, acc.article) \in W.good
  BY DEF Closable
<1>2. /\ Flush(acc, type) \in Making(seq, W, n) /\ Flush(acc, type).open = <<>>
      /\ Flush(acc, type).steps = acc.steps
      /\ Flush(acc, type).article = acc.article
  BY <1>1, FlushMakes
<1> QED BY <1>2 DEF NothingOpen, NoSteps

\* A block goes to a child that has room, and to a new one when there is none open.
LEMMA PutMakes ==
  ASSUME NEW seq, NEW W, NEW n, NEW b, Kinds(W), Coming(seq, n, b),
         NEW acc \in Making(seq, W, n - 1), NoSteps(acc), Roomy(acc, W, b)
  PROVE  Take(acc, b) \in Making(seq, W, n)
<1>1. Append(acc.open, b) \in W.open
  BY DEF Roomy
<1> QED BY <1>1, TakeMakes
\* A block opens a child where nothing is open.
LEMMA FreshMakes ==
  ASSUME NEW seq, NEW W, NEW n, NEW b, Kinds(W), Coming(seq, n, b),
         NEW acc \in Making(seq, W, n - 1), NoSteps(acc), NothingOpen(acc), Opens(W, b)
  PROVE  Take(acc, b) \in Making(seq, W, n)
<1>1. Append(<<>>, b) = <<b>>
  OBVIOUS
<1>2. Roomy(acc, W, b)
  BY <1>1 DEF Roomy, Opens, NothingOpen
<1> QED BY <1>2, PutMakes

\* The open child is closed before the block is one of its own.
LEMMA ApartMakes ==
  ASSUME NEW seq, NEW W, NEW n, NEW b, Kinds(W), Coming(seq, n, b),
         NEW acc \in Making(seq, W, n - 1), NoSteps(acc), NothingOpen(acc), NEW type,
         Lone(acc, W, b, type)
  PROVE  Alone(acc, b, type) \in Making(seq, W, n)
<1>1. Drafted(<<b>>, type, acc.article) \in W.good
  BY DEF Lone
<1> QED BY <1>1, AloneMakes

\* The block goes to the open child, or to a new one when that is full.
LEMMA FillMakes ==
  ASSUME NEW seq, NEW W, NEW n, NEW b, Kinds(W), Coming(seq, n, b),
         NEW acc \in Making(seq, W, n - 1), NoSteps(acc), NEW type,
         Closable(acc, W, type), Opens(W, b), ~Overflows(acc, b) => Roomy(acc, W, b)
  PROVE  Fill(acc, b, type) \in Making(seq, W, n)
<1>1. CASE Overflows(acc, b)
  <2>1. Fill(acc, b, type) = Take(Flush(acc, type), b)
    BY <1>1 DEF Fill
  <2> DEFINE m == n - 1
             closed == Flush(acc, type)
  <2>2. acc \in Making(seq, W, m)
    OBVIOUS
  <2> HIDE DEF m
  <2>3. closed \in Making(seq, W, m) /\ NothingOpen(closed) /\ NoSteps(closed)
    BY <2>2, FlushedMakes
  <2> HIDE DEF closed
  <2>4. closed \in Making(seq, W, n - 1)
    BY <2>3 DEF m
  <2>5. Take(closed, b) \in Making(seq, W, n)
    BY <2>3, <2>4, FreshMakes
  <2> QED BY <2>1, <2>5 DEF closed
<1>2. CASE ~Overflows(acc, b)
  <2>1. Fill(acc, b, type) = Take(acc, b)
    BY <1>2 DEF Fill
  <2>2. Take(acc, b) \in Making(seq, W, n)
    BY <1>2, PutMakes
  <2> QED BY <2>1, <2>2
<1> QED BY <1>1, <1>2

-----------------------------------------------------------------------------
(* Their length *)

\* The tokens of blocks
LEMMA TokensAppend ==
  ASSUME NEW bs \in Seq(Block), NEW b \in Block
  PROVE  Tokens(bs) \in Nat /\ Tokens(Append(bs, b)) = Tokens(bs) + b.size
<1> DEFINE V == Nat
           h == [x \in Block |-> [k \in V |-> k + x.size]]
           base == 0
           f(s) == [n \in DOMAIN s |-> h[s[n]]]
           more == Append(bs, b)
           U == [V -> V]
<1>1. h \in [Block -> U]
  <2>1. \A x \in Block : x.size \in Nat
    BY DEF Block
  <2>2. ASSUME NEW x \in Block PROVE [k \in V |-> k + x.size] \in U
    <3>1. \A k \in V : k + x.size \in V
      BY <2>1
    <3> QED BY <3>1
  <2> QED BY <2>2
<1>2. \A s \in Seq(Block) : Tokens(s) = Folded(base, f(s))
  <2>1. ASSUME NEW s \in Seq(Block)
        PROVE [n \in DOMAIN s |-> [acc \in Nat |-> acc + s[n].size]] = f(s)
    <3>1. \A k \in DOMAIN s : s[k] \in Block
      OBVIOUS
    <3> QED BY <3>1
  <2> QED BY <2>1 DEF Tokens, Walk
<1>3. f(bs) \in Seq(U) /\ f(more) = Append(f(bs), h[b])
  <2> HIDE DEF U, h
  <2> QED BY <1>1, MapAppend
<1>4. h[b] \in U /\ \A k \in V : h[b][k] = k + b.size
  BY <1>1
<1>5. base \in V
  OBVIOUS
<1>6. Tokens(bs) = Folded(base, f(bs)) /\ Tokens(more) = Folded(base, f(more))
  <2>1. more \in Seq(Block)
    OBVIOUS
  <2> HIDE DEF f, more
  <2> QED BY <1>2, <2>1
<1> DEFINE steps == f(bs)
           step == h[b]
<1>7. steps \in Seq([V -> V]) /\ step \in [V -> V] /\ f(more) = Append(steps, step)
  BY <1>3, <1>4
<1>8. Tokens(bs) = Folded(base, steps) /\ Tokens(more) = Folded(base, Append(steps, step))
  BY <1>6, <1>7
<1> HIDE DEF steps, step, V, base, more
<1>9. Folded(base, steps) \in V /\ Folded(base, Append(steps, step)) = step[Folded(base, steps)]
  BY <1>5, <1>7, FoldedAppend
<1>10. \A k \in V : step[k] = k + b.size
  BY <1>4 DEF step
<1>11. Tokens(bs) \in V /\ Tokens(more) = Tokens(bs) + b.size
  BY <1>8, <1>9, <1>10
<1> QED BY <1>11 DEF V, more

\* A part of a child is no longer than the child.
LEMMA TokensFront ==
  ASSUME NEW bs \in Seq(Block), NEW k \in 0..Len(bs)
  PROVE  Tokens(SubSeq(bs, 1, k)) <= Tokens(bs)
<1> DEFINE B == Block
           P == {s \in Seq(B) : \A j \in 0..Len(s) : Tokens(SubSeq(s, 1, j)) <= Tokens(s)}
<1>1. \A s \in Seq(B) : Tokens(s) \in Nat
  <2>1. \E b : b \in Block
    <3> DEFINE b == [id |-> 0, page |-> 0, order |-> 0, type |-> "paragraph", line |-> "blank",
                     title |-> <<>>, path |-> <<>>, size |-> 0, band |-> 0, wide |-> FALSE,
                     sheet |-> <<>>, text |-> <<>>]
    <3>1. b \in Block
      BY DEF Block, BlockType, Line, Title
    <3> QED BY <3>1
  <2> QED BY <2>1, TokensAppend
<1>2. <<>> \in P
  <2>1. \A j \in 0..Len(<<>>) : SubSeq(<<>>, 1, j) = <<>>
    OBVIOUS
  <2>2. <<>> \in Seq(B)
    OBVIOUS
  <2>3. Tokens(<<>>) \in Nat
    BY <1>1, <2>2
  <2>4. ASSUME NEW j \in 0..Len(<<>>) PROVE Tokens(SubSeq(<<>>, 1, j)) <= Tokens(<<>>)
    <3>1. Tokens(SubSeq(<<>>, 1, j)) = Tokens(<<>>)
      BY <2>1
    <3> DEFINE x == Tokens(SubSeq(<<>>, 1, j))
               y == Tokens(<<>>)
    <3>2. x = y /\ y \in Nat
      BY <2>3, <3>1
    <3> HIDE DEF x, y
    <3>3. x <= y
      BY <3>2
    <3> QED BY <3>3 DEF x, y
  <2> QED BY <2>2, <2>4
<1>3. ASSUME NEW s \in Seq(B), NEW x \in B, s \in P PROVE Append(s, x) \in P
  <2> DEFINE t == Append(s, x)
  <2>1. t \in Seq(B) /\ Len(t) = Len(s) + 1 /\ Len(s) \in Nat
    OBVIOUS
  <2>2. Tokens(s) \in Nat /\ Tokens(t) = Tokens(s) + x.size /\ x.size \in Nat
    <3>1. x.size \in Nat
      BY DEF Block
    <3>2. s \in Seq(Block) /\ x \in Block
      OBVIOUS
    <3> QED BY <3>1, <3>2, TokensAppend
  <2>3. ASSUME NEW j \in 0..Len(t) PROVE Tokens(SubSeq(t, 1, j)) <= Tokens(t)
    <3>1. CASE j \in 0..Len(s)
      <4>1. SubSeq(t, 1, j) = SubSeq(s, 1, j) /\ SubSeq(s, 1, j) \in Seq(B)
        <5> HIDE DEF B
        <5> QED BY <3>1, FrontOfAppend
      <4>2. Tokens(SubSeq(s, 1, j)) <= Tokens(s)
        BY <1>3, <3>1
      <4>3. Tokens(SubSeq(s, 1, j)) \in Nat
        BY <1>1, <4>1
      <4> DEFINE u == Tokens(SubSeq(s, 1, j))
                 v == Tokens(s)
                 w == Tokens(t)
                 z == x.size
      <4>4. u <= v /\ u \in Nat /\ v \in Nat /\ z \in Nat /\ w = v + z
        BY <2>2, <4>2, <4>3
      <4> HIDE DEF u, v, w, z
      <4>5. u <= w
        BY <4>4
      <4> QED BY <4>1, <4>5 DEF u, w
    <3>2. CASE j = Len(t)
      <4>1. SubSeq(t, 1, j) = t
        BY <2>1, <3>2
      <4> DEFINE w == Tokens(t)
      <4>2. w \in Nat /\ Tokens(SubSeq(t, 1, j)) = w
        BY <1>1, <2>1, <4>1
      <4> HIDE DEF w
      <4>3. w <= w
        BY <4>2
      <4> QED BY <4>2, <4>3 DEF w
    <3> QED BY <2>1, <3>1, <3>2
  <2> QED BY <2>1, <2>3
<1>4. Seq(B) \subseteq P
  <2> HIDE DEF P, B
  <2> QED BY <1>2, <1>3, SeqInduction
<1> QED BY <1>4

-----------------------------------------------------------------------------
(* What may be in a child *)

NoMedia(bs) == \A k \in 1..Len(bs) : ~Media(bs[k])
Fits(bs) == Len(bs) <= 1 \/ Tokens(bs) <= MaxTokens
\* A block that makes the child too long is a clause, and so are those behind it.
Clausal(bs) == \A k \in 2..Len(bs) : Tokens(SubSeq(bs, 1, k)) > MaxTokens => Clause(bs[k])
Plains == {bs \in Seq(Block) : NoMedia(bs)}
Snugs == {bs \in Seq(Block) : NoMedia(bs) /\ Fits(bs)}
RowsOf == {bs \in Seq(Block) : Fits(bs)}
Articles == {bs \in Seq(Block) : NoMedia(bs) /\ Clausal(bs)}

\* The child is no longer than it may be, or there is a reason.
Reasoned(d, title) ==
    \/ Len(d.blocks) = 1 \/ Tokens(d.blocks) <= MaxTokens
    \/ d.type \in {"qa_pair", "manual_procedure", "paper_abstract", "paper_references"}
    \/ d.type = "paper_text" /\ Collected(title)
    \/ /\ d.type \in {"legal_article", "contract_clause"}
       /\ TooLongAt(d.blocks) > 1
            => \A k \in TooLongAt(d.blocks)..Len(d.blocks) : Clause(d.blocks[k])
\* A table, figure or caption is alone.
Separate(d) ==
    (\E b \in ToSet(d.blocks) : Media(b)) =>
        Len(d.blocks) = 1 \/ d.type \in {"qa_pair", "table_row_group"}
Goods(title) == {d \in Draft : d.blocks # <<>> /\ Reasoned(d, title) /\ Separate(d)}

\* One more block that is no table, figure or caption
LEMMA PutNoMedia ==
  ASSUME NEW bs \in Seq(Block), NEW b \in Block, NoMedia(bs), ~Media(b)
  PROVE  NoMedia(Append(bs, b)) /\ Append(bs, b) \in Seq(Block)
<1> DEFINE t == Append(bs, b)
           n == Len(bs)
<1>1. /\ t \in Seq(Block) /\ Len(t) = n + 1 /\ n \in Nat /\ t[n + 1] = b
      /\ \A k \in 1..n : t[k] = bs[k]
  OBVIOUS
<1> HIDE DEF t
<1>2. ASSUME NEW k \in 1..Len(t) PROVE ~Media(t[k])
  <2>1. CASE k \in 1..n
    BY <1>1, <2>1 DEF NoMedia
  <2>2. CASE k = n + 1
    BY <1>1, <2>2
  <2> QED BY <1>1, <2>1, <2>2
<1>3. NoMedia(t)
  BY <1>2 DEF NoMedia
<1> QED BY <1>1, <1>3 DEF t

\* A block that the open child has room for
LEMMA PutFits ==
  ASSUME NEW acc \in Children, NEW b \in Block, ~Overflows(acc, b)
  PROVE  Fits(Append(acc.open, b))
<1> DEFINE open == acc.open
<1>1. open \in Seq(Block) /\ b.size \in Nat
  BY DEF Children, Block
<1>2. open = <<>> \/ Tokens(open) + b.size <= MaxTokens
  <2>1. Tokens(open) \in Nat
    BY <1>1, TokensAppend
  <2> QED BY <1>1, <2>1, ChunkerSizes DEF Overflows
<1> HIDE DEF open
<1>3. Tokens(Append(open, b)) = Tokens(open) + b.size
  BY <1>1, TokensAppend
<1>4. CASE open = <<>>
  <2>1. Len(Append(open, b)) = 1
    BY <1>4
  <2> QED BY <2>1 DEF Fits, open
<1>5. CASE Tokens(open) + b.size <= MaxTokens
  BY <1>3, <1>5 DEF Fits, open
<1> QED BY <1>2, <1>4, <1>5

\* One block
LEMMA OneFits ==
  ASSUME NEW b \in Block
  PROVE  <<b>> \in Seq(Block) /\ Fits(<<b>>) /\ Clausal(<<b>>) /\ (~Media(b) => NoMedia(<<b>>))
<1>1. <<b>> \in Seq(Block) /\ Len(<<b>>) = 1 /\ \A k \in 1..Len(<<b>>) : <<b>>[k] = b
  OBVIOUS
<1>2. Fits(<<b>>)
  BY <1>1 DEF Fits
<1>3. Clausal(<<b>>)
  BY <1>1 DEF Clausal
<1>4. ~Media(b) => NoMedia(<<b>>)
  BY <1>1 DEF NoMedia
<1> QED BY <1>1, <1>2, <1>3, <1>4

\* Nothing
LEMMA NothingFits == <<>> \in Plains /\ <<>> \in Snugs /\ <<>> \in RowsOf /\ <<>> \in Articles
<1>1. <<>> \in Seq(Block) /\ Len(<<>>) = 0
  OBVIOUS
<1>2. NoMedia(<<>>) /\ Fits(<<>>) /\ Clausal(<<>>)
  BY <1>1 DEF NoMedia, Fits, Clausal
<1> QED BY <1>1, <1>2 DEF Plains, Snugs, RowsOf, Articles

\* A clause may follow, and any other block that there is room for.
LEMMA PutClausal ==
  ASSUME NEW acc \in Children, NEW b \in Block, Clausal(acc.open), Clause(b) \/ ~Overflows(acc, b)
  PROVE  Clausal(Append(acc.open, b))
<1> DEFINE open == acc.open
           t == Append(open, b)
           m == Len(open)
<1>1. open \in Seq(Block) /\ b.size \in Nat
  BY DEF Children, Block
<1>2. Tokens(open) \in Nat /\ Tokens(t) = Tokens(open) + b.size
  BY <1>1, TokensAppend
<1>3. ASSUME open # <<>>, ~Clause(b) PROVE Tokens(t) <= MaxTokens
  BY <1>1, <1>2, <1>3, ChunkerSizes DEF Overflows
<1> HIDE DEF open
<1>4. t \in Seq(Block) /\ Len(t) = m + 1 /\ m \in Nat /\ t[m + 1] = b /\ \A k \in 1..m : t[k] = open[k]
  BY <1>1
<1>5. ASSUME NEW k \in 2..Len(t), Tokens(SubSeq(t, 1, k)) > MaxTokens PROVE Clause(t[k])
  <2>1. CASE k \in 2..m
    <3>1. SubSeq(t, 1, k) = SubSeq(open, 1, k)
      <4>1. k \in 0..Len(open)
        BY <1>4, <2>1
      <4> QED BY <1>1, <4>1, FrontOfAppend
    <3>2. Clause(open[k])
      BY <1>5, <2>1, <3>1 DEF Clausal, open
    <3>3. k \in 1..m
      BY <2>1
    <3> QED BY <1>4, <3>2, <3>3
  <2>2. CASE k = m + 1
    <3>1. SubSeq(t, 1, k) = t
      BY <1>4, <2>2
    <3>2. open # <<>>
      BY <1>4, <1>5, <2>2
    <3>3. Clause(b)
      <4> DEFINE w == Tokens(t)
                 u == Tokens(open)
                 z == b.size
      <4>1. w > MaxTokens
        BY <1>5, <3>1
      <4>2. u \in Nat /\ z \in Nat /\ w = u + z
        BY <1>1, <1>2
      <4>3. ~Clause(b) => w <= MaxTokens
        BY <1>3, <3>2
      <4> HIDE DEF u, w, z
      <4> QED BY <4>1, <4>2, <4>3, ChunkerSizes
    <3> QED BY <1>4, <2>2, <3>3
  <2> QED BY <1>4, <2>1, <2>2
<1>6. Clausal(t)
  <2> HIDE DEF t
  <2> QED BY <1>5 DEF Clausal
<1> QED BY <1>6 DEF open

\* A draft has what it is made from.
LEMMA DraftedType ==
  ASSUME NEW bs \in Seq(Block), NEW type \in ChunkType, NEW article \in Title
  PROVE  LET d == Drafted(bs, type, article)
         IN  d \in Draft /\ d.blocks = bs /\ d.type = type /\ d.article = article
  BY DEF Drafted, Draft

\* Nothing of it is a table, figure or caption.
LEMMA SeparateDraft ==
  ASSUME NEW bs \in Seq(Block), NEW d, d.blocks = bs, NoMedia(bs)
  PROVE  Separate(d)
<1>1. \A b \in ToSet(bs) : \E k \in 1..Len(bs) : b = bs[k]
  BY DEF ToSet
<1>2. \A b \in ToSet(bs) : ~Media(b)
  BY <1>1 DEF NoMedia
<1> QED BY <1>2 DEF Separate

\* A child of one block
LEMMA OneGood ==
  ASSUME NEW b \in Block, NEW type \in ChunkType, NEW article \in Title, NEW title
  PROVE  Drafted(<<b>>, type, article) \in Goods(title)
<1> DEFINE d == Drafted(<<b>>, type, article)
<1>1. <<b>> \in Seq(Block) /\ <<b>> # <<>> /\ Len(<<b>>) = 1
  OBVIOUS
<1>2. d \in Draft /\ d.blocks = <<b>>
  <2> DEFINE bs == <<b>>
  <2>1. bs \in Seq(Block)
    BY <1>1
  <2> HIDE DEF bs
  <2>2. Drafted(bs, type, article) \in Draft /\ Drafted(bs, type, article).blocks = bs
    BY <2>1, DraftedType
  <2> QED BY <2>2 DEF bs
<1> HIDE DEF d
<1>3. Len(d.blocks) = 1 /\ d.blocks # <<>>
  BY <1>1, <1>2
<1>4. Reasoned(d, title) /\ Separate(d)
  BY <1>3 DEF Reasoned, Separate
<1>5. d \in Goods(title)
  BY <1>2, <1>3, <1>4 DEF Goods
<1> QED BY <1>5 DEF d

\* A child of blocks that fit
LEMMA SnugGood ==
  ASSUME NEW bs \in Snugs, bs # <<>>, NEW type \in ChunkType, NEW article \in Title, NEW title
  PROVE  Drafted(bs, type, article) \in Goods(title)
<1> DEFINE d == Drafted(bs, type, article)
<1>1. bs \in Seq(Block) /\ NoMedia(bs) /\ Fits(bs)
  BY DEF Snugs
<1>2. d \in Draft /\ d.blocks = bs
  BY <1>1, DraftedType
<1> HIDE DEF d
<1>3. Separate(d)
  BY <1>1, <1>2, SeparateDraft
<1>4. Len(bs) = 1 \/ Tokens(bs) <= MaxTokens
  <2> DEFINE n == Len(bs)
  <2>1. n # 0 /\ n \in Nat
    BY <1>1
  <2>2. n <= 1 \/ Tokens(bs) <= MaxTokens
    BY <1>1 DEF Fits
  <2>3. CASE n <= 1
    <3> HIDE DEF n
    <3>1. n = 1
      BY <2>1, <2>3
    <3> QED BY <3>1 DEF n
  <2> QED BY <2>2, <2>3
<1>5. Reasoned(d, title)
  BY <1>2, <1>4 DEF Reasoned
<1>6. d \in Goods(title)
  BY <1>2, <1>3, <1>5 DEF Goods
<1> QED BY <1>6 DEF d

\* A procedure, and what is collected
LEMMA PlainGood ==
  ASSUME NEW bs \in Plains, bs # <<>>, NEW type \in ChunkType, NEW article \in Title, NEW title,
         \/ type \in {"qa_pair", "manual_procedure", "paper_abstract", "paper_references"}
         \/ type = "paper_text" /\ Collected(title)
  PROVE  Drafted(bs, type, article) \in Goods(title)
<1> DEFINE d == Drafted(bs, type, article)
<1>1. bs \in Seq(Block) /\ NoMedia(bs)
  BY DEF Plains
<1>2. d \in Draft /\ d.blocks = bs /\ d.type = type
  BY <1>1, DraftedType
<1> HIDE DEF d
<1>3. Separate(d)
  BY <1>1, <1>2, SeparateDraft
<1>4. Reasoned(d, title)
  BY <1>2 DEF Reasoned
<1>5. d \in Goods(title)
  BY <1>2, <1>3, <1>4 DEF Goods
<1> QED BY <1>5 DEF d

\* Rows that fit
LEMMA RowsGood ==
  ASSUME NEW bs \in RowsOf, bs # <<>>, NEW article \in Title, NEW title
  PROVE  Drafted(bs, "table_row_group", article) \in Goods(title)
<1> DEFINE d == Drafted(bs, "table_row_group", article)
<1>1. bs \in Seq(Block) /\ Fits(bs)
  BY DEF RowsOf
<1>2. d \in Draft /\ d.blocks = bs /\ d.type = "table_row_group"
  <2>1. "table_row_group" \in ChunkType
    BY DEF ChunkType
  <2> QED BY <1>1, <2>1, DraftedType
<1> HIDE DEF d
<1>3. Separate(d)
  BY <1>2 DEF Separate
<1>4. Len(bs) = 1 \/ Tokens(bs) <= MaxTokens
  <2> DEFINE n == Len(bs)
  <2>1. n # 0 /\ n \in Nat
    BY <1>1
  <2>2. n <= 1 \/ Tokens(bs) <= MaxTokens
    BY <1>1 DEF Fits
  <2>3. CASE n <= 1
    <3> HIDE DEF n
    <3>1. n = 1
      BY <2>1, <2>3
    <3> QED BY <3>1 DEF n
  <2> QED BY <2>2, <2>3
<1>5. Reasoned(d, title)
  BY <1>2, <1>4 DEF Reasoned
<1>6. d \in Goods(title)
  BY <1>2, <1>3, <1>5 DEF Goods
<1> QED BY <1>6 DEF d

\* A question with its answer
LEMMA AnswerGood ==
  ASSUME NEW bs \in Seq(Block), bs # <<>>, NEW article \in Title, NEW title
  PROVE  Drafted(bs, "qa_pair", article) \in Goods(title)
<1> DEFINE d == Drafted(bs, "qa_pair", article)
<1>1. d \in Draft /\ d.blocks = bs /\ d.type = "qa_pair"
  <2>1. "qa_pair" \in ChunkType
    BY DEF ChunkType
  <2> QED BY <2>1, DraftedType
<1> HIDE DEF d
<1>2. Separate(d) /\ Reasoned(d, title)
  BY <1>1 DEF Separate, Reasoned
<1>3. d \in Goods(title)
  BY <1>1, <1>2 DEF Goods
<1> QED BY <1>3 DEF d

\* The article whose clauses make it too long
LEMMA ArticleGood ==
  ASSUME NEW bs \in Articles, bs # <<>>, NEW type \in {"legal_article", "contract_clause"},
         NEW article \in Title, NEW title
  PROVE  Drafted(bs, type, article) \in Goods(title)
<1> DEFINE d == Drafted(bs, type, article)
           S == {n \in DOMAIN bs : Tokens(SubSeq(bs, 1, n)) > MaxTokens}
           m == TooLongAt(bs)
           N == Len(bs)
<1>1. bs \in Seq(Block) /\ NoMedia(bs) /\ Clausal(bs)
  BY DEF Articles
<1>2. d \in Draft /\ d.blocks = bs /\ d.type = type
  <2>1. type \in ChunkType
    BY DEF ChunkType
  <2> QED BY <1>1, <2>1, DraftedType
<1> HIDE DEF d
<1>3. Separate(d)
  BY <1>1, <1>2, SeparateDraft
<1>4. N \in Nat /\ N # 0 /\ DOMAIN bs = 1..N /\ SubSeq(bs, 1, N) = bs
  BY <1>1
<1>5. ASSUME ~(Tokens(bs) <= MaxTokens), m > 1, NEW k \in m..N PROVE Clause(bs[k])
  <2>1. Tokens(bs) \in Nat /\ \A j \in 1..N : Tokens(SubSeq(bs, 1, j)) \in Nat
    <3>1. \A s \in Seq(Block) : Tokens(s) \in Nat
      <4>1. bs[1] \in Block
        BY <1>1, <1>4
      <4> QED BY <4>1, TokensAppend
    <3>2. \A j \in 1..N : SubSeq(bs, 1, j) \in Seq(Block)
      BY <1>1, <1>4
    <3> QED BY <1>1, <3>1, <3>2
  <2>2. N \in S
    <3> DEFINE w == Tokens(bs)
    <3>1. w \in Nat /\ ~(w <= MaxTokens)
      BY <1>5, <2>1
    <3>2. Tokens(SubSeq(bs, 1, N)) = w
      BY <1>4
    <3> HIDE DEF w
    <3>3. w > MaxTokens
      BY <3>1, ChunkerSizes
    <3> QED BY <1>4, <3>2, <3>3
  <2>3. m = Min(S)
    BY DEF TooLongAt
  <2>4. S \subseteq 1..N
    BY <1>4
  <2>5. m \in S
    <3> HIDE DEF S
    <3>1. S \subseteq Nat
      BY <2>4
    <3> QED BY <2>2, <2>3, <3>1, LeastOf
  <2>6. m \in 1..N /\ Tokens(SubSeq(bs, 1, m)) > MaxTokens
    BY <2>4, <2>5
  <2> HIDE DEF m, S
  <2>7. k \in 2..N /\ m \in 1..k /\ k \in 0..N /\ m \in 0..k
    BY <1>4, <1>5, <2>6
  <2>8. Tokens(SubSeq(bs, 1, m)) <= Tokens(SubSeq(bs, 1, k))
    <3> DEFINE t == SubSeq(bs, 1, k)
    <3>1. SubSeq(t, 1, m) = SubSeq(bs, 1, m) /\ t \in Seq(Block) /\ Len(t) = k
      <4>1. k \in 0..Len(bs)
        BY <2>7
      <4> QED BY <1>1, <2>7, <4>1, FrontOfFront
    <3> HIDE DEF t
    <3>2. m \in 0..Len(t)
      BY <2>7, <3>1
    <3>3. Tokens(SubSeq(t, 1, m)) <= Tokens(t)
      BY <3>1, <3>2, TokensFront
    <3> QED BY <3>1, <3>3 DEF t
  <2>9. Tokens(SubSeq(bs, 1, k)) > MaxTokens
    <3> DEFINE u == Tokens(SubSeq(bs, 1, m))
               v == Tokens(SubSeq(bs, 1, k))
    <3>1. u \in Nat /\ v \in Nat /\ u <= v /\ u > MaxTokens
      BY <2>1, <2>6, <2>7, <2>8
    <3> HIDE DEF u, v
    <3>2. v > MaxTokens
      BY <3>1, ChunkerSizes
    <3> QED BY <3>2 DEF v
  <2>10. k \in 2..Len(bs)
    BY <2>7
  <2> QED BY <1>1, <2>9, <2>10 DEF Clausal
<1> HIDE DEF S, m, N
<1>6. Reasoned(d, title)
  <2>1. Tokens(bs) <= MaxTokens \/ (m > 1 => \A k \in m..N : Clause(bs[k]))
    BY <1>5
  <2> QED BY <1>2, <2>1 DEF Reasoned, m, N
<1>7. d \in Goods(title)
  BY <1>2, <1>3, <1>6 DEF Goods
<1> QED BY <1>7 DEF d

\* What a template makes: children of a parent with this title, that leave out blocks of L
Makes(O, S, L, title) == [good |-> Goods(title), open |-> O, steps |-> S, left |-> L]
Allowed(W, O, S, title) ==
    /\ W.good = Goods(title) /\ W.open = O /\ W.steps = S
    /\ O \subseteq Seq(Block) /\ S \subseteq Seq(Block)
    /\ <<>> \in O /\ <<>> \in S

\* What a template makes, by its parts
LEMMA AllowedKinds ==
  ASSUME NEW W, NEW O, NEW S, NEW title, Allowed(W, O, S, title)
  PROVE  Kinds(W) /\ W.good = Goods(title) /\ W.open = O /\ W.steps = S
<1>1. W.good = Goods(title) /\ W.open = O /\ W.steps = S
  BY DEF Allowed
<1>2. Goods(title) \subseteq Draft
  BY DEF Goods
<1> QED BY <1>1, <1>2 DEF Allowed, Kinds

\* A template that has no procedures
LEMMA NeverSteps ==
  ASSUME NEW W, NEW O, NEW title, Allowed(W, O, {<<>>}, title), NEW seq, NEW n,
         NEW acc \in Making(seq, W, n)
  PROVE  NoSteps(acc)
<1>1. acc.steps \in W.steps
  BY DEF Making
<1>2. W.steps = {<<>>}
  BY AllowedKinds
<1> QED BY <1>1, <1>2 DEF NoSteps

\* The open child and the article have their types.
LEMMA MakingParts ==
  ASSUME NEW W, NEW O, NEW S, NEW title, Allowed(W, O, S, title), NEW seq, NEW n,
         NEW acc \in Making(seq, W, n)
  PROVE  acc.open \in O /\ acc.open \in Seq(Block) /\ acc.article \in Title /\ acc \in Children
         /\ acc.steps \in S /\ acc.steps \in Seq(Block)
<1>1. Kinds(W) /\ W.open = O /\ W.steps = S
  BY AllowedKinds
<1>2. acc.open \in W.open /\ acc.open \in Seq(Block) /\ acc.article \in Title /\ acc \in Children
      /\ acc.steps \in W.steps /\ acc.steps \in Seq(Block)
  BY <1>1, MadeParts
<1> QED BY <1>1, <1>2

\* The block that a walk has come to is one.
LEMMA ComingBlock ==
  ASSUME NEW seq, NEW n, NEW b, Coming(seq, n, b)
  PROVE  b \in Block /\ b.type \in BlockType /\ b.title \in Title
<1>1. b \in Block
  BY DEF Coming
<1> QED BY <1>1 DEF Block

\* A block may be a child of its own whatever the type.
LEMMA LoneGood ==
  ASSUME NEW W, NEW O, NEW S, NEW title, Allowed(W, O, S, title), NEW seq, NEW n, NEW m,
         NEW acc \in Making(seq, W, m), NEW b, Coming(seq, n, b), NEW type \in ChunkType
  PROVE  Lone(acc, W, b, type)
<1>1. b \in Block /\ acc.article \in Title
  BY ComingBlock, MakingParts
<1>2. W.good = Goods(title)
  BY AllowedKinds
<1>3. Drafted(<<b>>, type, acc.article) \in Goods(title)
  BY <1>1, OneGood
<1> QED BY <1>2, <1>3 DEF Lone

\* The open child of a template that may close it with this type
LEMMA ClosedAlone ==
  ASSUME NEW W, NEW O, NEW S, NEW title, Allowed(W, O, S, title), NEW seq, NEW n, NEW b,
         Coming(seq, n, b), NEW acc \in Making(seq, W, n - 1), NoSteps(acc),
         NEW type, Closable(acc, W, type), NEW alone \in ChunkType
  PROVE  Alone(Flush(acc, type), b, alone) \in Making(seq, W, n)
<1> DEFINE m == n - 1
           closed == Flush(acc, type)
<1>1. Kinds(W)
  BY AllowedKinds
<1>2. acc \in Making(seq, W, m)
  OBVIOUS
<1> HIDE DEF m
<1>3. closed \in Making(seq, W, m) /\ NothingOpen(closed) /\ NoSteps(closed)
  BY <1>1, <1>2, FlushedMakes
<1> HIDE DEF closed
<1>4. Lone(closed, W, b, alone)
  BY <1>3, LoneGood
<1>5. closed \in Making(seq, W, n - 1)
  BY <1>3 DEF m
<1>6. Alone(closed, b, alone) \in Making(seq, W, n)
  BY <1>1, <1>3, <1>4, <1>5, ApartMakes
<1> QED BY <1>6 DEF closed

\* Blocks that fit may be closed, and take what there is room for.
LEMMA SnugCloses ==
  ASSUME NEW W, NEW S, NEW title, Allowed(W, Snugs, S, title), NEW seq, NEW n,
         NEW acc \in Making(seq, W, n), NEW type \in ChunkType
  PROVE  Closable(acc, W, type)
<1>1. acc.open \in Snugs /\ acc.article \in Title
  BY MakingParts
<1>2. W.good = Goods(title)
  BY AllowedKinds
<1> DEFINE open == acc.open
           article == acc.article
<1>3. ASSUME open # <<>> PROVE Drafted(open, type, article) \in Goods(title)
  <2>1. open \in Snugs /\ article \in Title
    BY <1>1
  <2> HIDE DEF open, article
  <2> QED BY <1>3, <2>1, SnugGood
<1> QED BY <1>2, <1>3 DEF Closable
\* Where children have to fit, a block opens one, and the open one takes it if it does not overflow.
LEMMA SnugRoom ==
  ASSUME NEW W, NEW S, NEW title, Allowed(W, Snugs, S, title), NEW seq, NEW n, NEW m, NEW b,
         Coming(seq, n, b), NEW acc \in Making(seq, W, m), ~Media(b)
  PROVE  Opens(W, b) /\ (~Overflows(acc, b) => Roomy(acc, W, b))
<1>1. b \in Block /\ acc.open \in Snugs /\ acc \in Children /\ acc.open \in Seq(Block)
  BY ComingBlock, MakingParts
<1>2. W.open = Snugs
  BY AllowedKinds
<1>3. <<b>> \in Snugs
  <2>1. <<b>> \in Seq(Block) /\ Fits(<<b>>) /\ NoMedia(<<b>>)
    BY <1>1, OneFits
  <2> QED BY <2>1 DEF Snugs
<1>4. ASSUME ~Overflows(acc, b) PROVE Append(acc.open, b) \in Snugs
  <2>1. Fits(Append(acc.open, b))
    BY <1>1, <1>4, PutFits
  <2>2. NoMedia(acc.open)
    BY <1>1 DEF Snugs
  <2> DEFINE open == acc.open
  <2>3. open \in Seq(Block) /\ NoMedia(open)
    BY <1>1, <2>2
  <2> HIDE DEF open
  <2>4. NoMedia(Append(open, b)) /\ Append(open, b) \in Seq(Block)
    BY <1>1, <2>3, PutNoMedia
  <2> QED BY <2>1, <2>4 DEF Snugs, open
<1> QED BY <1>2, <1>3, <1>4 DEF Opens, Roomy

\* A step of a template whose children fit
LEMMA SnugMakes ==
  ASSUME NEW W, NEW S, NEW title, Allowed(W, Snugs, S, title), NEW seq, NEW n, NEW b,
         Coming(seq, n, b), NEW acc \in Making(seq, W, n - 1), NoSteps(acc),
         NEW type \in ChunkType, NEW alone \in ChunkType
  PROVE  /\ Alone(Flush(acc, type), b, alone) \in Making(seq, W, n)
         /\ ~Media(b) => Fill(acc, b, type) \in Making(seq, W, n)
<1> DEFINE m == n - 1
<1>1. acc \in Making(seq, W, m)
  OBVIOUS
<1> HIDE DEF m
<1>2. Kinds(W)
  BY AllowedKinds
<1>3. Closable(acc, W, type)
  BY <1>1, SnugCloses
<1>4. Alone(Flush(acc, type), b, alone) \in Making(seq, W, n)
  BY <1>3, ClosedAlone
<1>5. ASSUME ~Media(b) PROVE Fill(acc, b, type) \in Making(seq, W, n)
  <2>1. Opens(W, b) /\ (~Overflows(acc, b) => Roomy(acc, W, b))
    BY <1>1, <1>5, SnugRoom
  <2> QED BY <1>2, <1>3, <2>1, FillMakes
<1> QED BY <1>4, <1>5

\* The types of children are types of a chunk.
LEMMA ChunkTypes ==
  /\ BlockType \subseteq ChunkType
  /\ {"text", "list", "manual_text", "manual_procedure", "manual_callout",
      "manual_troubleshooting_table", "qa_pair", "book_section", "paper_text", "paper_abstract",
      "paper_references", "legal_article", "contract_clause", "table_row_group", "ocr_text",
      "image_context"} \subseteq ChunkType
  BY DEF ChunkType

\* infer_chunk_type
LEMMA TypeOfBlocksType ==
  ASSUME NEW bs \in Seq(Block)
  PROVE  TypeOfBlocks(bs) \in ChunkType
<1>1. CASE Len(bs) = 1 /\ Media(bs[1])
  <2>1. bs[1] \in Block
    BY <1>1
  <2>2. bs[1].type \in BlockType
    BY <2>1 DEF Block
  <2> QED BY <1>1, <2>2, ChunkTypes DEF TypeOfBlocks
<1>2. CASE ~(Len(bs) = 1 /\ Media(bs[1]))
  <2>1. "list" \in ChunkType /\ "text" \in ChunkType
    BY ChunkTypes
  <2> QED BY <1>2, <2>1 DEF TypeOfBlocks
<1> QED BY <1>1, <1>2

\* One step of each template, whatever the walk has made so far: the general one
LEMMA GenericMakes ==
  ASSUME NEW W, NEW title, Allowed(W, Snugs, {<<>>}, title), NEW seq, NEW n, NEW b,
         Coming(seq, n, b), NEW acc \in Making(seq, W, n - 1)
  PROVE  GenericStep(acc, b) \in Making(seq, W, n)
<1> DEFINE m == n - 1
           type == TypeOfBlocks(acc.open)
<1>1. acc \in Making(seq, W, m)
  OBVIOUS
<1> HIDE DEF m
<1>2. NoSteps(acc) /\ acc.open \in Seq(Block)
  BY <1>1, NeverSteps, MakingParts
<1>3. type \in ChunkType /\ b.type \in ChunkType
  BY <1>2, TypeOfBlocksType, ComingBlock, ChunkTypes
<1>4. GenericStep(acc, b) = IF Media(b) THEN Alone(Flush(acc, type), b, b.type) ELSE Fill(acc, b, type)
  BY DEF GenericStep, Fill
<1> HIDE DEF type
<1>5. /\ Alone(Flush(acc, type), b, b.type) \in Making(seq, W, n)
      /\ ~Media(b) => Fill(acc, b, type) \in Making(seq, W, n)
  BY <1>2, <1>3, SnugMakes
<1> QED BY <1>4, <1>5

\* The step of scanned pages
LEMMA PageMakes ==
  ASSUME NEW W, NEW title, Allowed(W, Snugs, {<<>>}, title), NEW seq, NEW n, NEW b,
         Coming(seq, n, b), NEW acc \in Making(seq, W, n - 1)
  PROVE  PageStep(acc, b) \in Making(seq, W, n)
<1> DEFINE m == n - 1
<1>1. acc \in Making(seq, W, m)
  OBVIOUS
<1> HIDE DEF m
<1>2. NoSteps(acc)
  BY <1>1, NeverSteps
<1>3. "ocr_text" \in ChunkType /\ "image_context" \in ChunkType
  BY ChunkTypes
<1>4. /\ Alone(Flush(acc, "ocr_text"), b, "image_context") \in Making(seq, W, n)
      /\ ~Media(b) => Fill(acc, b, "ocr_text") \in Making(seq, W, n)
  BY <1>2, <1>3, SnugMakes
<1> QED BY <1>4 DEF PageStep

\* The step of the book
LEMMA BookMakes ==
  ASSUME NEW W, NEW title, Allowed(W, Snugs, {<<>>}, title), NEW seq, NEW n, NEW b,
         Coming(seq, n, b), NEW acc \in Making(seq, W, n - 1)
  PROVE  BookStep(acc, b) \in Making(seq, W, n)
<1> DEFINE m == n - 1
           type == "book_section"
           closed == Flush(acc, type)
<1>1. acc \in Making(seq, W, m) /\ Kinds(W)
  BY AllowedKinds
<1> HIDE DEF m
<1>2. NoSteps(acc)
  BY <1>1, NeverSteps
<1>3. type \in ChunkType /\ b.type \in ChunkType
  BY ComingBlock, ChunkTypes
<1>4. BookStep(acc, b) = IF Media(b) THEN Alone(Flush(acc, type), b, b.type)
                         ELSE IF IsHeading(b) THEN Fill(closed, b, type) ELSE Fill(acc, b, type)
  BY DEF BookStep
<1> HIDE DEF type
<1>5. /\ Alone(Flush(acc, type), b, b.type) \in Making(seq, W, n)
      /\ ~Media(b) => Fill(acc, b, type) \in Making(seq, W, n)
  BY <1>2, <1>3, SnugMakes
<1>6. closed \in Making(seq, W, n - 1) /\ NoSteps(closed)
  <2>1. Closable(acc, W, type)
    BY <1>1, <1>3, SnugCloses
  <2>2. closed \in Making(seq, W, m) /\ NoSteps(closed)
    BY <1>1, <1>2, <2>1, FlushedMakes
  <2> QED BY <2>2 DEF m
<1> HIDE DEF closed
<1>7. ~Media(b) => Fill(closed, b, type) \in Making(seq, W, n)
  BY <1>3, <1>6, SnugMakes
<1> QED BY <1>4, <1>5, <1>7

\* The procedure of a manual is closed.
LEMMA StepsClosed ==
  ASSUME NEW W, NEW title, Allowed(W, Snugs, Plains, title), NEW seq, NEW n,
         NEW acc \in Making(seq, W, n)
  PROVE  FlushSteps(acc) \in Making(seq, W, n) /\ NoSteps(FlushSteps(acc))
<1>1. Kinds(W) /\ W.good = Goods(title)
  BY AllowedKinds
<1>2. acc.steps \in Plains
  BY MakingParts
<1> DEFINE bs == acc.steps
           e == <<>>
<1>3. ASSUME bs # <<>> PROVE Drafted(bs, "manual_procedure", e) \in Goods(title)
  <2>1. bs \in Plains /\ "manual_procedure" \in ChunkType /\ e \in Title
    BY <1>2, ChunkTypes DEF Title
  <2> HIDE DEF bs, e
  <2> QED BY <1>3, <2>1, PlainGood
<1>4. FlushSteps(acc) \in Making(seq, W, n) /\ FlushSteps(acc).steps = <<>>
  BY <1>1, <1>3, FlushStepsMakes
<1> QED BY <1>4 DEF NoSteps

\* The step of the manual
LEMMA ManualMakes ==
  ASSUME NEW W, NEW title, Allowed(W, Snugs, Plains, title), NEW seq, NEW n, NEW b,
         Coming(seq, n, b), NEW acc \in Making(seq, W, n - 1)
  PROVE  ManualStep(acc, b) \in Making(seq, W, n)
<1> DEFINE m == n - 1
           type == "manual_text"
           half == Flush(acc, type)
           closed == FlushSteps(half)
           kept == FlushSteps(acc)
           alone == IF Troubleshooting(b) THEN "manual_troubleshooting_table" ELSE b.type
           more == [half EXCEPT !.steps = Append(@, b)]
<1>1. acc \in Making(seq, W, m) /\ Kinds(W) /\ W.steps = Plains
  BY AllowedKinds
<1>2. type \in ChunkType /\ b.type \in ChunkType /\ alone \in ChunkType /\ "manual_callout" \in ChunkType
  BY ComingBlock, ChunkTypes
<1>3. ManualStep(acc, b) = IF Media(b) THEN Alone(closed, b, alone)
                           ELSE IF b.line = "callout" THEN Alone(closed, b, "manual_callout")
                           ELSE IF Procedure(b) THEN more
                           ELSE Fill(kept, b, type)
  BY DEF ManualStep
<1> HIDE DEF m, type, alone
<1>4. half \in Making(seq, W, m) /\ NothingOpen(half)
  <2>1. Closable(acc, W, type)
    BY <1>1, <1>2, SnugCloses
  <2> QED BY <1>1, <2>1, FlushedMakes
<1> HIDE DEF half
<1>5. closed \in Making(seq, W, m) /\ NoSteps(closed) /\ NothingOpen(closed)
  <2>1. closed \in Making(seq, W, m) /\ NoSteps(closed)
    BY <1>4, StepsClosed
  <2>2. NothingOpen(closed)
    BY <1>4 DEF NothingOpen, FlushSteps
  <2> QED BY <2>1, <2>2
<1>6. kept \in Making(seq, W, m) /\ NoSteps(kept)
  BY <1>1, StepsClosed
<1> HIDE DEF closed, kept
<1>7. Alone(closed, b, alone) \in Making(seq, W, n)
      /\ Alone(closed, b, "manual_callout") \in Making(seq, W, n)
  <2>1. Lone(closed, W, b, alone) /\ Lone(closed, W, b, "manual_callout")
    BY <1>2, <1>5, LoneGood
  <2>2. closed \in Making(seq, W, n - 1)
    BY <1>5 DEF m
  <2> QED BY <1>1, <1>5, <2>1, <2>2, ApartMakes
<1>8. ~Media(b) => Fill(kept, b, type) \in Making(seq, W, n)
  <2>1. kept \in Making(seq, W, n - 1)
    BY <1>6 DEF m
  <2> QED BY <1>2, <1>6, <2>1, SnugMakes
<1>9. ~Media(b) => more \in Making(seq, W, n)
  <2>1. half.steps \in Plains /\ half.steps \in Seq(Block) /\ b \in Block
    BY <1>4, MakingParts, ComingBlock
  <2> DEFINE steps == half.steps
  <2>2. steps \in Seq(Block) /\ NoMedia(steps)
    BY <2>1 DEF Plains
  <2> HIDE DEF steps
  <2>3. ~Media(b) => Append(steps, b) \in Plains
    BY <2>1, <2>2, PutNoMedia DEF Plains
  <2>4. ~Media(b) => Append(half.steps, b) \in W.steps
    BY <1>1, <2>3 DEF steps
  <2>5. half \in Making(seq, W, n - 1)
    BY <1>4 DEF m
  <2> QED BY <1>1, <1>4, <2>4, <2>5, StepMakes
<1> HIDE DEF more
<1> QED BY <1>3, <1>7, <1>8, <1>9

\* The step of the paper in its abstract and its references
LEMMA CollectedMakes ==
  ASSUME NEW W, NEW title, Collected(title), Allowed(W, Plains, {<<>>}, title), NEW seq, NEW n,
         NEW b, Coming(seq, n, b), NEW acc \in Making(seq, W, n - 1)
  PROVE  PaperStep(acc, b, title) \in Making(seq, W, n)
<1> DEFINE m == n - 1
           type == "paper_text"
           open == acc.open
           article == acc.article
<1>1. acc \in Making(seq, W, m) /\ Kinds(W) /\ W.good = Goods(title) /\ W.open = Plains
  BY AllowedKinds
<1> HIDE DEF m
<1>2. NoSteps(acc) /\ open \in Plains /\ article \in Title /\ open \in Seq(Block) /\ b \in Block
  BY <1>1, NeverSteps, MakingParts, ComingBlock
<1>3. type \in ChunkType /\ b.type \in ChunkType
  BY ComingBlock, ChunkTypes
<1>4. Closable(acc, W, type)
  <2>1. ASSUME open # <<>> PROVE Drafted(open, type, article) \in Goods(title)
    <3> HIDE DEF open, article
    <3> QED BY <1>2, <1>3, <2>1, PlainGood
  <2> QED BY <1>1, <2>1 DEF Closable
<1>5. PaperStep(acc, b, title) = IF Media(b) THEN Alone(Flush(acc, type), b, b.type) ELSE Take(acc, b)
  BY DEF PaperStep
<1> HIDE DEF type
<1>6. Alone(Flush(acc, type), b, b.type) \in Making(seq, W, n)
  BY <1>2, <1>3, <1>4, ClosedAlone
<1>7. ~Media(b) => Roomy(acc, W, b)
  <2>1. ~Media(b) => Append(open, b) \in Plains
    <3> HIDE DEF open
    <3> QED BY <1>2, PutNoMedia DEF Plains
  <2> QED BY <1>1, <2>1 DEF Roomy
<1>8. ~Media(b) => Take(acc, b) \in Making(seq, W, n)
  BY <1>1, <1>2, <1>7, PutMakes
<1> QED BY <1>5, <1>6, <1>8

\* The step of the paper elsewhere
LEMMA PaperMakes ==
  ASSUME NEW W, NEW title, ~Collected(title), Allowed(W, Snugs, {<<>>}, title), NEW seq, NEW n,
         NEW b, Coming(seq, n, b), NEW acc \in Making(seq, W, n - 1)
  PROVE  PaperStep(acc, b, title) \in Making(seq, W, n)
<1> DEFINE m == n - 1
           type == "paper_text"
<1>1. acc \in Making(seq, W, m)
  OBVIOUS
<1> HIDE DEF m
<1>2. NoSteps(acc)
  BY <1>1, NeverSteps
<1>3. type \in ChunkType /\ b.type \in ChunkType
  BY ComingBlock, ChunkTypes
<1>4. PaperStep(acc, b, title) =
          IF Media(b) THEN Alone(Flush(acc, type), b, b.type) ELSE Fill(acc, b, type)
  BY DEF PaperStep
<1> HIDE DEF type
<1>5. /\ Alone(Flush(acc, type), b, b.type) \in Making(seq, W, n)
      /\ ~Media(b) => Fill(acc, b, type) \in Making(seq, W, n)
  BY <1>2, <1>3, SnugMakes
<1> QED BY <1>4, <1>5

\* Rows that fit may be closed.
LEMMA RowsClose ==
  ASSUME NEW W, NEW title, Allowed(W, RowsOf, {<<>>}, title), NEW seq, NEW n,
         NEW acc \in Making(seq, W, n)
  PROVE  Closable(acc, W, "table_row_group")
<1> DEFINE open == acc.open
           article == acc.article
<1>1. W.good = Goods(title) /\ open \in RowsOf /\ article \in Title
  BY AllowedKinds, MakingParts
<1>2. ASSUME open # <<>> PROVE Drafted(open, "table_row_group", article) \in Goods(title)
  <2> HIDE DEF open, article
  <2> QED BY <1>1, <1>2, RowsGood
<1> QED BY <1>1, <1>2 DEF Closable

\* The step of the table
LEMMA RowMakes ==
  ASSUME NEW W, NEW title, Allowed(W, RowsOf, {<<>>}, title), NEW seq, NEW n, NEW b,
         Coming(seq, n, b), NEW acc \in Making(seq, W, n - 1)
  PROVE  RowStep(acc, b) \in Making(seq, W, n)
<1> DEFINE m == n - 1
           type == "table_row_group"
           open == acc.open
<1>1. acc \in Making(seq, W, m) /\ Kinds(W) /\ W.open = RowsOf
  BY AllowedKinds
<1> HIDE DEF m
<1>2. /\ NoSteps(acc) /\ acc \in Children /\ b \in Block /\ open \in Seq(Block)
      /\ Closable(acc, W, type)
  BY <1>1, NeverSteps, MakingParts, ComingBlock, RowsClose
<1>3. Opens(W, b)
  <2>1. <<b>> \in RowsOf
    BY <1>2, OneFits DEF RowsOf
  <2> QED BY <1>1, <2>1 DEF Opens
<1>4. ~Overflows(acc, b) => Roomy(acc, W, b)
  <2>1. ~Overflows(acc, b) => Fits(Append(open, b))
    BY <1>2, PutFits
  <2>2. Append(open, b) \in Seq(Block)
    <3> HIDE DEF open
    <3> QED BY <1>2
  <2> QED BY <1>1, <2>1, <2>2 DEF Roomy, RowsOf
<1> HIDE DEF type
<1>5. Fill(acc, b, type) \in Making(seq, W, n)
  BY <1>1, <1>2, <1>3, <1>4, FillMakes
<1> QED BY <1>5 DEF RowStep, type

\* A question with its answer may be closed.
LEMMA AnswerCloses ==
  ASSUME NEW W, NEW title, Allowed(W, Seq(Block), {<<>>}, title), NEW seq, NEW n,
         NEW acc \in Making(seq, W, n)
  PROVE  Closable(acc, W, "qa_pair")
<1> DEFINE open == acc.open
           article == acc.article
<1>1. W.good = Goods(title) /\ open \in Seq(Block) /\ article \in Title
  BY AllowedKinds, MakingParts
<1>2. ASSUME open # <<>> PROVE Drafted(open, "qa_pair", article) \in Goods(title)
  <2> HIDE DEF open, article
  <2> QED BY <1>1, <1>2, AnswerGood
<1> QED BY <1>1, <1>2 DEF Closable

\* The headings of a category of questions
Categories == {b \in Block : IsHeading(b) /\ b.line # "question"}
\* The step of questions and answers
LEMMA QAMakes ==
  ASSUME NEW W, NEW title, Allowed(W, Seq(Block), {<<>>}, title), NEW seq, NEW n, NEW b,
         Coming(seq, n, b), NEW acc \in Making(seq, W, n - 1), W.left = Categories
  PROVE  QAStep(acc, b) \in Making(seq, W, n)
<1> DEFINE m == n - 1
           closed == Flush(acc, "qa_pair")
           open == acc.open
           T == Seq(Block)
<1>1. acc \in Making(seq, W, m) /\ Kinds(W) /\ W.open = T
  BY AllowedKinds
<1> HIDE DEF m
<1>2. NoSteps(acc) /\ b \in Block /\ open \in T /\ Closable(acc, W, "qa_pair")
  BY <1>1, NeverSteps, MakingParts, ComingBlock, AnswerCloses
<1>3. Opens(W, b) /\ Roomy(acc, W, b)
  <2>1. <<b>> \in T
    BY <1>2
  <2>2. Append(open, b) \in T
    <3> HIDE DEF open
    <3> QED BY <1>2
  <2> HIDE DEF T
  <2> QED BY <1>1, <2>1, <2>2 DEF Opens, Roomy
<1> HIDE DEF T, open
<1>4. ASSUME IsHeading(b), b.line # "question" PROVE acc \in Making(seq, W, n)
  <2>1. b \in W.left
    BY <1>2, <1>4 DEF Categories
  <2> QED BY <2>1, SkipMakes
<1>5. Take(acc, b) \in Making(seq, W, n)
  BY <1>1, <1>2, <1>3, PutMakes
<1>6. Take(closed, b) \in Making(seq, W, n)
  <2>1. closed \in Making(seq, W, m) /\ NothingOpen(closed) /\ NoSteps(closed)
    BY <1>1, <1>2, FlushedMakes
  <2> HIDE DEF closed
  <2>2. closed \in Making(seq, W, n - 1)
    BY <2>1 DEF m
  <2> QED BY <1>1, <1>3, <2>1, <2>2, FreshMakes
<1> QED BY <1>4, <1>5, <1>6 DEF QAStep

-----------------------------------------------------------------------------
(* Articles *)

\* An article may be closed.
LEMMA ArticleCloses ==
  ASSUME NEW W, NEW title, Allowed(W, Articles, {<<>>}, title), NEW seq, NEW n,
         NEW acc \in Making(seq, W, n), NEW type \in {"legal_article", "contract_clause"}
  PROVE  Closable(acc, W, type)
<1> DEFINE open == acc.open
           article == acc.article
<1>1. W.good = Goods(title) /\ open \in Articles /\ article \in Title
  BY AllowedKinds, MakingParts
<1>2. ASSUME open # <<>> PROVE Drafted(open, type, article) \in Goods(title)
  <2> HIDE DEF open, article
  <2> QED BY <1>1, <1>2, ArticleGood
<1> QED BY <1>1, <1>2 DEF Closable

\* An article takes its clauses, and what it has room for.
LEMMA ArticleRoom ==
  ASSUME NEW W, NEW title, Allowed(W, Articles, {<<>>}, title), NEW seq, NEW n, NEW m, NEW b,
         Coming(seq, n, b), NEW acc \in Making(seq, W, m), ~Media(b)
  PROVE  Opens(W, b) /\ (Clause(b) \/ ~Overflows(acc, b) => Roomy(acc, W, b))
<1> DEFINE open == acc.open
<1>1. /\ b \in Block /\ open \in Articles /\ acc \in Children /\ open \in Seq(Block)
      /\ W.open = Articles
  BY ComingBlock, MakingParts, AllowedKinds
<1>2. <<b>> \in Articles
  BY <1>1, OneFits DEF Articles
<1>3. NoMedia(open) /\ Clausal(open)
  <2> HIDE DEF open
  <2> QED BY <1>1 DEF Articles
<1>4. ASSUME Clause(b) \/ ~Overflows(acc, b) PROVE Append(open, b) \in Articles
  <2>1. Clausal(Append(open, b))
    BY <1>1, <1>3, <1>4, PutClausal
  <2>2. NoMedia(Append(open, b)) /\ Append(open, b) \in Seq(Block)
    <3> HIDE DEF open
    <3> QED BY <1>1, <1>3, PutNoMedia
  <2> QED BY <2>1, <2>2 DEF Articles
<1> QED BY <1>1, <1>2, <1>4 DEF Opens, Roomy

\* A step that closes the open article
LEMMA ArticleClosed ==
  ASSUME NEW W, NEW title, Allowed(W, Articles, {<<>>}, title), NEW seq, NEW n,
         NEW acc \in Making(seq, W, n)
  PROVE  CloseArticle(acc) \in Making(seq, W, n) /\ NothingOpen(CloseArticle(acc))
<1> DEFINE half == Flush(acc, "legal_article")
           e == <<>>
           new == [half EXCEPT !.article = e]
<1>1. half \in Making(seq, W, n) /\ NothingOpen(half)
  <2>1. Closable(acc, W, "legal_article") /\ Kinds(W)
    BY ArticleCloses, AllowedKinds
  <2> QED BY <2>1, FlushedMakes
<1>2. CloseArticle(acc) = new
  BY DEF CloseArticle
<1>3. e \in Title
  BY DEF Title
<1> HIDE DEF half, e
<1>4. new \in Making(seq, W, n) /\ new.open = half.open
  <2>1. Kinds(W)
    BY AllowedKinds
  <2> QED BY <1>1, <1>3, <2>1, NamedMakes
<1> HIDE DEF new
<1> QED BY <1>1, <1>2, <1>4 DEF NothingOpen

\* The article of a walk, when a block names another one
LEMMA RenamedMakes ==
  ASSUME NEW W, NEW title, Allowed(W, Articles, {<<>>}, title), NEW seq, NEW n,
         NEW acc \in Making(seq, W, n), NEW article \in Title
  PROVE  [acc EXCEPT !.article = article] \in Making(seq, W, n)
<1>1. Kinds(W)
  BY AllowedKinds
<1> QED BY <1>1, NamedMakes

\* The step of the laws
LEMMA LawsMakes ==
  ASSUME NEW W, NEW title, Allowed(W, Articles, {<<>>}, title), NEW seq, NEW n, NEW b,
         Coming(seq, n, b), NEW acc \in Making(seq, W, n - 1)
  PROVE  LawsStep(acc, b) \in Making(seq, W, n)
<1> DEFINE m == n - 1
           before == IF ArticleLine(b) /\ acc.open # <<>> THEN CloseArticle(acc) ELSE acc
           named == IF ArticleLine(b) THEN [before EXCEPT !.article = b.title] ELSE before
           closed == CloseArticle(acc)
           later == CloseArticle(named)
<1>1. acc \in Making(seq, W, m) /\ Kinds(W) /\ b.title \in Title /\ b.type \in ChunkType
  BY AllowedKinds, ComingBlock, ChunkTypes
<1>2. LawsStep(acc, b) =
          IF Media(b) THEN Alone(closed, b, b.type)
          ELSE IF Overflows(named, b) /\ ~Clause(b) THEN Take(later, b) ELSE Take(named, b)
  BY DEF LawsStep
<1> HIDE DEF m
<1>3. closed \in Making(seq, W, m) /\ NothingOpen(closed)
  BY <1>1, ArticleClosed
<1>4. before \in Making(seq, W, m)
  BY <1>1, <1>3
<1> HIDE DEF before, closed
<1>5. named \in Making(seq, W, m)
  BY <1>1, <1>4, RenamedMakes
<1> HIDE DEF named
<1>6. later \in Making(seq, W, m) /\ NothingOpen(later)
  BY <1>5, ArticleClosed
<1> HIDE DEF later
<1>7. NoSteps(closed) /\ NoSteps(named) /\ NoSteps(later)
  BY <1>3, <1>5, <1>6, NeverSteps
<1>8. /\ closed \in Making(seq, W, n - 1) /\ named \in Making(seq, W, n - 1)
      /\ later \in Making(seq, W, n - 1)
  BY <1>3, <1>5, <1>6 DEF m
<1>9. Alone(closed, b, b.type) \in Making(seq, W, n)
  <2>1. Lone(closed, W, b, b.type)
    BY <1>1, <1>3, LoneGood
  <2> QED BY <1>1, <1>3, <1>7, <1>8, <2>1, ApartMakes
<1>10. ~Media(b) => Take(later, b) \in Making(seq, W, n)
  <2>1. ~Media(b) => Opens(W, b)
    BY <1>6, ArticleRoom
  <2> QED BY <1>1, <1>6, <1>7, <1>8, <2>1, FreshMakes
<1>11. ~Media(b) /\ ~(Overflows(named, b) /\ ~Clause(b)) => Take(named, b) \in Making(seq, W, n)
  <2>1. ~Media(b) /\ ~(Overflows(named, b) /\ ~Clause(b)) => Roomy(named, W, b)
    BY <1>5, ArticleRoom
  <2> QED BY <1>1, <1>7, <1>8, <2>1, PutMakes
<1> QED BY <1>2, <1>9, <1>10, <1>11

\* What a contract can do without: the furniture of its pages and headings without a text
Junk == {b \in Block : PageJunk(b)}
Bare == {b \in Block : PageJunk(b) \/ BareHeading(b)}
\* A child of nothing but headings is given up.
LEMMA ClauseClosed ==
  ASSUME NEW W, NEW title, Allowed(W, Articles, {<<>>}, title), NEW seq, NEW n,
         NEW acc \in Making(seq, W, n), W.left = Bare
  PROVE  FlushClause(acc) \in Making(seq, W, n) /\ NothingOpen(FlushClause(acc))
<1> DEFINE half == Flush(acc, "contract_clause")
           less == [acc EXCEPT !.open = <<>>]
<1>1. Kinds(W) /\ NoSteps(acc) /\ Closable(acc, W, "contract_clause")
  BY AllowedKinds, NeverSteps, ArticleCloses
<1>2. half \in Making(seq, W, n) /\ NothingOpen(half)
  BY <1>1, FlushedMakes
<1>3. ASSUME ~Substantive(acc.open) PROVE less \in Making(seq, W, n) /\ less.open = <<>>
  <2> DEFINE open == acc.open
  <2>1. open \in Seq(Block)
    BY MakingParts
  <2> HIDE DEF open
  <2>2. ToSet(open) \subseteq Block
    BY <2>1 DEF ToSet
  <2>3. ToSet(open) \subseteq Bare
    BY <1>3, <2>2 DEF Substantive, Bare, open
  <2>4. ToSet(acc.open) \subseteq W.left
    BY <2>3 DEF open
  <2> QED BY <1>1, <2>4, DropMakes
<1>4. FlushClause(acc) = half \/ (~Substantive(acc.open) /\ FlushClause(acc) = less)
  BY DEF FlushClause
<1> HIDE DEF half, less
<1> QED BY <1>2, <1>3, <1>4 DEF NothingOpen

\* A child that is kept whatever is in it
LEMMA KeptClosed ==
  ASSUME NEW W, NEW title, Allowed(W, Articles, {<<>>}, title), NEW seq, NEW n,
         NEW acc \in Making(seq, W, n)
  PROVE  Closed(acc) \in Making(seq, W, n) /\ NothingOpen(Closed(acc))
<1>1. Kinds(W) /\ Closable(acc, W, "contract_clause")
  BY AllowedKinds, ArticleCloses
<1> QED BY <1>1, FlushedMakes DEF Closed

\* A step of the contract, by the states in which a child is closed
LEMMA ClausesMake ==
  ASSUME NEW W, NEW title, Allowed(W, Articles, {<<>>}, title), NEW seq, NEW n, NEW b,
         Coming(seq, n, b), NEW acc \in Making(seq, W, n - 1), Junk \subseteq W.left,
         NEW closed \in Making(seq, W, n - 1), NothingOpen(closed),
         NEW named \in Making(seq, W, n - 1),
         NEW later \in Making(seq, W, n - 1), NothingOpen(later),
         NEW new, new = IF PageJunk(b) THEN acc
                        ELSE IF Media(b) THEN Alone(closed, b, b.type)
                        ELSE IF ContractChapter(b) /\ acc.open = <<>> THEN Take(acc, b)
                        ELSE IF Overflows(named, b) /\ ~Clause(b) THEN Take(later, b)
                        ELSE Take(named, b)
  PROVE  new \in Making(seq, W, n)
<1> DEFINE m == n - 1
           empty == acc.open = <<>>
<1>1. Kinds(W) /\ b.type \in ChunkType
  BY AllowedKinds, ComingBlock, ChunkTypes
<1>2. empty => NothingOpen(acc)
  BY DEF NothingOpen
<1>3. NoSteps(acc) /\ NoSteps(closed) /\ NoSteps(named) /\ NoSteps(later)
  <2>1. /\ acc \in Making(seq, W, m) /\ closed \in Making(seq, W, m)
        /\ named \in Making(seq, W, m) /\ later \in Making(seq, W, m)
    OBVIOUS
  <2> HIDE DEF m
  <2> QED BY <2>1, NeverSteps
<1>4. ASSUME PageJunk(b) PROVE acc \in Making(seq, W, n)
  <2>1. b \in W.left
    BY <1>4, ComingBlock DEF Junk
  <2> QED BY <2>1, SkipMakes
<1>5. Alone(closed, b, b.type) \in Making(seq, W, n)
  <2>1. closed \in Making(seq, W, m)
    OBVIOUS
  <2> HIDE DEF m
  <2>2. Lone(closed, W, b, b.type)
    BY <1>1, <2>1, LoneGood
  <2> QED BY <1>1, <1>3, <2>2, ApartMakes
<1>6. ~Media(b) => /\ Opens(W, b)
                   /\ ~(Overflows(named, b) /\ ~Clause(b)) => Roomy(named, W, b)
  <2>1. named \in Making(seq, W, m)
    OBVIOUS
  <2> HIDE DEF m
  <2> QED BY <2>1, ArticleRoom
<1>7. ~Media(b) /\ empty => Take(acc, b) \in Making(seq, W, n)
  <2> HIDE DEF empty
  <2> QED BY <1>1, <1>2, <1>3, <1>6, FreshMakes
<1>8. ~Media(b) => Take(later, b) \in Making(seq, W, n)
  BY <1>1, <1>3, <1>6, FreshMakes
<1>9. ~Media(b) /\ ~(Overflows(named, b) /\ ~Clause(b)) => Take(named, b) \in Making(seq, W, n)
  BY <1>1, <1>3, <1>6, PutMakes
<1> QED BY <1>4, <1>5, <1>7, <1>8, <1>9

\* The step of the contract
LEMMA ContractMakes ==
  ASSUME NEW W, NEW title, Allowed(W, Articles, {<<>>}, title), NEW seq, NEW n, NEW b,
         Coming(seq, n, b), NEW acc \in Making(seq, W, n - 1), W.left = Bare
  PROVE  ContractStep(acc, b) \in Making(seq, W, n)
<1> DEFINE m == n - 1
           starts == ContractArticle(b)
           before == IF starts THEN FlushClause(acc) ELSE acc
           named == IF starts THEN [before EXCEPT !.article = b.title] ELSE before
           closed == FlushClause(acc)
           later == FlushClause(named)
           new == ContractStep(acc, b)
<1>1. acc \in Making(seq, W, m) /\ b.title \in Title /\ Junk \subseteq W.left
  BY ComingBlock DEF Junk, Bare
<1>2. new = IF PageJunk(b) THEN acc
            ELSE IF Media(b) THEN Alone(closed, b, b.type)
            ELSE IF ContractChapter(b) /\ acc.open = <<>> THEN Take(acc, b)
            ELSE IF Overflows(named, b) /\ ~Clause(b) THEN Take(later, b) ELSE Take(named, b)
  BY DEF ContractStep, Clauses
<1> HIDE DEF m, starts, new
<1>3. closed \in Making(seq, W, m) /\ NothingOpen(closed)
  BY <1>1, ClauseClosed
<1>4. before \in Making(seq, W, m)
  BY <1>1, <1>3
<1> HIDE DEF before, closed
<1>5. named \in Making(seq, W, m)
  BY <1>1, <1>4, RenamedMakes
<1> HIDE DEF named
<1>6. later \in Making(seq, W, m) /\ NothingOpen(later)
  BY <1>5, ClauseClosed
<1> HIDE DEF later
<1>7. /\ closed \in Making(seq, W, n - 1) /\ named \in Making(seq, W, n - 1)
      /\ later \in Making(seq, W, n - 1)
  BY <1>3, <1>5, <1>6 DEF m
<1>8. new \in Making(seq, W, n)
  BY <1>1, <1>2, <1>3, <1>6, <1>7, ClausesMake
<1> QED BY <1>8 DEF new

\* The same step, but every child is kept that is closed
KeepStep(acc, b) == Clauses(Closed, acc, b)
\* It makes children of all blocks but page junk.
LEMMA KeepMakes ==
  ASSUME NEW W, NEW title, Allowed(W, Articles, {<<>>}, title), NEW seq, NEW n, NEW b,
         Coming(seq, n, b), NEW acc \in Making(seq, W, n - 1), W.left = Junk
  PROVE  KeepStep(acc, b) \in Making(seq, W, n)
<1> DEFINE m == n - 1
           starts == ContractArticle(b)
           before == IF starts THEN Closed(acc) ELSE acc
           named == IF starts THEN [before EXCEPT !.article = b.title] ELSE before
           closed == Closed(acc)
           later == Closed(named)
           new == KeepStep(acc, b)
<1>1. acc \in Making(seq, W, m) /\ b.title \in Title /\ Junk \subseteq W.left
  BY ComingBlock
<1>2. new = IF PageJunk(b) THEN acc
            ELSE IF Media(b) THEN Alone(closed, b, b.type)
            ELSE IF ContractChapter(b) /\ acc.open = <<>> THEN Take(acc, b)
            ELSE IF Overflows(named, b) /\ ~Clause(b) THEN Take(later, b) ELSE Take(named, b)
  BY DEF KeepStep, Clauses
<1> HIDE DEF m, starts, new
<1>3. closed \in Making(seq, W, m) /\ NothingOpen(closed)
  BY <1>1, KeptClosed
<1>4. before \in Making(seq, W, m)
  BY <1>1, <1>3
<1> HIDE DEF before, closed
<1>5. named \in Making(seq, W, m)
  BY <1>1, <1>4, RenamedMakes
<1> HIDE DEF named
<1>6. later \in Making(seq, W, m) /\ NothingOpen(later)
  BY <1>5, KeptClosed
<1> HIDE DEF later
<1>7. /\ closed \in Making(seq, W, n - 1) /\ named \in Making(seq, W, n - 1)
      /\ later \in Making(seq, W, n - 1)
  BY <1>3, <1>5, <1>6 DEF m
<1>8. new \in Making(seq, W, n)
  BY <1>1, <1>2, <1>3, <1>6, <1>7, ClausesMake
<1> QED BY <1>8 DEF new

\* What the steps keep is true of what a walk makes.
LEMMA MadeWalk ==
  ASSUME NEW seq \in Seq(Block), Rising(seq), NEW W, Kinds(W),
         NEW steps, steps = [n \in DOMAIN seq |-> steps[n]],
         \A n \in 1..Len(seq) : \A acc \in Making(seq, W, n - 1) : steps[n][acc] \in Making(seq, W, n)
  PROVE  Folded(NoChildren, steps) \in Making(seq, W, Len(seq))
<1> DEFINE N == Len(seq)
           P == [n \in 0..N |-> Making(seq, W, n)]
           base == NoChildren
           e == <<>>
<1>1. N \in Nat
  OBVIOUS
<1>2. base \in Making(seq, W, 0)
  <2>1. e \in Seq(W.good) /\ e \in Seq(Draft) /\ e \in W.open /\ e \in W.steps /\ e \in Title
    BY DEF Kinds, Title
  <2>2. BlocksOf(e) = e
    <3>1. [k \in DOMAIN e |-> e[k].blocks] = <<>>
      OBVIOUS
    <3> QED BY <3>1, FlattenEmpty DEF BlocksOf
  <2>3. e \in Spanning(seq, W.left, 0)
    <3>1. Len(e) = 0 /\ e \in Seq(Block)
      OBVIOUS
    <3> HIDE DEF e
    <3>2. Rising(e)
      BY <3>1 DEF Rising
    <3>3. \A k \in 1..Len(e) : \E j \in 1..0 : e[k] = seq[j]
      BY <3>1
    <3> QED BY <3>1, <3>2, <3>3 DEF Spanning, Upto
  <2>4. (e \o e) \o e = e
    OBVIOUS
  <2>5. base = [done |-> e, open |-> e, steps |-> e, article |-> e]
    BY DEF NoChildren
  <2>6. e = <<>>
    OBVIOUS
  <2> HIDE DEF base, e
  <2>7. (BlocksOf(e) \o e) \o e \in Spanning(seq, W.left, 0)
    BY <2>2, <2>3, <2>4
  <2> QED BY <2>1, <2>5, <2>6, <2>7, MadeOf
<1> HIDE DEF base, e
<1>3. base \in P[0] /\ \A n \in 1..N : \A v \in P[n - 1] : steps[n][v] \in P[n]
  <2>1. \A n \in 1..N : n - 1 \in 0..N /\ n \in 0..N
    BY <1>1
  <2>2. \A n \in 0..N : P[n] = Making(seq, W, n)
    OBVIOUS
  <2>3. 0 \in 0..N
    BY <1>1
  <2> HIDE DEF P
  <2> QED BY <1>2, <2>1, <2>2, <2>3
<1>4. P[N] = Making(seq, W, N)
  BY <1>1
<1>5. Folded(base, steps) \in P[N]
  <2> HIDE DEF P
  <2> QED BY <1>3, WalkKeeps DEF N
<1> QED BY <1>4, <1>5 DEF base, N

\* The blocks of a sequence come one after the other.
LEMMA ComingAll ==
  ASSUME NEW seq \in Seq(Block), Rising(seq), NEW n \in 1..Len(seq)
  PROVE  Coming(seq, n, seq[n])
  BY DEF Coming

\* A state of the walk is one of its states.
LEMMA InChildren ==
  ASSUME NEW seq, NEW W, NEW n, NEW acc \in Making(seq, W, n)
  PROVE  acc \in Children
  BY DEF Making

\* What each template makes is allowed.
LEMMA KindsAllowed ==
  ASSUME NEW title, NEW L
  PROVE  /\ Allowed(Makes(Snugs, {<<>>}, L, title), Snugs, {<<>>}, title)
         /\ Allowed(Makes(Snugs, Plains, L, title), Snugs, Plains, title)
         /\ Allowed(Makes(Plains, {<<>>}, L, title), Plains, {<<>>}, title)
         /\ Allowed(Makes(RowsOf, {<<>>}, L, title), RowsOf, {<<>>}, title)
         /\ Allowed(Makes(Articles, {<<>>}, L, title), Articles, {<<>>}, title)
         /\ Allowed(Makes(Seq(Block), {<<>>}, L, title), Seq(Block), {<<>>}, title)
<1> DEFINE T == Seq(Block)
           E == {<<>>}
<1>1. /\ Snugs \subseteq T /\ Plains \subseteq T /\ RowsOf \subseteq T /\ Articles \subseteq T
      /\ T \subseteq T /\ E \subseteq T /\ <<>> \in T /\ <<>> \in E
  BY DEF Snugs, Plains, RowsOf, Articles
<1>2. <<>> \in Snugs /\ <<>> \in Plains /\ <<>> \in RowsOf /\ <<>> \in Articles
  BY NothingFits
<1> HIDE DEF T, E
<1>3. /\ Allowed(Makes(Snugs, E, L, title), Snugs, E, title)
      /\ Allowed(Makes(Snugs, Plains, L, title), Snugs, Plains, title)
      /\ Allowed(Makes(Plains, E, L, title), Plains, E, title)
      /\ Allowed(Makes(RowsOf, E, L, title), RowsOf, E, title)
      /\ Allowed(Makes(Articles, E, L, title), Articles, E, title)
      /\ Allowed(Makes(T, E, L, title), T, E, title)
  BY <1>1, <1>2 DEF Allowed, Makes, T
<1> QED BY <1>3 DEF T, E

\* The whole walk of each template
LEMMA GenericWalk ==
  ASSUME NEW seq \in Seq(Block), Rising(seq), NEW title
  PROVE  Walk(Children, GenericStep, NoChildren, seq) \in Making(seq, Makes(Snugs, {<<>>}, {}, title), Len(seq))
<1> DEFINE W == Makes(Snugs, {<<>>}, {}, title)
           steps == [n \in DOMAIN seq |-> [acc \in Children |-> GenericStep(acc, seq[n])]]
<1>1. Allowed(W, Snugs, {<<>>}, title)
  BY KindsAllowed
<1>2. Walk(Children, GenericStep, NoChildren, seq) = Folded(NoChildren, steps)
  BY DEF Walk
<1>3. ASSUME NEW n \in 1..Len(seq), NEW acc \in Making(seq, W, n - 1)
      PROVE  steps[n][acc] \in Making(seq, W, n)
  <2>1. Coming(seq, n, seq[n]) /\ acc \in Children
    <3> DEFINE m == n - 1
    <3>1. acc \in Making(seq, W, m)
      OBVIOUS
    <3> HIDE DEF m, W
    <3> QED BY <3>1, ComingAll, InChildren
  <2>2. steps[n][acc] = GenericStep(acc, seq[n])
    BY <2>1
  <2> HIDE DEF W, steps
  <2>3. GenericStep(acc, seq[n]) \in Making(seq, W, n)
    BY <1>1, <2>1, GenericMakes
  <2> QED BY <2>2, <2>3
<1>4. steps = [n \in DOMAIN seq |-> steps[n]]
  OBVIOUS
<1>5. Kinds(W)
  <2> HIDE DEF W
  <2> QED BY <1>1, AllowedKinds
<1> HIDE DEF W, steps
<1>6. Folded(NoChildren, steps) \in Making(seq, W, Len(seq))
  BY <1>3, <1>4, <1>5, MadeWalk
<1> QED BY <1>2, <1>6 DEF W

\* The walk of the manual
LEMMA ManualWalk ==
  ASSUME NEW seq \in Seq(Block), Rising(seq), NEW title
  PROVE  Walk(Children, ManualStep, NoChildren, seq) \in Making(seq, Makes(Snugs, Plains, {}, title), Len(seq))
<1> DEFINE W == Makes(Snugs, Plains, {}, title)
           steps == [n \in DOMAIN seq |-> [acc \in Children |-> ManualStep(acc, seq[n])]]
<1>1. Allowed(W, Snugs, Plains, title)
  BY KindsAllowed
<1>2. Walk(Children, ManualStep, NoChildren, seq) = Folded(NoChildren, steps)
  BY DEF Walk
<1>3. ASSUME NEW n \in 1..Len(seq), NEW acc \in Making(seq, W, n - 1)
      PROVE  steps[n][acc] \in Making(seq, W, n)
  <2>1. Coming(seq, n, seq[n]) /\ acc \in Children
    <3> DEFINE m == n - 1
    <3>1. acc \in Making(seq, W, m)
      OBVIOUS
    <3> HIDE DEF m, W
    <3> QED BY <3>1, ComingAll, InChildren
  <2>2. steps[n][acc] = ManualStep(acc, seq[n])
    BY <2>1
  <2> HIDE DEF W, steps
  <2>3. ManualStep(acc, seq[n]) \in Making(seq, W, n)
    BY <1>1, <2>1, ManualMakes
  <2> QED BY <2>2, <2>3
<1>4. steps = [n \in DOMAIN seq |-> steps[n]]
  OBVIOUS
<1>5. Kinds(W)
  <2> HIDE DEF W
  <2> QED BY <1>1, AllowedKinds
<1> HIDE DEF W, steps
<1>6. Folded(NoChildren, steps) \in Making(seq, W, Len(seq))
  BY <1>3, <1>4, <1>5, MadeWalk
<1> QED BY <1>2, <1>6 DEF W

\* The walk of the book
LEMMA BookWalk ==
  ASSUME NEW seq \in Seq(Block), Rising(seq), NEW title
  PROVE  Walk(Children, BookStep, NoChildren, seq) \in Making(seq, Makes(Snugs, {<<>>}, {}, title), Len(seq))
<1> DEFINE W == Makes(Snugs, {<<>>}, {}, title)
           steps == [n \in DOMAIN seq |-> [acc \in Children |-> BookStep(acc, seq[n])]]
<1>1. Allowed(W, Snugs, {<<>>}, title)
  BY KindsAllowed
<1>2. Walk(Children, BookStep, NoChildren, seq) = Folded(NoChildren, steps)
  BY DEF Walk
<1>3. ASSUME NEW n \in 1..Len(seq), NEW acc \in Making(seq, W, n - 1)
      PROVE  steps[n][acc] \in Making(seq, W, n)
  <2>1. Coming(seq, n, seq[n]) /\ acc \in Children
    <3> DEFINE m == n - 1
    <3>1. acc \in Making(seq, W, m)
      OBVIOUS
    <3> HIDE DEF m, W
    <3> QED BY <3>1, ComingAll, InChildren
  <2>2. steps[n][acc] = BookStep(acc, seq[n])
    BY <2>1
  <2> HIDE DEF W, steps
  <2>3. BookStep(acc, seq[n]) \in Making(seq, W, n)
    BY <1>1, <2>1, BookMakes
  <2> QED BY <2>2, <2>3
<1>4. steps = [n \in DOMAIN seq |-> steps[n]]
  OBVIOUS
<1>5. Kinds(W)
  <2> HIDE DEF W
  <2> QED BY <1>1, AllowedKinds
<1> HIDE DEF W, steps
<1>6. Folded(NoChildren, steps) \in Making(seq, W, Len(seq))
  BY <1>3, <1>4, <1>5, MadeWalk
<1> QED BY <1>2, <1>6 DEF W

\* The walk of scanned pages
LEMMA PageWalk ==
  ASSUME NEW seq \in Seq(Block), Rising(seq), NEW title
  PROVE  Walk(Children, PageStep, NoChildren, seq) \in Making(seq, Makes(Snugs, {<<>>}, {}, title), Len(seq))
<1> DEFINE W == Makes(Snugs, {<<>>}, {}, title)
           steps == [n \in DOMAIN seq |-> [acc \in Children |-> PageStep(acc, seq[n])]]
<1>1. Allowed(W, Snugs, {<<>>}, title)
  BY KindsAllowed
<1>2. Walk(Children, PageStep, NoChildren, seq) = Folded(NoChildren, steps)
  BY DEF Walk
<1>3. ASSUME NEW n \in 1..Len(seq), NEW acc \in Making(seq, W, n - 1)
      PROVE  steps[n][acc] \in Making(seq, W, n)
  <2>1. Coming(seq, n, seq[n]) /\ acc \in Children
    <3> DEFINE m == n - 1
    <3>1. acc \in Making(seq, W, m)
      OBVIOUS
    <3> HIDE DEF m, W
    <3> QED BY <3>1, ComingAll, InChildren
  <2>2. steps[n][acc] = PageStep(acc, seq[n])
    BY <2>1
  <2> HIDE DEF W, steps
  <2>3. PageStep(acc, seq[n]) \in Making(seq, W, n)
    BY <1>1, <2>1, PageMakes
  <2> QED BY <2>2, <2>3
<1>4. steps = [n \in DOMAIN seq |-> steps[n]]
  OBVIOUS
<1>5. Kinds(W)
  <2> HIDE DEF W
  <2> QED BY <1>1, AllowedKinds
<1> HIDE DEF W, steps
<1>6. Folded(NoChildren, steps) \in Making(seq, W, Len(seq))
  BY <1>3, <1>4, <1>5, MadeWalk
<1> QED BY <1>2, <1>6 DEF W

\* The walk of the table
LEMMA RowWalk ==
  ASSUME NEW seq \in Seq(Block), Rising(seq), NEW title
  PROVE  Walk(Children, RowStep, NoChildren, seq) \in Making(seq, Makes(RowsOf, {<<>>}, {}, title), Len(seq))
<1> DEFINE W == Makes(RowsOf, {<<>>}, {}, title)
           steps == [n \in DOMAIN seq |-> [acc \in Children |-> RowStep(acc, seq[n])]]
<1>1. Allowed(W, RowsOf, {<<>>}, title)
  BY KindsAllowed
<1>2. Walk(Children, RowStep, NoChildren, seq) = Folded(NoChildren, steps)
  BY DEF Walk
<1>3. ASSUME NEW n \in 1..Len(seq), NEW acc \in Making(seq, W, n - 1)
      PROVE  steps[n][acc] \in Making(seq, W, n)
  <2>1. Coming(seq, n, seq[n]) /\ acc \in Children
    <3> DEFINE m == n - 1
    <3>1. acc \in Making(seq, W, m)
      OBVIOUS
    <3> HIDE DEF m, W
    <3> QED BY <3>1, ComingAll, InChildren
  <2>2. steps[n][acc] = RowStep(acc, seq[n])
    BY <2>1
  <2> HIDE DEF W, steps
  <2>3. RowStep(acc, seq[n]) \in Making(seq, W, n)
    BY <1>1, <2>1, RowMakes
  <2> QED BY <2>2, <2>3
<1>4. steps = [n \in DOMAIN seq |-> steps[n]]
  OBVIOUS
<1>5. Kinds(W)
  <2> HIDE DEF W
  <2> QED BY <1>1, AllowedKinds
<1> HIDE DEF W, steps
<1>6. Folded(NoChildren, steps) \in Making(seq, W, Len(seq))
  BY <1>3, <1>4, <1>5, MadeWalk
<1> QED BY <1>2, <1>6 DEF W

\* The walk of questions and answers
LEMMA QAWalk ==
  ASSUME NEW seq \in Seq(Block), Rising(seq), NEW title
  PROVE  Walk(Children, QAStep, NoChildren, seq) \in Making(seq, Makes(Seq(Block), {<<>>}, Categories, title), Len(seq))
<1> DEFINE W == Makes(Seq(Block), {<<>>}, Categories, title)
           steps == [n \in DOMAIN seq |-> [acc \in Children |-> QAStep(acc, seq[n])]]
<1>1. Allowed(W, Seq(Block), {<<>>}, title)
  BY KindsAllowed
<1>7. W.left = Categories
  BY DEF Makes
<1>2. Walk(Children, QAStep, NoChildren, seq) = Folded(NoChildren, steps)
  BY DEF Walk
<1>3. ASSUME NEW n \in 1..Len(seq), NEW acc \in Making(seq, W, n - 1)
      PROVE  steps[n][acc] \in Making(seq, W, n)
  <2>1. Coming(seq, n, seq[n]) /\ acc \in Children
    <3> DEFINE m == n - 1
    <3>1. acc \in Making(seq, W, m)
      OBVIOUS
    <3> HIDE DEF m, W
    <3> QED BY <3>1, ComingAll, InChildren
  <2>2. steps[n][acc] = QAStep(acc, seq[n])
    BY <2>1
  <2> HIDE DEF W, steps
  <2>3. QAStep(acc, seq[n]) \in Making(seq, W, n)
    BY <1>1, <1>7, <2>1, QAMakes
  <2> QED BY <2>2, <2>3
<1>4. steps = [n \in DOMAIN seq |-> steps[n]]
  OBVIOUS
<1>5. Kinds(W)
  <2> HIDE DEF W
  <2> QED BY <1>1, AllowedKinds
<1> HIDE DEF W, steps
<1>6. Folded(NoChildren, steps) \in Making(seq, W, Len(seq))
  BY <1>3, <1>4, <1>5, MadeWalk
<1> QED BY <1>2, <1>6 DEF W

\* The walk of the laws
LEMMA LawsWalk ==
  ASSUME NEW seq \in Seq(Block), Rising(seq), NEW title
  PROVE  Walk(Children, LawsStep, NoChildren, seq) \in Making(seq, Makes(Articles, {<<>>}, {}, title), Len(seq))
<1> DEFINE W == Makes(Articles, {<<>>}, {}, title)
           steps == [n \in DOMAIN seq |-> [acc \in Children |-> LawsStep(acc, seq[n])]]
<1>1. Allowed(W, Articles, {<<>>}, title)
  BY KindsAllowed
<1>2. Walk(Children, LawsStep, NoChildren, seq) = Folded(NoChildren, steps)
  BY DEF Walk
<1>3. ASSUME NEW n \in 1..Len(seq), NEW acc \in Making(seq, W, n - 1)
      PROVE  steps[n][acc] \in Making(seq, W, n)
  <2>1. Coming(seq, n, seq[n]) /\ acc \in Children
    <3> DEFINE m == n - 1
    <3>1. acc \in Making(seq, W, m)
      OBVIOUS
    <3> HIDE DEF m, W
    <3> QED BY <3>1, ComingAll, InChildren
  <2>2. steps[n][acc] = LawsStep(acc, seq[n])
    BY <2>1
  <2> HIDE DEF W, steps
  <2>3. LawsStep(acc, seq[n]) \in Making(seq, W, n)
    BY <1>1, <2>1, LawsMakes
  <2> QED BY <2>2, <2>3
<1>4. steps = [n \in DOMAIN seq |-> steps[n]]
  OBVIOUS
<1>5. Kinds(W)
  <2> HIDE DEF W
  <2> QED BY <1>1, AllowedKinds
<1> HIDE DEF W, steps
<1>6. Folded(NoChildren, steps) \in Making(seq, W, Len(seq))
  BY <1>3, <1>4, <1>5, MadeWalk
<1> QED BY <1>2, <1>6 DEF W

\* The walk of the contract
LEMMA ContractWalk ==
  ASSUME NEW seq \in Seq(Block), Rising(seq), NEW title
  PROVE  Walk(Children, ContractStep, NoChildren, seq) \in Making(seq, Makes(Articles, {<<>>}, Bare, title), Len(seq))
<1> DEFINE W == Makes(Articles, {<<>>}, Bare, title)
           steps == [n \in DOMAIN seq |-> [acc \in Children |-> ContractStep(acc, seq[n])]]
<1>1. Allowed(W, Articles, {<<>>}, title)
  BY KindsAllowed
<1>7. W.left = Bare
  BY DEF Makes
<1>2. Walk(Children, ContractStep, NoChildren, seq) = Folded(NoChildren, steps)
  BY DEF Walk
<1>3. ASSUME NEW n \in 1..Len(seq), NEW acc \in Making(seq, W, n - 1)
      PROVE  steps[n][acc] \in Making(seq, W, n)
  <2>1. Coming(seq, n, seq[n]) /\ acc \in Children
    <3> DEFINE m == n - 1
    <3>1. acc \in Making(seq, W, m)
      OBVIOUS
    <3> HIDE DEF m, W
    <3> QED BY <3>1, ComingAll, InChildren
  <2>2. steps[n][acc] = ContractStep(acc, seq[n])
    BY <2>1
  <2> HIDE DEF W, steps
  <2>3. ContractStep(acc, seq[n]) \in Making(seq, W, n)
    BY <1>1, <1>7, <2>1, ContractMakes
  <2> QED BY <2>2, <2>3
<1>4. steps = [n \in DOMAIN seq |-> steps[n]]
  OBVIOUS
<1>5. Kinds(W)
  <2> HIDE DEF W
  <2> QED BY <1>1, AllowedKinds
<1> HIDE DEF W, steps
<1>6. Folded(NoChildren, steps) \in Making(seq, W, Len(seq))
  BY <1>3, <1>4, <1>5, MadeWalk
<1> QED BY <1>2, <1>6 DEF W

\* The walk of the contract that keeps every child
LEMMA KeepWalk ==
  ASSUME NEW seq \in Seq(Block), Rising(seq), NEW title
  PROVE  Walk(Children, KeepStep, NoChildren, seq) \in Making(seq, Makes(Articles, {<<>>}, Junk, title), Len(seq))
<1> DEFINE W == Makes(Articles, {<<>>}, Junk, title)
           steps == [n \in DOMAIN seq |-> [acc \in Children |-> KeepStep(acc, seq[n])]]
<1>1. Allowed(W, Articles, {<<>>}, title)
  BY KindsAllowed
<1>7. W.left = Junk
  BY DEF Makes
<1>2. Walk(Children, KeepStep, NoChildren, seq) = Folded(NoChildren, steps)
  BY DEF Walk
<1>3. ASSUME NEW n \in 1..Len(seq), NEW acc \in Making(seq, W, n - 1)
      PROVE  steps[n][acc] \in Making(seq, W, n)
  <2>1. Coming(seq, n, seq[n]) /\ acc \in Children
    <3> DEFINE m == n - 1
    <3>1. acc \in Making(seq, W, m)
      OBVIOUS
    <3> HIDE DEF m, W
    <3> QED BY <3>1, ComingAll, InChildren
  <2>2. steps[n][acc] = KeepStep(acc, seq[n])
    BY <2>1
  <2> HIDE DEF W, steps
  <2>3. KeepStep(acc, seq[n]) \in Making(seq, W, n)
    BY <1>1, <1>7, <2>1, KeepMakes
  <2> QED BY <2>2, <2>3
<1>4. steps = [n \in DOMAIN seq |-> steps[n]]
  OBVIOUS
<1>5. Kinds(W)
  <2> HIDE DEF W
  <2> QED BY <1>1, AllowedKinds
<1> HIDE DEF W, steps
<1>6. Folded(NoChildren, steps) \in Making(seq, W, Len(seq))
  BY <1>3, <1>4, <1>5, MadeWalk
<1> QED BY <1>2, <1>6 DEF W

\* The walk of the paper
LEMMA PaperWalk ==
  ASSUME NEW seq \in Seq(Block), Rising(seq), NEW title, ~Collected(title)
  PROVE  Walk(Children, LAMBDA acc, b : PaperStep(acc, b, title), NoChildren, seq) \in Making(seq, Makes(Snugs, {<<>>}, {}, title), Len(seq))
<1> DEFINE W == Makes(Snugs, {<<>>}, {}, title)
           steps == [n \in DOMAIN seq |-> [acc \in Children |-> PaperStep(acc, seq[n], title)]]
<1>1. Allowed(W, Snugs, {<<>>}, title)
  BY KindsAllowed
<1>2. Walk(Children, LAMBDA acc, b : PaperStep(acc, b, title), NoChildren, seq) = Folded(NoChildren, steps)
  BY DEF Walk
<1>3. ASSUME NEW n \in 1..Len(seq), NEW acc \in Making(seq, W, n - 1)
      PROVE  steps[n][acc] \in Making(seq, W, n)
  <2>1. Coming(seq, n, seq[n]) /\ acc \in Children
    <3> DEFINE m == n - 1
    <3>1. acc \in Making(seq, W, m)
      OBVIOUS
    <3> HIDE DEF m, W
    <3> QED BY <3>1, ComingAll, InChildren
  <2>2. steps[n][acc] = PaperStep(acc, seq[n], title)
    BY <2>1
  <2> HIDE DEF W, steps
  <2>3. PaperStep(acc, seq[n], title) \in Making(seq, W, n)
    BY <1>1, <2>1, PaperMakes
  <2> QED BY <2>2, <2>3
<1>4. steps = [n \in DOMAIN seq |-> steps[n]]
  OBVIOUS
<1>5. Kinds(W)
  <2> HIDE DEF W
  <2> QED BY <1>1, AllowedKinds
<1> HIDE DEF W, steps
<1>6. Folded(NoChildren, steps) \in Making(seq, W, Len(seq))
  BY <1>3, <1>4, <1>5, MadeWalk
<1> QED BY <1>2, <1>6 DEF W

\* The walk of the paper in its abstract and its references
LEMMA CollectedWalk ==
  ASSUME NEW seq \in Seq(Block), Rising(seq), NEW title, Collected(title)
  PROVE  Walk(Children, LAMBDA acc, b : PaperStep(acc, b, title), NoChildren, seq) \in Making(seq, Makes(Plains, {<<>>}, {}, title), Len(seq))
<1> DEFINE W == Makes(Plains, {<<>>}, {}, title)
           steps == [n \in DOMAIN seq |-> [acc \in Children |-> PaperStep(acc, seq[n], title)]]
<1>1. Allowed(W, Plains, {<<>>}, title)
  BY KindsAllowed
<1>2. Walk(Children, LAMBDA acc, b : PaperStep(acc, b, title), NoChildren, seq) = Folded(NoChildren, steps)
  BY DEF Walk
<1>3. ASSUME NEW n \in 1..Len(seq), NEW acc \in Making(seq, W, n - 1)
      PROVE  steps[n][acc] \in Making(seq, W, n)
  <2>1. Coming(seq, n, seq[n]) /\ acc \in Children
    <3> DEFINE m == n - 1
    <3>1. acc \in Making(seq, W, m)
      OBVIOUS
    <3> HIDE DEF m, W
    <3> QED BY <3>1, ComingAll, InChildren
  <2>2. steps[n][acc] = PaperStep(acc, seq[n], title)
    BY <2>1
  <2> HIDE DEF W, steps
  <2>3. PaperStep(acc, seq[n], title) \in Making(seq, W, n)
    BY <1>1, <2>1, CollectedMakes
  <2> QED BY <2>2, <2>3
<1>4. steps = [n \in DOMAIN seq |-> steps[n]]
  OBVIOUS
<1>5. Kinds(W)
  <2> HIDE DEF W
  <2> QED BY <1>1, AllowedKinds
<1> HIDE DEF W, steps
<1>6. Folded(NoChildren, steps) \in Making(seq, W, Len(seq))
  BY <1>3, <1>4, <1>5, MadeWalk
<1> QED BY <1>2, <1>6 DEF W

\* The children of a group: good ones, and their blocks are those of the group in their order.
Whole(g, drafts) ==
    /\ drafts \in Seq(Goods(g.title))
    /\ BlocksOf(drafts) \in Upto(g.blocks, Len(g.blocks))

\* Every block of the group is in a child, but for those of L.
Covered(L, g, drafts) ==
    \A k \in 1..Len(g.blocks) : g.blocks[k] \in L \/ g.blocks[k] \in ToSet(BlocksOf(drafts))

\* A walk that leaves nothing open
LEMMA FinishedWalk ==
  ASSUME NEW g, NEW W, NEW O, NEW S, Allowed(W, O, S, g.title),
         NEW acc \in Making(g.blocks, W, Len(g.blocks)), NothingOpen(acc), NoSteps(acc)
  PROVE  Whole(g, acc.done) /\ Covered(W.left, g, acc.done)
<1> DEFINE seq == g.blocks
           n == Len(seq)
           done == acc.done
           bs == BlocksOf(done)
           open == acc.open
           steps == acc.steps
           e == <<>>
<1>1. Kinds(W) /\ W.good = Goods(g.title)
  BY AllowedKinds
<1>2. acc \in Making(seq, W, n)
  OBVIOUS
<1> HIDE DEF seq, n
<1>3. /\ done \in Seq(W.good) /\ bs \in Seq(Block) /\ (bs \o open) \o steps \in Spanning(seq, W.left, n)
  BY <1>1, <1>2, MadeParts
<1>4. open = e /\ steps = e
  BY DEF NothingOpen, NoSteps
<1>5. bs \o e = bs
  <2> HIDE DEF bs
  <2> QED BY <1>3, ConcatNothing
<1>6. bs \in Spanning(seq, W.left, n)
  <2> HIDE DEF bs, e, open, steps
  <2> QED BY <1>3, <1>4, <1>5
<1>7. bs \in Upto(seq, n) /\ \A k \in 1..n : seq[k] \in W.left \/ seq[k] \in ToSet(bs)
  <2> HIDE DEF bs
  <2> QED BY <1>6 DEF Spanning
<1> QED BY <1>1, <1>3, <1>7 DEF Whole, Covered, seq, n

\* The children that each template makes of a group: questions and answers
LEMMA QAChildren ==
  ASSUME NEW g, g.blocks \in Seq(Block), Rising(g.blocks)
  PROVE  Whole(g, ChildrenOf("qa", g)) /\ Covered(Categories, g, ChildrenOf("qa", g))
<1> DEFINE seq == g.blocks
           title == g.title
           W == Makes(Seq(Block), {<<>>}, Categories, title)
           acc == Walk(Children, QAStep, NoChildren, seq)
           new == Flush(acc, "qa_pair")
<1>1. ChildrenOf("qa", g) = new.done
  BY DEF ChildrenOf
<1>2. acc \in Making(seq, W, Len(seq))
  BY QAWalk
<1>3. Allowed(W, Seq(Block), {<<>>}, title)
  BY KindsAllowed
<1>9. W.left = Categories
  BY DEF Makes
<1> HIDE DEF W, acc
<1>4. Closable(acc, W, "qa_pair") /\ NoSteps(acc) /\ Kinds(W)
  BY <1>2, <1>3, AnswerCloses, NeverSteps, AllowedKinds
<1>5. new \in Making(seq, W, Len(seq)) /\ NothingOpen(new) /\ NoSteps(new)
  BY <1>2, <1>4, FlushedMakes
<1> HIDE DEF new
<1> QED BY <1>1, <1>9, <1>3, <1>5, FinishedWalk

\* Those of the book
LEMMA BookChildren ==
  ASSUME NEW g, g.blocks \in Seq(Block), Rising(g.blocks)
  PROVE  Whole(g, ChildrenOf("book", g)) /\ Covered({}, g, ChildrenOf("book", g))
<1> DEFINE seq == g.blocks
           title == g.title
           W == Makes(Snugs, {<<>>}, {}, title)
           acc == Walk(Children, BookStep, NoChildren, seq)
           new == Flush(acc, "book_section")
<1>1. ChildrenOf("book", g) = new.done
  BY DEF ChildrenOf
<1>2. acc \in Making(seq, W, Len(seq))
  BY BookWalk
<1>3. Allowed(W, Snugs, {<<>>}, title)
  BY KindsAllowed
<1>9. W.left = {}
  BY DEF Makes
<1> HIDE DEF W, acc
<1>4. Closable(acc, W, "book_section") /\ NoSteps(acc) /\ Kinds(W)
  BY <1>2, <1>3, SnugCloses, ChunkTypes, NeverSteps, AllowedKinds
<1>5. new \in Making(seq, W, Len(seq)) /\ NothingOpen(new) /\ NoSteps(new)
  BY <1>2, <1>4, FlushedMakes
<1> HIDE DEF new
<1> QED BY <1>1, <1>9, <1>3, <1>5, FinishedWalk

\* Those of scanned pages
LEMMA PageChildren ==
  ASSUME NEW g, g.blocks \in Seq(Block), Rising(g.blocks)
  PROVE  Whole(g, ChildrenOf("picture_pdf", g)) /\ Covered({}, g, ChildrenOf("picture_pdf", g))
<1> DEFINE seq == g.blocks
           title == g.title
           W == Makes(Snugs, {<<>>}, {}, title)
           acc == Walk(Children, PageStep, NoChildren, seq)
           new == Flush(acc, "ocr_text")
<1>1. ChildrenOf("picture_pdf", g) = new.done
  BY DEF ChildrenOf
<1>2. acc \in Making(seq, W, Len(seq))
  BY PageWalk
<1>3. Allowed(W, Snugs, {<<>>}, title)
  BY KindsAllowed
<1>9. W.left = {}
  BY DEF Makes
<1> HIDE DEF W, acc
<1>4. Closable(acc, W, "ocr_text") /\ NoSteps(acc) /\ Kinds(W)
  BY <1>2, <1>3, SnugCloses, ChunkTypes, NeverSteps, AllowedKinds
<1>5. new \in Making(seq, W, Len(seq)) /\ NothingOpen(new) /\ NoSteps(new)
  BY <1>2, <1>4, FlushedMakes
<1> HIDE DEF new
<1> QED BY <1>1, <1>9, <1>3, <1>5, FinishedWalk

\* Those of the table
LEMMA RowChildren ==
  ASSUME NEW g, g.blocks \in Seq(Block), Rising(g.blocks)
  PROVE  Whole(g, ChildrenOf("table_data", g)) /\ Covered({}, g, ChildrenOf("table_data", g))
<1> DEFINE seq == g.blocks
           title == g.title
           W == Makes(RowsOf, {<<>>}, {}, title)
           acc == Walk(Children, RowStep, NoChildren, seq)
           new == Flush(acc, "table_row_group")
<1>1. ChildrenOf("table_data", g) = new.done
  BY DEF ChildrenOf
<1>2. acc \in Making(seq, W, Len(seq))
  BY RowWalk
<1>3. Allowed(W, RowsOf, {<<>>}, title)
  BY KindsAllowed
<1>9. W.left = {}
  BY DEF Makes
<1> HIDE DEF W, acc
<1>4. Closable(acc, W, "table_row_group") /\ NoSteps(acc) /\ Kinds(W)
  BY <1>2, <1>3, RowsClose, NeverSteps, AllowedKinds
<1>5. new \in Making(seq, W, Len(seq)) /\ NothingOpen(new) /\ NoSteps(new)
  BY <1>2, <1>4, FlushedMakes
<1> HIDE DEF new
<1> QED BY <1>1, <1>9, <1>3, <1>5, FinishedWalk

\* Those of the manual
LEMMA ManualChildren ==
  ASSUME NEW g, g.blocks \in Seq(Block), Rising(g.blocks)
  PROVE  Whole(g, ChildrenOf("manual", g)) /\ Covered({}, g, ChildrenOf("manual", g))
<1> DEFINE seq == g.blocks
           title == g.title
           W == Makes(Snugs, Plains, {}, title)
           acc == Walk(Children, ManualStep, NoChildren, seq)
           half == Flush(acc, "manual_text")
           new == FlushSteps(half)
<1>1. ChildrenOf("manual", g) = new.done
  BY DEF ChildrenOf
<1>2. acc \in Making(seq, W, Len(seq))
  BY ManualWalk
<1>3. Allowed(W, Snugs, Plains, title)
  BY KindsAllowed
<1>9. W.left = {}
  BY DEF Makes
<1> HIDE DEF W, acc
<1>4. Closable(acc, W, "manual_text") /\ Kinds(W)
  BY <1>2, <1>3, SnugCloses, ChunkTypes, AllowedKinds
<1>5. half \in Making(seq, W, Len(seq)) /\ NothingOpen(half)
  BY <1>2, <1>4, FlushedMakes
<1> HIDE DEF half
<1>6. new \in Making(seq, W, Len(seq)) /\ NoSteps(new)
  BY <1>3, <1>5, StepsClosed
<1>7. NothingOpen(new)
  BY <1>5 DEF NothingOpen, FlushSteps
<1> HIDE DEF new
<1> QED BY <1>1, <1>9, <1>3, <1>6, <1>7, FinishedWalk

\* Those of the laws
LEMMA LawsChildren ==
  ASSUME NEW g, g.blocks \in Seq(Block), Rising(g.blocks)
  PROVE  Whole(g, ChildrenOf("laws", g)) /\ Covered({}, g, ChildrenOf("laws", g))
<1> DEFINE seq == g.blocks
           title == g.title
           W == Makes(Articles, {<<>>}, {}, title)
           acc == Walk(Children, LawsStep, NoChildren, seq)
           new == CloseArticle(acc)
<1>1. ChildrenOf("laws", g) = new.done
  BY DEF ChildrenOf
<1>2. acc \in Making(seq, W, Len(seq))
  BY LawsWalk
<1>3. Allowed(W, Articles, {<<>>}, title)
  BY KindsAllowed
<1>9. W.left = {}
  BY DEF Makes
<1> HIDE DEF W, acc
<1>4. new \in Making(seq, W, Len(seq)) /\ NothingOpen(new)
  BY <1>2, <1>3, ArticleClosed
<1> HIDE DEF new
<1>5. NoSteps(new)
  BY <1>3, <1>4, NeverSteps
<1> QED BY <1>1, <1>9, <1>3, <1>4, <1>5, FinishedWalk

\* A child of nothing but headings without a text
Hollow(d) == \A h \in ToSet(d.blocks) : BareHeading(h)
\* Only such children are missing.
Hollower(done, kept) == \A d \in ToSet(kept) : d \in ToSet(done) \/ Hollow(d)
\* Two states of a walk that have the same child open
Twins(acc, keep) ==
    /\ acc \in Children /\ keep \in Children
    /\ acc.open = keep.open /\ acc.steps = keep.steps /\ acc.article = keep.article
    /\ Hollower(acc.done, keep.done)

\* One more child on both sides, or one of headings on one side
LEMMA HollowerAppend ==
  ASSUME NEW done \in Seq(Draft), NEW kept \in Seq(Draft), NEW d \in Draft, Hollower(done, kept)
  PROVE  /\ Hollower(Append(done, d), Append(kept, d))
         /\ Hollow(d) => Hollower(done, Append(kept, d))
<1>1. ToSet(Append(done, d)) = ToSet(done) \cup {d} /\ ToSet(Append(kept, d)) = ToSet(kept) \cup {d}
  BY AppendedPart
<1>2. \A e \in ToSet(kept) : e \in ToSet(done) \/ Hollow(e)
  BY DEF Hollower
<1> DEFINE D == ToSet(done)
           K == ToSet(kept)
           DD == ToSet(Append(done, d))
           KK == ToSet(Append(kept, d))
<1> HIDE DEF D, K, DD, KK
<1>3. DD = D \cup {d} /\ KK = K \cup {d} /\ \A e \in K : e \in D \/ Hollow(e)
  BY <1>1, <1>2 DEF D, K, DD, KK
<1>4. \A e \in KK : e \in DD \/ Hollow(e)
  BY <1>3
<1>5. Hollow(d) => \A e \in KK : e \in D \/ Hollow(e)
  BY <1>3
<1> QED BY <1>4, <1>5 DEF Hollower, D, DD, KK

\* Twins by their parts
LEMMA TwinsOf ==
  ASSUME NEW done \in Seq(Draft), NEW kept \in Seq(Draft), NEW open \in Seq(Block),
         NEW steps \in Seq(Block), NEW article \in Title, Hollower(done, kept), NEW acc, NEW keep,
         acc = [done |-> done, open |-> open, steps |-> steps, article |-> article],
         keep = [done |-> kept, open |-> open, steps |-> steps, article |-> article]
  PROVE  Twins(acc, keep)
<1>1. acc \in Children /\ keep \in Children
  BY DEF Children
<1>2. /\ acc.open = keep.open /\ acc.steps = keep.steps /\ acc.article = keep.article
      /\ acc.done = done /\ keep.done = kept
  OBVIOUS
<1> QED BY <1>1, <1>2 DEF Twins

\* The parts of twins
LEMMA TwinsParts ==
  ASSUME NEW acc, NEW keep, Twins(acc, keep)
  PROVE  /\ acc.done \in Seq(Draft) /\ keep.done \in Seq(Draft) /\ acc.open \in Seq(Block)
         /\ acc.steps \in Seq(Block) /\ acc.article \in Title /\ Hollower(acc.done, keep.done)
         /\ acc = [done |-> acc.done, open |-> acc.open, steps |-> acc.steps, article |-> acc.article]
         /\ keep = [done |-> keep.done, open |-> acc.open, steps |-> acc.steps,
                    article |-> acc.article]
         /\ acc.open = keep.open /\ acc.article = keep.article
<1>1. /\ acc \in Children /\ keep \in Children
      /\ acc.open = keep.open /\ acc.steps = keep.steps /\ acc.article = keep.article
      /\ Hollower(acc.done, keep.done)
  BY DEF Twins
<1>2. /\ acc.done \in Seq(Draft) /\ acc.open \in Seq(Block) /\ acc.steps \in Seq(Block)
      /\ acc.article \in Title
      /\ acc = [done |-> acc.done, open |-> acc.open, steps |-> acc.steps, article |-> acc.article]
  BY <1>1 DEF Children
<1>3. /\ keep.done \in Seq(Draft)
      /\ keep = [done |-> keep.done, open |-> keep.open, steps |-> keep.steps,
                 article |-> keep.article]
  BY <1>1 DEF Children
<1>4. keep = [done |-> keep.done, open |-> acc.open, steps |-> acc.steps, article |-> acc.article]
  BY <1>1, <1>3, Zenon
<1> QED BY <1>1, <1>2, <1>3, <1>4

\* The child is closed on both sides, or given up on one.
LEMMA TwinsClosed ==
  ASSUME NEW acc, NEW keep, Twins(acc, keep)
  PROVE  Twins(FlushClause(acc), Closed(keep))
<1> DEFINE done == acc.done
           kept == keep.done
           open == acc.open
           steps == acc.steps
           article == acc.article
           d == Drafted(open, "contract_clause", article)
           e == <<>>
<1>1. /\ done \in Seq(Draft) /\ kept \in Seq(Draft) /\ open \in Seq(Block) /\ steps \in Seq(Block)
      /\ article \in Title /\ Hollower(done, kept)
      /\ acc = [done |-> done, open |-> open, steps |-> steps, article |-> article]
      /\ keep = [done |-> kept, open |-> open, steps |-> steps, article |-> article]
      /\ open = keep.open /\ article = keep.article
  BY TwinsParts
<1> DEFINE more == Append(done, d)
           all == Append(kept, d)
<1>2. Closed(keep) = IF open = e THEN keep ELSE [keep EXCEPT !.done = all, !.open = e]
  BY <1>1 DEF Closed, Flush
<1>3. FlushClause(acc) = IF open = e THEN acc
                         ELSE IF Substantive(open) THEN [acc EXCEPT !.done = more, !.open = e]
                         ELSE [acc EXCEPT !.open = e]
  BY DEF FlushClause, Flush
<1> HIDE DEF more, all, done, kept, open, steps, article, d, e
<1>4. CASE open = e
  BY <1>2, <1>3, <1>4
<1>5. d \in Draft /\ d.blocks = open
  <2>1. "contract_clause" \in ChunkType
    BY DEF ChunkType
  <2> QED BY <1>1, <2>1 DEF Draft, Drafted, d
<1>6. Hollower(more, all) /\ (Hollow(d) => Hollower(done, all))
  BY <1>1, <1>5, HollowerAppend DEF more, all
<1>7. more \in Seq(Draft) /\ all \in Seq(Draft) /\ e \in Seq(Block)
  BY <1>1, <1>5 DEF more, all, e
<1>8. ASSUME open # e PROVE Closed(keep) = [done |-> all, open |-> e, steps |-> steps, article |-> article]
  BY <1>1, <1>2, <1>8
<1>9. CASE open # e /\ Substantive(open)
  <2>1. FlushClause(acc) = [done |-> more, open |-> e, steps |-> steps, article |-> article]
    BY <1>1, <1>3, <1>9
  <2> QED BY <1>1, <1>6, <1>7, <1>8, <1>9, <2>1, TwinsOf
<1>10. CASE open # e /\ ~Substantive(open)
  <2>1. FlushClause(acc) = [done |-> done, open |-> e, steps |-> steps, article |-> article]
    BY <1>1, <1>3, <1>10
  <2>2. Hollow(d)
    BY <1>5, <1>10 DEF Substantive, Hollow
  <2> QED BY <1>1, <1>6, <1>7, <1>8, <1>10, <2>1, <2>2, TwinsOf
<1> QED BY <1>4, <1>9, <1>10

\* Both get another article, another block, or one more child.
LEMMA TwinsGo ==
  ASSUME NEW acc, NEW keep, Twins(acc, keep), NEW b \in Block
  PROVE  /\ Twins([acc EXCEPT !.article = b.title], [keep EXCEPT !.article = b.title])
         /\ Twins(Take(acc, b), Take(keep, b))
         /\ Twins(Alone(acc, b, b.type), Alone(keep, b, b.type))
<1> DEFINE done == acc.done
           kept == keep.done
           open == acc.open
           steps == acc.steps
           article == acc.article
           d == Drafted(<<b>>, b.type, article)
           title == b.title
           longer == Append(open, b)
           more == Append(done, d)
           all == Append(kept, d)
<1>1. /\ done \in Seq(Draft) /\ kept \in Seq(Draft) /\ open \in Seq(Block) /\ steps \in Seq(Block)
      /\ article \in Title /\ Hollower(done, kept)
      /\ acc = [done |-> done, open |-> open, steps |-> steps, article |-> article]
      /\ keep = [done |-> kept, open |-> open, steps |-> steps, article |-> article]
      /\ open = keep.open /\ article = keep.article
  BY TwinsParts
<1>2. /\ Take(acc, b) = [acc EXCEPT !.open = longer]
      /\ Alone(acc, b, b.type) = [acc EXCEPT !.done = more]
  BY DEF Take, Alone
<1>3. Take(keep, b) = [keep EXCEPT !.open = longer] /\ Alone(keep, b, b.type) = [keep EXCEPT !.done = all]
  BY <1>1 DEF Take, Alone
<1>4. d \in Draft /\ title \in Title
  <2>1. b.type \in ChunkType /\ b.title \in Title
    BY DEF Block, ChunkType
  <2>2. <<b>> \in Seq(Block)
    OBVIOUS
  <2> QED BY <1>1, <2>1, <2>2 DEF Draft, Drafted
<1> HIDE DEF done, kept, open, steps, article, d
<1>5. more \in Seq(Draft) /\ all \in Seq(Draft) /\ longer \in Seq(Block) /\ Hollower(more, all)
  BY <1>1, <1>4, HollowerAppend
<1> HIDE DEF title, longer, more, all
<1>6. Twins([acc EXCEPT !.article = title], [keep EXCEPT !.article = title])
  <2>1. /\ [acc EXCEPT !.article = title]
              = [done |-> done, open |-> open, steps |-> steps, article |-> title]
        /\ [keep EXCEPT !.article = title]
              = [done |-> kept, open |-> open, steps |-> steps, article |-> title]
    BY <1>1
  <2> QED BY <1>1, <1>4, <2>1, TwinsOf
<1>7. Twins(Take(acc, b), Take(keep, b))
  <2>1. /\ Take(acc, b) = [done |-> done, open |-> longer, steps |-> steps, article |-> article]
        /\ Take(keep, b) = [done |-> kept, open |-> longer, steps |-> steps, article |-> article]
    BY <1>1, <1>2, <1>3
  <2> QED BY <1>1, <1>5, <2>1, TwinsOf
<1>8. Twins(Alone(acc, b, b.type), Alone(keep, b, b.type))
  <2>1. /\ Alone(acc, b, b.type)
              = [done |-> more, open |-> open, steps |-> steps, article |-> article]
        /\ Alone(keep, b, b.type)
              = [done |-> all, open |-> open, steps |-> steps, article |-> article]
    BY <1>1, <1>2, <1>3
  <2> QED BY <1>1, <1>5, <2>1, TwinsOf
<1> QED BY <1>6, <1>7, <1>8 DEF title

\* The two walks make the same step.
LEMMA TwinsStep ==
  ASSUME NEW acc, NEW keep, Twins(acc, keep), NEW b \in Block
  PROVE  Twins(ContractStep(acc, b), KeepStep(keep, b))
<1> DEFINE starts == ContractArticle(b)
           closed == FlushClause(acc)
           before == IF starts THEN closed ELSE acc
           named == IF starts THEN [before EXCEPT !.article = b.title] ELSE before
           later == FlushClause(named)
           shut == Closed(keep)
           former == IF starts THEN shut ELSE keep
           called == IF starts THEN [former EXCEPT !.article = b.title] ELSE former
           after == Closed(called)
           empty == acc.open = <<>>
           vacant == keep.open = <<>>
<1>1. ContractStep(acc, b) =
          IF PageJunk(b) THEN acc
          ELSE IF Media(b) THEN Alone(closed, b, b.type)
          ELSE IF ContractChapter(b) /\ empty THEN Take(acc, b)
          ELSE IF Overflows(named, b) /\ ~Clause(b) THEN Take(later, b) ELSE Take(named, b)
  BY DEF ContractStep, Clauses
<1>2. KeepStep(keep, b) =
          IF PageJunk(b) THEN keep
          ELSE IF Media(b) THEN Alone(shut, b, b.type)
          ELSE IF ContractChapter(b) /\ vacant THEN Take(keep, b)
          ELSE IF Overflows(called, b) /\ ~Clause(b) THEN Take(after, b) ELSE Take(called, b)
  BY DEF KeepStep, Clauses
<1>3. empty = vacant
  BY TwinsParts
<1> HIDE DEF starts, empty, vacant
<1>4. Twins(closed, shut)
  BY TwinsClosed
<1> HIDE DEF closed, shut
<1>5. Twins(before, former)
  BY <1>4
<1> HIDE DEF before, former
<1>6. Twins(named, called)
  <2>1. Twins([before EXCEPT !.article = b.title], [former EXCEPT !.article = b.title])
    BY <1>5, TwinsGo
  <2> QED BY <1>5, <2>1
<1> HIDE DEF named, called
<1>7. Twins(later, after)
  BY <1>6, TwinsClosed
<1>8. Overflows(named, b) = Overflows(called, b)
  <2>1. named.open = called.open
    BY <1>6, TwinsParts
  <2> QED BY <2>1, Zenon DEF Overflows
<1> HIDE DEF later, after
<1>9. /\ Twins(Alone(closed, b, b.type), Alone(shut, b, b.type)) /\ Twins(Take(acc, b), Take(keep, b))
      /\ Twins(Take(later, b), Take(after, b)) /\ Twins(Take(named, b), Take(called, b))
  BY <1>4, <1>6, <1>7, TwinsGo
<1> QED BY <1>1, <1>2, <1>3, <1>8, <1>9

\* So do the two walks.
LEMMA TwinsWalk ==
  ASSUME NEW seq \in Seq(Block)
  PROVE  Twins(Walk(Children, ContractStep, NoChildren, seq), Walk(Children, KeepStep, NoChildren, seq))
<1> DEFINE N == Len(seq)
           base == NoChildren
           steps == [n \in DOMAIN seq |-> [acc \in Children |-> ContractStep(acc, seq[n])]]
           keeps == [n \in 1..N |-> [acc \in Children |-> KeepStep(acc, seq[n])]]
<1>1. N \in Nat /\ DOMAIN seq = 1..N /\ \A n \in 1..N : seq[n] \in Block
  OBVIOUS
<1>2. /\ Walk(Children, ContractStep, base, seq) = Folded(base, steps)
      /\ Walk(Children, KeepStep, base, seq) = Folded(base, keeps)
  BY <1>1 DEF Walk
<1>3. base \in Children /\ Twins(base, base)
  <2> DEFINE e == <<>>
  <2>1. e \in Seq(Draft) /\ e \in Seq(Block) /\ e \in Title
    BY DEF Title
  <2>2. base = [done |-> e, open |-> e, steps |-> e, article |-> e]
    BY DEF NoChildren
  <2> HIDE DEF e, base
  <2>3. Hollower(e, e)
    BY DEF Hollower
  <2>4. Twins(base, base)
    BY <2>1, <2>2, <2>3, TwinsOf
  <2> QED BY <2>4 DEF Twins
<1>4. \A acc \in Children : Twins(acc, acc)
  BY DEF Twins, Hollower
<1> HIDE DEF N, base
<1>5. Steps(keeps, N, Children)
  <2>1. ASSUME NEW n \in 1..N, NEW acc \in Children PROVE KeepStep(acc, seq[n]) \in Children
    <3> DEFINE b == seq[n]
    <3>1. b \in Block /\ Twins(acc, acc)
      BY <1>1, <1>4, <2>1
    <3> HIDE DEF b
    <3>2. Twins(ContractStep(acc, b), KeepStep(acc, b))
      BY <3>1, TwinsStep
    <3> QED BY <3>2 DEF Twins, b
  <2> QED BY <1>1, <2>1 DEF Steps
<1>6. PICK f : Leads(f, Children, base, N, keeps) /\ Folded(base, keeps) = f[N]
  <2> HIDE DEF keeps
  <2> QED BY <1>3, <1>5, FoldedDef
<1> DEFINE P == [n \in 0..N |-> {acc \in Children : Twins(acc, f[n])}]
<1>7. /\ f[0] = base /\ \A n \in 0..N : f[n] \in Children
      /\ \A n \in 1..N : n - 1 \in 0..N /\ n \in 0..N /\ f[n] = KeepStep(f[n - 1], seq[n])
  <2>1. f \in [0..N -> Children] /\ f[0] = base /\ \A n \in 1..N : f[n] = keeps[n][f[n - 1]]
    <3> HIDE DEF keeps
    <3> QED BY <1>6 DEF Leads
  <2>2. \A n \in 1..N : n - 1 \in 0..N /\ n \in 0..N
    BY <1>1
  <2> QED BY <2>1, <2>2
<1>8. base \in P[0]
  BY <1>1, <1>3, <1>7
<1>9. ASSUME NEW n \in 1..N, NEW acc \in P[n - 1] PROVE steps[n][acc] \in P[n]
  <2> DEFINE b == seq[n]
             m == n - 1
             keep == f[m]
             new == ContractStep(acc, b)
  <2>1. b \in Block /\ n \in DOMAIN seq /\ m \in 0..N /\ n \in 0..N /\ f[n] = KeepStep(keep, b)
    BY <1>1, <1>7
  <2>2. acc \in Children /\ Twins(acc, keep)
    BY <2>1
  <2>3. steps[n][acc] = new
    BY <2>1, <2>2
  <2>4. P[n] = {x \in Children : Twins(x, f[n])}
    BY <2>1
  <2> HIDE DEF b, m, keep, new, P, steps
  <2>5. Twins(new, f[n])
    BY <2>1, <2>2, TwinsStep DEF new
  <2>6. new \in Children
    BY <2>5 DEF Twins
  <2> QED BY <2>3, <2>4, <2>5, <2>6
<1>10. steps = [n \in DOMAIN seq |-> steps[n]] /\ N = Len(seq)
  BY DEF N
<1>11. P[N] = {acc \in Children : Twins(acc, f[N])}
  BY <1>1
<1>12. Folded(base, steps) \in P[N]
  <2> HIDE DEF steps, P
  <2> QED BY <1>8, <1>9, <1>10, WalkKeeps
<1> QED BY <1>2, <1>6, <1>11, <1>12 DEF base

\* The blocks of some children are those of each of them.
LEMMA BlocksAmong ==
  ASSUME NEW ds \in Seq(Draft)
  PROVE  /\ \A b \in ToSet(BlocksOf(ds)) : \E d \in ToSet(ds) : b \in ToSet(d.blocks)
         /\ \A d \in ToSet(ds) : ToSet(d.blocks) \subseteq ToSet(BlocksOf(ds))
<1> DEFINE T == {x \in Block : \E d \in ToSet(ds) : x \in ToSet(d.blocks)}
           V == Seq(T)
           N == Len(ds)
           ss == [k \in DOMAIN ds |-> ds[k].blocks]
<1>1. N \in Nat /\ DOMAIN ds = 1..N /\ \A k \in 1..N : ds[k] \in Draft /\ ds[k] \in ToSet(ds)
  BY DEF ToSet
<1>2. ASSUME NEW k \in 1..N PROVE ds[k].blocks \in V
  <2> DEFINE s == ds[k].blocks
  <2>1. s \in Seq(Block) /\ ds[k] \in ToSet(ds)
    BY <1>1 DEF Draft
  <2>2. Len(s) \in Nat /\ s = [i \in 1..Len(s) |-> s[i]] /\ \A i \in 1..Len(s) : s[i] \in Block /\ s[i] \in ToSet(s)
    BY <2>1 DEF ToSet
  <2>3. \A i \in 1..Len(s) : s[i] \in T
    BY <2>1, <2>2
  <2> HIDE DEF s, T
  <2> QED BY <2>2, <2>3, ListType DEF s
<1> HIDE DEF V
<1>3. ss \in Seq(V) /\ Len(ss) = N /\ \A k \in 1..N : ss[k] = ds[k].blocks
  <2>1. ss = [k \in 1..N |-> ss[k]] /\ \A k \in 1..N : ss[k] = ds[k].blocks
    BY <1>1
  <2> HIDE DEF ss, N
  <2>2. Len(ss) = N
    BY <1>1, <2>1, FunctionLen
  <2> QED BY <1>1, <1>2, <2>1, <2>2, ListType
<1>4. BlocksOf(ds) = FlattenSeq(ss)
  BY DEF BlocksOf
<1> HIDE DEF T, N, ss
<1>5. ToSet(BlocksOf(ds)) \subseteq T
  <2>1. FlattenSeq(ss) \in Seq(T)
    BY <1>3, FlattenType DEF V
  <2> QED BY <1>4, <2>1, ToSetType
<1>6. ASSUME NEW d \in ToSet(ds), NEW b \in ToSet(d.blocks) PROVE b \in ToSet(BlocksOf(ds))
  <2>1. PICK k \in 1..N : d = ds[k]
    BY <1>1, <1>6 DEF ToSet
  <2>2. k \in 1..Len(ss) /\ b \in ToSet(ss[k])
    BY <1>3, <1>6, <2>1
  <2>3. ss \in Seq(Seq(T))
    BY <1>3 DEF V
  <2> QED BY <1>4, <2>2, <2>3, FlattenHas
<1> QED BY <1>5, <1>6 DEF T

\* What is in no child of a contract, of the blocks of a group
Unwanted(g) == {b \in Block : PageJunk(b) \/ HeadsNothing(b, g)}
\* Those of the contract
LEMMA ContractChildren ==
  ASSUME NEW g, g.blocks \in Seq(Block), Rising(g.blocks)
  PROVE  /\ Whole(g, ChildrenOf("contract_terms", g))
         /\ Covered(Unwanted(g), g, ChildrenOf("contract_terms", g))
<1> DEFINE seq == g.blocks
           title == g.title
           W == Makes(Articles, {<<>>}, Bare, title)
           K == Makes(Articles, {<<>>}, Junk, title)
           acc == Walk(Children, ContractStep, NoChildren, seq)
           keep == Walk(Children, KeepStep, NoChildren, seq)
           new == FlushClause(acc)
           all == Closed(keep)
<1>1. ChildrenOf("contract_terms", g) = new.done
  BY DEF ChildrenOf
<1>2. ClausesOf(g) = all.done
  BY DEF ClausesOf, Walk, KeepStep
<1>3. acc \in Making(seq, W, Len(seq)) /\ keep \in Making(seq, K, Len(seq)) /\ Twins(acc, keep)
  BY ContractWalk, KeepWalk, TwinsWalk
<1>4. Allowed(W, Articles, {<<>>}, title) /\ Allowed(K, Articles, {<<>>}, title)
  BY KindsAllowed
<1>5. W.left = Bare /\ K.left = Junk
  BY DEF Makes
<1> HIDE DEF W, K, acc, keep
<1>6. /\ new \in Making(seq, W, Len(seq)) /\ NothingOpen(new)
      /\ all \in Making(seq, K, Len(seq)) /\ NothingOpen(all)
  BY <1>3, <1>4, <1>5, ClauseClosed, KeptClosed
<1>7. Twins(new, all)
  BY <1>3, TwinsClosed
<1> HIDE DEF new, all
<1>8. NoSteps(new) /\ NoSteps(all)
  BY <1>4, <1>6, NeverSteps
<1>9. Whole(g, new.done)
  BY <1>4, <1>6, <1>8, FinishedWalk
<1>10. Covered(Junk, g, all.done)
  BY <1>4, <1>5, <1>6, <1>8, FinishedWalk
<1> DEFINE ds == new.done
           ks == all.done
<1>11. ds \in Seq(Draft) /\ ks \in Seq(Draft) /\ Hollower(ds, ks)
  BY <1>7, TwinsParts
<1> HIDE DEF ds, ks
<1>12. ASSUME NEW k \in 1..Len(seq) PROVE seq[k] \in Unwanted(g) \/ seq[k] \in ToSet(BlocksOf(ds))
  <2> DEFINE b == seq[k]
  <2>1. b \in Block /\ (b \in Junk \/ b \in ToSet(BlocksOf(ks)))
    BY <1>10, <1>12 DEF Covered, ks
  <2> SUFFICES b \in Unwanted(g) \/ b \in ToSet(BlocksOf(ds))
    OBVIOUS
  <2> HIDE DEF b
  <2>2. CASE b \in Junk
    BY <2>2 DEF Junk, Unwanted
  <2>3. CASE b \in ToSet(BlocksOf(ks))
    <3>1. PICK d \in ToSet(ks) : b \in ToSet(d.blocks)
      BY <1>11, <2>3, BlocksAmong
    <3>2. d \in ToSet(ds) \/ Hollow(d)
      BY <1>11, <3>1 DEF Hollower
    <3>3. ASSUME d \in ToSet(ds) PROVE b \in ToSet(BlocksOf(ds))
      <4>1. ToSet(d.blocks) \subseteq ToSet(BlocksOf(ds))
        BY <1>11, <3>3, BlocksAmong
      <4> QED BY <3>1, <4>1
    <3>4. ASSUME Hollow(d) PROVE b \in Unwanted(g)
      <4>1. d \in ToSet(ClausesOf(g)) /\ \A h \in ToSet(d.blocks) : BareHeading(h)
        BY <1>2, <3>1, <3>4 DEF Hollow, ks
      <4>2. HeadsNothing(b, g)
        BY <3>1, <4>1 DEF HeadsNothing
      <4> QED BY <2>1, <4>2 DEF Unwanted
    <3> QED BY <3>2, <3>3, <3>4
  <2> QED BY <2>1, <2>2, <2>3
<1>13. Covered(Unwanted(g), g, new.done)
  BY <1>12 DEF Covered, ds
<1> QED BY <1>1, <1>9, <1>13

\* Those of every other template
LEMMA GenericChildren ==
  ASSUME NEW g, g.blocks \in Seq(Block), Rising(g.blocks), NEW template,
         template \notin {"manual", "qa", "book", "paper", "laws", "contract_terms", "table_data",
                          "picture_pdf"}
  PROVE  Whole(g, ChildrenOf(template, g)) /\ Covered({}, g, ChildrenOf(template, g))
<1> DEFINE seq == g.blocks
           title == g.title
           W == Makes(Snugs, {<<>>}, {}, title)
           acc == Walk(Children, GenericStep, NoChildren, seq)
           type == TypeOfBlocks(acc.open)
           new == Flush(acc, type)
<1>1. ChildrenOf(template, g) = new.done
  BY DEF ChildrenOf
<1>2. acc \in Making(seq, W, Len(seq))
  BY GenericWalk
<1>3. Allowed(W, Snugs, {<<>>}, title)
  BY KindsAllowed
<1>9. W.left = {}
  BY DEF Makes
<1> HIDE DEF W, acc
<1>4. acc.open \in Seq(Block)
  BY <1>2, <1>3, MakingParts
<1>5. type \in ChunkType
  BY <1>4, TypeOfBlocksType
<1> HIDE DEF type
<1>6. Closable(acc, W, type) /\ NoSteps(acc) /\ Kinds(W)
  BY <1>2, <1>3, <1>5, SnugCloses, NeverSteps, AllowedKinds
<1>7. new \in Making(seq, W, Len(seq)) /\ NothingOpen(new) /\ NoSteps(new)
  BY <1>2, <1>6, FlushedMakes
<1> HIDE DEF new
<1> QED BY <1>1, <1>9, <1>3, <1>7, FinishedWalk

\* Those of the paper
LEMMA PaperChildren ==
  ASSUME NEW g, g.blocks \in Seq(Block), Rising(g.blocks)
  PROVE  Whole(g, ChildrenOf("paper", g)) /\ Covered({}, g, ChildrenOf("paper", g))
<1> DEFINE seq == g.blocks
           title == g.title
           acc == Walk(Children, LAMBDA a, b : PaperStep(a, b, title), NoChildren, seq)
           type == PaperType(title)
           new == Flush(acc, type)
<1>1. ChildrenOf("paper", g) = new.done
  BY DEF ChildrenOf
<1>2. ASSUME Collected(title) PROVE Whole(g, new.done) /\ Covered({}, g, new.done)
  <2> DEFINE W == Makes(Plains, {<<>>}, {}, title)
  <2>1. acc \in Making(seq, W, Len(seq))
    BY <1>2, CollectedWalk
  <2>2. Allowed(W, Plains, {<<>>}, title)
    BY KindsAllowed
  <2>3. type \in {"paper_abstract", "paper_references"} /\ type \in ChunkType
    <3>1. type \in {"paper_abstract", "paper_references"}
      BY <1>2 DEF Collected, PaperType
    <3>2. "paper_abstract" \in ChunkType /\ "paper_references" \in ChunkType
      BY ChunkTypes
    <3> QED BY <3>1, <3>2
  <2>9. W.left = {}
    BY DEF Makes
  <2> HIDE DEF W, acc, type
  <2>4. Closable(acc, W, type)
    <3> DEFINE open == acc.open
               article == acc.article
    <3>1. W.good = Goods(title) /\ open \in Plains /\ article \in Title
      BY <2>1, <2>2, AllowedKinds, MakingParts
    <3>2. ASSUME open # <<>> PROVE Drafted(open, type, article) \in Goods(title)
      <4> HIDE DEF open, article
      <4> QED BY <2>3, <3>1, <3>2, PlainGood
    <3> QED BY <3>1, <3>2 DEF Closable
  <2>5. NoSteps(acc) /\ Kinds(W)
    BY <2>1, <2>2, NeverSteps, AllowedKinds
  <2>6. new \in Making(seq, W, Len(seq)) /\ NothingOpen(new) /\ NoSteps(new)
    BY <2>1, <2>4, <2>5, FlushedMakes
  <2> HIDE DEF new
  <2> QED BY <2>2, <2>9, <2>6, FinishedWalk
<1>3. ASSUME ~Collected(title) PROVE Whole(g, new.done) /\ Covered({}, g, new.done)
  <2> DEFINE W == Makes(Snugs, {<<>>}, {}, title)
  <2>1. acc \in Making(seq, W, Len(seq))
    BY <1>3, PaperWalk
  <2>2. Allowed(W, Snugs, {<<>>}, title)
    BY KindsAllowed
  <2>3. type \in ChunkType
    <3>1. type = "paper_text"
      BY <1>3 DEF Collected, PaperType
    <3> QED BY <3>1, ChunkTypes
  <2>9. W.left = {}
    BY DEF Makes
  <2> HIDE DEF W, acc, type
  <2>4. Closable(acc, W, type) /\ NoSteps(acc) /\ Kinds(W)
    BY <2>1, <2>2, <2>3, SnugCloses, NeverSteps, AllowedKinds
  <2>5. new \in Making(seq, W, Len(seq)) /\ NothingOpen(new) /\ NoSteps(new)
    BY <2>1, <2>4, FlushedMakes
  <2> HIDE DEF new
  <2> QED BY <2>2, <2>9, <2>5, FinishedWalk
<1> HIDE DEF new
<1> QED BY <1>1, <1>2, <1>3

\* What no child of a template holds
Spared(template, g) ==
    CASE template = "qa" -> Categories [] template = "contract_terms" -> Unwanted(g) [] OTHER -> {}
\* Whatever the template
LEMMA ChildrenWhole ==
  ASSUME NEW g, g.blocks \in Seq(Block), Rising(g.blocks), NEW template
  PROVE  Whole(g, ChildrenOf(template, g)) /\ Covered(Spared(template, g), g, ChildrenOf(template, g))
<1>1. CASE template \notin {"manual", "qa", "book", "paper", "laws", "contract_terms", "table_data",
                          "picture_pdf"}
  BY <1>1, GenericChildren DEF Spared
<1>2. CASE template \in {"manual", "qa", "book", "paper", "laws", "contract_terms", "table_data",
                         "picture_pdf"}
  BY <1>2, ManualChildren, QAChildren, BookChildren, PaperChildren, LawsChildren, ContractChildren,
     RowChildren, PageChildren DEF Spared
<1> QED BY <1>1, <1>2

-----------------------------------------------------------------------------
(* Groups *)

\* Precedes is an order.
LEMMA PrecedesOrders ==
  ASSUME NEW a \in Block, NEW b \in Block
  PROVE  /\ ~Precedes(a, a)
         /\ Precedes(a, b) => ~Precedes(b, a)
         /\ a.order # b.order /\ ~Precedes(a, b) => Precedes(b, a)
         /\ \A c \in Block : Precedes(a, b) /\ Precedes(b, c) => Precedes(a, c)
<1>1. \A x \in Block : x.page \in Nat /\ x.order \in Nat
  BY DEF Block
<1> QED BY <1>1 DEF Precedes

Obj == [key : Key, title : Title, blocks : Seq(Block)]
Name == [key : Key, object : Nat]

\* No block is in two groups.
Parted(objects) ==
    \A j, k \in 1..Len(objects) :
        j # k => ToSet(objects[j].blocks) \cap ToSet(objects[k].blocks) = {}
\* The first n blocks are in groups that are filed.
FiledUpto(objects, names, bs, n) ==
    \A i \in 1..n : \E k \in 1..Len(names) : bs[i] \in ToSet(objects[names[k].object].blocks)
\* Each block is in one group.
Dealt(objects, names, bs, n) == Parted(objects) /\ FiledUpto(objects, names, bs, n)

\* The walk over bs has come to block n; strict: a group has the key that it is filed under.
GroupsAt(objects, names, open, bs, n, lo, strict) ==
    /\ objects \in Seq(Obj) /\ names \in Seq(Name)
    /\ open \in lo..Len(objects)
    /\ \A k \in 1..Len(objects) : objects[k].blocks \in Upto(bs, n)
    /\ \A k \in 1..Len(names) : names[k].object \in 1..Len(objects)
    /\ \A j, k \in 1..Len(names) : names[j].key = names[k].key => j = k
    /\ strict => \A k \in 1..Len(names) : objects[names[k].object].key = names[k].key
    /\ Dealt(objects, names, bs, n)
Grouping(bs, n, lo, strict) ==
    {acc \in Groups : GroupsAt(acc.objects, acc.names, acc.open, bs, n, lo, strict)}

\* A state of the walk over all blocks, from its parts
LEMMA GroupedOf ==
  ASSUME NEW acc, NEW objects, NEW names, NEW open, NEW bs, NEW n, NEW lo \in Nat, NEW strict,
         GroupsAt(objects, names, open, bs, n, lo, strict),
         acc = [objects |-> objects, names |-> names, open |-> open]
  PROVE  acc \in Grouping(bs, n, lo, strict)
<1>1. objects \in Seq(Obj) /\ names \in Seq(Name) /\ open \in lo..Len(objects)
  BY DEF GroupsAt
<1>2. open \in Nat
  <2> DEFINE m == Len(objects)
  <2>1. open \in lo..m /\ m \in Nat
    BY <1>1
  <2> HIDE DEF m
  <2> QED BY <2>1
<1>3. acc \in Groups
  BY <1>1, <1>2 DEF Groups, Obj, Name
<1>4. acc.objects = objects /\ acc.names = names /\ acc.open = open
  OBVIOUS
<1> QED BY <1>3, <1>4 DEF Grouping

\* A state of the walk over all blocks, by its parts
LEMMA GroupedParts ==
  ASSUME NEW bs, NEW n, NEW lo, NEW strict, NEW acc \in Grouping(bs, n, lo, strict)
  PROVE  /\ GroupsAt(acc.objects, acc.names, acc.open, bs, n, lo, strict)
         /\ acc = [objects |-> acc.objects, names |-> acc.names, open |-> acc.open]
         /\ acc \in Groups
<1>1. acc \in Groups
  BY DEF Grouping
<1>2. acc = [objects |-> acc.objects, names |-> acc.names, open |-> acc.open]
  BY <1>1 DEF Groups
<1> QED BY <1>1, <1>2 DEF Grouping

\* Nothing is among any blocks.
LEMMA NothingUpto ==
  ASSUME NEW bs, NEW n
  PROVE  <<>> \in Upto(bs, n)
<1> DEFINE e == <<>>
<1>1. e \in Seq(Block) /\ Len(e) = 0
  OBVIOUS
<1> HIDE DEF e
<1>2. Rising(e) /\ \A k \in 1..Len(e) : \E j \in 1..n : e[k] = bs[j]
  BY <1>1 DEF Rising
<1>3. e \in Upto(bs, n)
  BY <1>1, <1>2 DEF Upto
<1> QED BY <1>3 DEF e

\* An empty group more
LEMMA DealtOpened ==
  ASSUME NEW objects, NEW names, NEW bs, NEW n, Dealt(objects, names, bs, n), NEW m \in Nat,
         Len(objects) = m, NEW more, Len(more) = m + 1, \A k \in 1..m : more[k] = objects[k],
         ToSet(more[m + 1].blocks) = {}, \A k \in 1..Len(names) : names[k].object \in 1..m
  PROVE  Dealt(more, names, bs, n)
<1>1. Parted(more)
  <2>1. ASSUME NEW j \in 1..Len(more), NEW k \in 1..Len(more), j # k
        PROVE  ToSet(more[j].blocks) \cap ToSet(more[k].blocks) = {}
    <3>1. (j \in 1..m \/ j = m + 1) /\ (k \in 1..m \/ k = m + 1)
      OBVIOUS
    <3>2. CASE j \in 1..m /\ k \in 1..m
      <4>1. more[j] = objects[j] /\ more[k] = objects[k] /\ j \in 1..Len(objects) /\ k \in 1..Len(objects)
        BY <3>2
      <4>2. ToSet(objects[j].blocks) \cap ToSet(objects[k].blocks) = {}
        BY <2>1, <4>1 DEF Dealt, Parted
      <4> QED BY <4>1, <4>2
    <3>3. CASE j = m + 1
      BY <3>3
    <3>4. CASE k = m + 1
      BY <3>4
    <3> QED BY <3>1, <3>2, <3>3, <3>4
  <2> QED BY <2>1 DEF Parted
<1>2. FiledUpto(more, names, bs, n)
  <2>1. ASSUME NEW i \in 1..n PROVE \E k \in 1..Len(names) : bs[i] \in ToSet(more[names[k].object].blocks)
    <3>1. PICK k \in 1..Len(names) : bs[i] \in ToSet(objects[names[k].object].blocks)
      BY DEF Dealt, FiledUpto
    <3>2. more[names[k].object] = objects[names[k].object]
      OBVIOUS
    <3> QED BY <3>1, <3>2
  <2> QED BY <2>1 DEF FiledUpto
<1> QED BY <1>1, <1>2 DEF Dealt

\* Groups with the same blocks
LEMMA DealtSame ==
  ASSUME NEW objects, NEW names, NEW bs, NEW n, Dealt(objects, names, bs, n),
         NEW next, Len(next) = Len(objects),
         \A k \in 1..Len(objects) : next[k].blocks = objects[k].blocks,
         \A k \in 1..Len(names) : names[k].object \in 1..Len(objects)
  PROVE  Dealt(next, names, bs, n)
<1>1. Parted(next)
  BY DEF Dealt, Parted
<1>2. FiledUpto(next, names, bs, n)
  <2>1. ASSUME NEW i \in 1..n PROVE \E k \in 1..Len(names) : bs[i] \in ToSet(next[names[k].object].blocks)
    <3>1. PICK k \in 1..Len(names) : bs[i] \in ToSet(objects[names[k].object].blocks)
      BY DEF Dealt, FiledUpto
    <3>2. next[names[k].object].blocks = objects[names[k].object].blocks
      OBVIOUS
    <3> QED BY <3>1, <3>2
  <2> QED BY <2>1 DEF FiledUpto
<1> QED BY <1>1, <1>2 DEF Dealt

\* A new group
LEMMA OpenedGroup ==
  ASSUME NEW bs, NEW n, NEW lo \in {0, 1}, NEW strict, NEW acc \in Grouping(bs, n, lo, strict),
         NEW key \in Key, NEW title \in Title
  PROVE  LET new == OpenGroup(acc, key, title)
         IN  new \in Grouping(bs, n, 1, strict) /\ new.objects[new.open].key = key
<1> DEFINE objects == acc.objects
           names == acc.names
           open == acc.open
           g == Group(key, title)
           m == Len(objects)
           more == Append(objects, g)
           next == m + 1
           new == OpenGroup(acc, key, title)
<1>1. /\ GroupsAt(objects, names, open, bs, n, lo, strict)
      /\ acc = [objects |-> objects, names |-> names, open |-> open]
  BY GroupedParts
<1>2. new = [acc EXCEPT !.objects = more, !.open = next]
  BY DEF OpenGroup
<1>3. g \in Obj /\ g.blocks = <<>> /\ g.key = key
  BY DEF Group, Obj
<1> HIDE DEF objects, names, open, g
<1>4. /\ objects \in Seq(Obj) /\ names \in Seq(Name)
      /\ \A k \in 1..m : objects[k].blocks \in Upto(bs, n)
      /\ \A k \in 1..Len(names) : names[k].object \in 1..m
      /\ \A j, k \in 1..Len(names) : names[j].key = names[k].key => j = k
      /\ strict => \A k \in 1..Len(names) : objects[names[k].object].key = names[k].key
      /\ Dealt(objects, names, bs, n)
  BY <1>1 DEF GroupsAt
<1>5. /\ more \in Seq(Obj) /\ Len(more) = next /\ m \in Nat /\ more[next] = g
      /\ \A k \in 1..m : more[k] = objects[k]
  BY <1>3, <1>4
<1>6. new = [objects |-> more, names |-> names, open |-> next]
  BY <1>1, <1>2
<1> HIDE DEF more, new, m
<1>7. GroupsAt(more, names, next, bs, n, 1, strict)
  <2>1. next \in 1..Len(more)
    BY <1>5
  <2>2. ASSUME NEW k \in 1..Len(more) PROVE more[k].blocks \in Upto(bs, n)
    <3>1. CASE k \in 1..m
      BY <1>4, <1>5, <3>1
    <3>2. CASE k = next
      BY <1>3, <1>5, <3>2, NothingUpto
    <3> QED BY <1>5, <3>1, <3>2
  <2>3. \A k \in 1..Len(names) : names[k].object \in 1..Len(more) /\ names[k].object \in 1..m
    BY <1>4, <1>5
  <2>4. strict => \A k \in 1..Len(names) : more[names[k].object].key = names[k].key
    BY <1>4, <1>5, <2>3
  <2>5. Dealt(more, names, bs, n)
    <3>1. ToSet(more[next].blocks) = {}
      BY <1>3, <1>5, ToSetEmpty
    <3>2. Len(objects) = m
      BY DEF m
    <3>3. Len(more) = m + 1 /\ ToSet(more[m + 1].blocks) = {}
      BY <1>5, <3>1 DEF next
    <3> QED BY <1>4, <1>5, <3>2, <3>3, DealtOpened
  <2> QED BY <1>4, <1>5, <2>1, <2>2, <2>3, <2>4, <2>5 DEF GroupsAt
<1>8. new.objects[new.open].key = key
  BY <1>3, <1>5, <1>6
<1> HIDE DEF next
<1>9. new \in Grouping(bs, n, 1, strict)
  BY <1>6, <1>7, GroupedOf
<1> QED BY <1>8, <1>9 DEF new

\* No group is filed yet, where that matters.
Unfiled(acc, strict) == strict => acc.names = <<>>

\* What takes the place of the open group has its blocks.
Retitling(acc, p, new) ==
    /\ p \in Obj /\ p.blocks = acc.objects[acc.open].blocks
    /\ new = [acc EXCEPT !.objects = [@ EXCEPT ![acc.open] = p]]
KeepsKey(acc, p) == p.key = acc.objects[acc.open].key

\* The open group gets another title, and another key if it is not filed under the old one.
LEMMA RetitledGroup ==
  ASSUME NEW bs, NEW n, NEW strict, NEW acc \in Grouping(bs, n, 1, strict),
         NEW p, NEW new, Retitling(acc, p, new), KeepsKey(acc, p) \/ Unfiled(acc, strict)
  PROVE  /\ new \in Grouping(bs, n, 1, strict)
         /\ new.names = acc.names /\ new.open = acc.open
         /\ new.objects[new.open].key = p.key
<1> DEFINE objects == acc.objects
           names == acc.names
           open == acc.open
           o == objects[open]
           next == [objects EXCEPT ![open] = p]
<1>1. /\ GroupsAt(objects, names, open, bs, n, 1, strict)
      /\ acc = [objects |-> objects, names |-> names, open |-> open]
  BY GroupedParts
<1>2. new = [acc EXCEPT !.objects = next] /\ p \in Obj
  BY DEF Retitling
<1>3. /\ p.key = o.key \/ (strict => names = <<>>)
      /\ p.blocks = o.blocks
  BY DEF Unfiled, KeepsKey, Retitling
<1> HIDE DEF objects, names, open
<1>4. /\ objects \in Seq(Obj) /\ names \in Seq(Name) /\ open \in 1..Len(objects)
      /\ \A k \in 1..Len(objects) : objects[k].blocks \in Upto(bs, n)
      /\ \A k \in 1..Len(names) : names[k].object \in 1..Len(objects)
      /\ \A j, k \in 1..Len(names) : names[j].key = names[k].key => j = k
      /\ strict => \A k \in 1..Len(names) : objects[names[k].object].key = names[k].key
      /\ Dealt(objects, names, bs, n)
  BY <1>1 DEF GroupsAt
<1>8. /\ next \in Seq(Obj) /\ Len(next) = Len(objects) /\ next[open] = p
      /\ \A k \in 1..Len(objects) : k # open => next[k] = objects[k]
  BY <1>2, <1>4, PutElement
<1> HIDE DEF next
<1>9. new = [objects |-> next, names |-> names, open |-> open]
  BY <1>1, <1>2
<1>10. GroupsAt(next, names, open, bs, n, 1, strict)
  <2>1. \A k \in 1..Len(next) : next[k].blocks \in Upto(bs, n)
    BY <1>3, <1>4, <1>8
  <2>2. ASSUME strict, NEW k \in 1..Len(names) PROVE next[names[k].object].key = names[k].key
    <3>1. CASE names[k].object = open
      <4>1. Len(names) # 0
        BY <1>4, <2>2
      <4>2. p.key = o.key
        BY <1>3, <2>2, <4>1
      <4> QED BY <1>4, <1>8, <2>2, <3>1, <4>2
    <3>2. CASE names[k].object # open
      BY <1>4, <1>8, <2>2, <3>2
    <3> QED BY <3>1, <3>2
  <2>3. Dealt(next, names, bs, n)
    <3>1. \A k \in 1..Len(objects) : next[k].blocks = objects[k].blocks
      BY <1>3, <1>8
    <3> QED BY <1>4, <1>8, <3>1, DealtSame
  <2> QED BY <1>4, <1>8, <2>1, <2>2, <2>3 DEF GroupsAt
<1>11. new \in Grouping(bs, n, 1, strict)
  BY <1>9, <1>10, GroupedOf
<1>12. new.names = names /\ new.open = open /\ new.objects[new.open].key = p.key
  BY <1>4, <1>8, <1>9
<1> QED BY <1>11, <1>12 DEF names, open

\* The block that a walk over all blocks has come to is appended to a group.
Filing(bs, n, b, objects, object, p, next) ==
    /\ Coming(bs, n, b) /\ objects \in Seq(Obj) /\ object \in 1..Len(objects) /\ p \in Obj
    /\ \A k \in 1..Len(objects) : objects[k].blocks \in Upto(bs, n - 1)
    /\ p.blocks = Append(objects[object].blocks, b) /\ p.key = objects[object].key
    /\ next = [objects EXCEPT ![object] = p]

\* One more block in one of the groups
Longer(objects, object, b, next) ==
    /\ Len(next) = Len(objects) /\ object \in 1..Len(objects)
    /\ ToSet(next[object].blocks) = ToSet(objects[object].blocks) \cup {b}
    /\ \A k \in 1..Len(objects) : k # object => next[k].blocks = objects[k].blocks
    /\ \A k \in 1..Len(objects) : b \notin ToSet(objects[k].blocks)
\* The names are there still, and one is of that group.
NamedMore(names, more, object, M) ==
    /\ \A k \in 1..Len(names) : names[k].object \in 1..M
    /\ \A k \in 1..Len(names) : k \in 1..Len(more) /\ more[k] = names[k]
    /\ \E k \in 1..Len(more) : more[k].object = object
\* The next block goes into one group only.
LEMMA DealtFiled ==
  ASSUME NEW objects, NEW names, NEW bs, NEW n \in Nat, Dealt(objects, names, bs, n - 1),
         NEW object, NEW next, Longer(objects, object, bs[n], next),
         NEW more, NamedMore(names, more, object, Len(objects))
  PROVE  Dealt(next, more, bs, n)
<1>1. ASSUME NEW j \in 1..Len(next), NEW k \in 1..Len(next), j # k
      PROVE  ToSet(next[j].blocks) \cap ToSet(next[k].blocks) = {}
  <2>1. /\ ToSet(objects[j].blocks) \cap ToSet(objects[k].blocks) = {}
        /\ bs[n] \notin ToSet(objects[j].blocks) /\ bs[n] \notin ToSet(objects[k].blocks)
    BY <1>1 DEF Dealt, Parted, Longer
  <2>2. /\ ToSet(next[object].blocks) = ToSet(objects[object].blocks) \cup {bs[n]}
        /\ j # object => next[j].blocks = objects[j].blocks
        /\ k # object => next[k].blocks = objects[k].blocks
    BY <1>1 DEF Longer
  <2>3. CASE j # object /\ k # object
    BY <2>1, <2>2, <2>3
  <2>4. CASE j = object
    BY <1>1, <2>1, <2>2, <2>4
  <2>5. CASE k = object
    BY <1>1, <2>1, <2>2, <2>5
  <2> QED BY <2>3, <2>4, <2>5
<1>2. \A k \in 1..Len(objects) : \A x \in ToSet(objects[k].blocks) : x \in ToSet(next[k].blocks)
  <2> TAKE k \in 1..Len(objects)
  <2>1. CASE k = object
    BY <2>1 DEF Longer
  <2>2. CASE k # object
    BY <2>2 DEF Longer
  <2> QED BY <2>1, <2>2
<1>3. ASSUME NEW i \in 1..n PROVE \E k \in 1..Len(more) : bs[i] \in ToSet(next[more[k].object].blocks)
  <2>1. CASE i = n
    <3>1. PICK k \in 1..Len(more) : more[k].object = object
      BY DEF NamedMore
    <3>2. bs[n] \in ToSet(next[object].blocks)
      BY DEF Longer
    <3> QED BY <2>1, <3>1, <3>2
  <2>2. CASE i # n
    <3>1. i \in 1..(n - 1)
      BY <2>2
    <3>2. PICK k \in 1..Len(names) : bs[i] \in ToSet(objects[names[k].object].blocks)
      BY <3>1 DEF Dealt, FiledUpto
    <3>3. k \in 1..Len(more) /\ more[k] = names[k] /\ names[k].object \in 1..Len(objects)
      BY DEF NamedMore
    <3>4. bs[i] \in ToSet(next[names[k].object].blocks)
      BY <1>2, <3>2, <3>3
    <3> QED BY <3>3, <3>4
  <2> QED BY <2>1, <2>2
<1> QED BY <1>1, <1>3 DEF Dealt, Parted, FiledUpto

\* The block that the walk has come to is in no group yet.
LEMMA ComesNew ==
  ASSUME NEW bs, NEW n, NEW b, Coming(bs, n, b), NEW s \in Upto(bs, n - 1)
  PROVE  s \in Seq(Block) /\ b \notin ToSet(s)
<1>1. bs \in Seq(Block) /\ Rising(bs) /\ n \in 1..Len(bs) /\ b = bs[n] /\ b \in Block
  BY DEF Coming
<1>2. s \in Seq(Block) /\ \A k \in 1..Len(s) : \E j \in 1..(n - 1) : s[k] = bs[j]
  BY DEF Upto
<1>3. ASSUME b \in ToSet(s) PROVE FALSE
  <2>1. PICK k \in 1..Len(s) : b = s[k]
    <3>1. DOMAIN s = 1..Len(s)
      BY <1>2
    <3> QED BY <1>3, <3>1 DEF ToSet
  <2>2. PICK j \in 1..(n - 1) : b = bs[j]
    BY <1>2, <2>1
  <2>3. j \in 1..Len(bs) /\ j < n
    BY <1>1, <2>2
  <2>4. Precedes(bs[j], bs[n])
    BY <1>1, <2>3 DEF Rising
  <2>5. Precedes(b, b)
    BY <1>1, <2>2, <2>4
  <2> QED BY <1>1, <2>5, PrecedesOrders
<1> QED BY <1>2, <1>3

\* Filing a block keeps the groups and their keys.
LEMMA FiledInObject ==
  ASSUME NEW bs, NEW n, NEW b, NEW objects, NEW object, NEW p, NEW next,
         Filing(bs, n, b, objects, object, p, next)
  PROVE  /\ next \in Seq(Obj) /\ Len(next) = Len(objects)
         /\ \A k \in 1..Len(objects) : next[k].blocks \in Upto(bs, n) /\ next[k].key = objects[k].key
         /\ Longer(objects, object, b, next)
<1> DEFINE s == objects[object].blocks
<1>1. bs \in Seq(Block) /\ Rising(bs) /\ n \in 1..Len(bs) /\ b = bs[n]
  BY DEF Filing, Coming
<1>2. s \in Upto(bs, n - 1) /\ p.blocks = Append(s, b)
  BY DEF Filing
<1>3. p.blocks \in Upto(bs, n)
  <2> HIDE DEF s
  <2> QED BY <1>1, <1>2, UptoAppend
<1>4. /\ next \in Seq(Obj) /\ Len(next) = Len(objects) /\ next[object] = p
      /\ \A k \in 1..Len(objects) : k # object => next[k] = objects[k]
  <2> DEFINE T == Obj
  <2>1. objects \in Seq(T) /\ p \in T /\ object \in 1..Len(objects)
        /\ next = [objects EXCEPT ![object] = p]
    BY DEF Filing
  <2> HIDE DEF T
  <2>2. /\ next \in Seq(T) /\ Len(next) = Len(objects) /\ next[object] = p
        /\ \A k \in 1..Len(objects) : k # object => next[k] = objects[k]
    BY <2>1, PutElement
  <2> QED BY <2>2 DEF T
<1>5. \A t \in Upto(bs, n - 1) : t \in Upto(bs, n)
  <2>1. n - 1 \in Nat /\ (n - 1) + 1 = n
    BY <1>1
  <2> QED BY <2>1, UptoWider
<1>6. ASSUME NEW k \in 1..Len(objects)
      PROVE  next[k].blocks \in Upto(bs, n) /\ next[k].key = objects[k].key
  <2>1. objects[k].blocks \in Upto(bs, n - 1) /\ p.key = objects[object].key
    BY DEF Filing
  <2>2. CASE k = object
    BY <1>3, <1>4, <2>1, <2>2
  <2>3. CASE k # object
    BY <1>4, <1>5, <2>1, <2>3
  <2> QED BY <2>2, <2>3
<1>7. \A k \in 1..Len(objects) : objects[k].blocks \in Seq(Block) /\ b \notin ToSet(objects[k].blocks)
  <2>1. Coming(bs, n, b) /\ \A k \in 1..Len(objects) : objects[k].blocks \in Upto(bs, n - 1)
    BY DEF Filing
  <2> QED BY <2>1, ComesNew
<1>8. Longer(objects, object, b, next)
  <2>1. object \in 1..Len(objects) /\ b \in Block
    BY ComingBlock DEF Filing
  <2>2. s \in Seq(Block) /\ next[object].blocks = Append(s, b)
    BY <1>2, <1>4, <1>7, <2>1
  <2> HIDE DEF s
  <2>3. ToSet(Append(s, b)) = ToSet(s) \cup {b}
    BY <2>1, <2>2, AppendedPart
  <2>4. \A k \in 1..Len(objects) : k # object => next[k].blocks = objects[k].blocks
    BY <1>4
  <2> QED BY <1>4, <1>7, <2>1, <2>2, <2>3, <2>4 DEF Longer, s
<1> QED BY <1>4, <1>6, <1>8

\* A block is filed under the key of the open group.
LEMMA FiledGroup ==
  ASSUME NEW bs, NEW n, NEW b, Coming(bs, n, b), NEW strict, NEW acc \in Grouping(bs, n - 1, 1, strict)
  PROVE  /\ File(acc, b) \in Grouping(bs, n, 1, strict)
         /\ File(acc, b).open = acc.open
         /\ File(acc, b).objects[acc.open].key = acc.objects[acc.open].key
<1> DEFINE objects == acc.objects
           names == acc.names
           open == acc.open
           key == objects[open].key
           known == SelectInSeq(names, LAMBDA x : x.key = key)
           I == {i \in 1..Len(names) : names[i].key = key}
           object == IF known = 0 THEN open ELSE names[known].object
           o == objects[object]
           longer == Append(o.blocks, b)
           p == [o EXCEPT !.blocks = longer]
           next == [objects EXCEPT ![object] = p]
           name == [key |-> key, object |-> open]
           more == IF known # 0 THEN names ELSE Append(names, name)
           new == File(acc, b)
           m == n - 1
<1>1. /\ GroupsAt(objects, names, open, bs, m, 1, strict)
      /\ acc = [objects |-> objects, names |-> names, open |-> open]
  <2>1. acc \in Grouping(bs, m, 1, strict)
    OBVIOUS
  <2> HIDE DEF m
  <2> QED BY <2>1, GroupedParts
<1>2. new = [acc EXCEPT !.objects[object].blocks = Append(@, b), !.names = more]
  BY DEF File, Opened
<1>3. known = IF I # {} THEN Min(I) ELSE 0
  BY DEF SelectInSeq
<1> HIDE DEF known, objects, names, open
<1>4. /\ objects \in Seq(Obj) /\ names \in Seq(Name) /\ open \in 1..Len(objects)
      /\ \A k \in 1..Len(objects) : objects[k].blocks \in Upto(bs, m)
      /\ \A k \in 1..Len(names) : names[k].object \in 1..Len(objects)
      /\ \A j, k \in 1..Len(names) : names[j].key = names[k].key => j = k
      /\ strict => \A k \in 1..Len(names) : objects[names[k].object].key = names[k].key
      /\ Dealt(objects, names, bs, m)
  BY <1>1 DEF GroupsAt
<1>5. \/ known = 0 /\ I = {}
      \/ known \in I /\ known \in 1..Len(names)
  <2>1. Len(names) \in Nat /\ I \subseteq 1..Len(names)
    BY <1>4
  <2> HIDE DEF I
  <2> QED BY <1>3, <2>1, FirstOf
<1>6. object \in 1..Len(objects)
  BY <1>4, <1>5
<1> HIDE DEF object
<1>7. /\ next \in Seq(Obj) /\ Len(next) = Len(objects)
      /\ \A k \in 1..Len(objects) : next[k].blocks \in Upto(bs, n) /\ next[k].key = objects[k].key
      /\ Longer(objects, object, b, next)
  <2>1. objects \in Seq(Obj) /\ \A k \in 1..Len(objects) : objects[k].blocks \in Upto(bs, n - 1)
    BY <1>4
  <2>2. o \in Obj /\ b \in Block /\ o.blocks \in Seq(Block)
    <3>1. o \in Obj
      BY <1>6, <2>1
    <3> HIDE DEF o
    <3>2. o.blocks \in Seq(Block)
      BY <3>1 DEF Obj
    <3> QED BY <3>1, <3>2, ComingBlock
  <2>3. longer \in Seq(Block)
    <3> HIDE DEF o
    <3> QED BY <2>2
  <2>4. p \in Obj /\ p.blocks = longer /\ p.key = o.key
    <3> HIDE DEF o, longer
    <3> QED BY <2>2, <2>3 DEF Obj
  <2> HIDE DEF p, next
  <2>5. next = [objects EXCEPT ![object] = p]
    BY DEF next
  <2>6. p.blocks = Append(objects[object].blocks, b) /\ p.key = objects[object].key
    BY <2>4
  <2> HIDE DEF o, longer
  <2>7. Filing(bs, n, b, objects, object, p, next)
    BY <1>6, <2>1, <2>4, <2>5, <2>6 DEF Filing
  <2> QED BY <2>7, FiledInObject
<1>8. name \in Name /\ name.key = key /\ name.object = open
  <2>1. objects[open] \in Obj
    BY <1>4
  <2>2. key \in Key
    BY <2>1 DEF Obj
  <2>3. open \in Nat
    BY <1>4
  <2> QED BY <2>2, <2>3 DEF Name
<1>9. new = [objects |-> next, names |-> more, open |-> open]
  <2>1. new = [acc EXCEPT !.objects = next, !.names = more]
    <3>1. next = [objects EXCEPT ![object].blocks = Append(@, b)]
      OBVIOUS
    <3> HIDE DEF next
    <3> QED BY <1>1, <1>2, <3>1
  <2> HIDE DEF next, more, new
  <2> QED BY <1>1, <2>1
<1> HIDE DEF next, new, name, p, o, longer
<1>10. /\ more \in Seq(Name)
       /\ \A k \in 1..Len(more) : more[k].object \in 1..Len(objects)
       /\ \A j, k \in 1..Len(more) : more[j].key = more[k].key => j = k
       /\ strict => \A k \in 1..Len(more) : objects[more[k].object].key = more[k].key
       /\ NamedMore(names, more, object, Len(objects))
  <2>1. CASE known # 0
    <3>1. more = names /\ object = names[known].object /\ known \in 1..Len(names)
      BY <1>5, <2>1 DEF object
    <3>2. NamedMore(names, more, object, Len(objects))
      BY <1>4, <3>1 DEF NamedMore
    <3> QED BY <1>4, <3>1, <3>2
  <2>2. CASE known = 0
    <3> DEFINE w == Len(names)
    <3>1. /\ more \in Seq(Name) /\ Len(more) = w + 1 /\ w \in Nat /\ more[w + 1] = name
          /\ \A k \in 1..w : more[k] = names[k]
      BY <1>4, <1>8, <2>2
    <3>2. I = {}
      BY <1>5, <2>2
    <3>3. \A k \in 1..w : names[k].key # key
      BY <3>2
    <3>4. \A k \in 1..Len(more) : k \in 1..w \/ k = w + 1
      BY <3>1
    <3> HIDE DEF more
    <3>5. ASSUME NEW k \in 1..Len(more) PROVE more[k].object \in 1..Len(objects)
      BY <1>4, <1>8, <3>1, <3>4
    <3>6. ASSUME NEW j \in 1..Len(more), NEW k \in 1..Len(more), more[j].key = more[k].key
          PROVE  j = k
      <4>1. CASE j \in 1..w /\ k \in 1..w
        BY <1>4, <3>1, <3>6, <4>1
      <4>2. CASE j \in 1..w /\ k = w + 1
        BY <1>8, <3>1, <3>3, <3>6, <4>2
      <4>3. CASE j = w + 1 /\ k \in 1..w
        BY <1>8, <3>1, <3>3, <3>6, <4>3
      <4>4. CASE j = w + 1 /\ k = w + 1
        BY <4>4
      <4> QED BY <3>4, <4>1, <4>2, <4>3, <4>4
    <3>7. ASSUME strict, NEW k \in 1..Len(more) PROVE objects[more[k].object].key = more[k].key
      BY <1>4, <1>8, <3>1, <3>4, <3>7
    <3>8. NamedMore(names, more, object, Len(objects))
      <4>1. object = open /\ w + 1 \in 1..Len(more) /\ more[w + 1].object = object
        BY <1>8, <2>2, <3>1 DEF object
      <4>2. \A k \in 1..Len(names) : k \in 1..Len(more) /\ more[k] = names[k]
        BY <3>1
      <4> QED BY <1>4, <4>1, <4>2 DEF NamedMore
    <3> QED BY <3>1, <3>5, <3>6, <3>7, <3>8
  <2> QED BY <2>1, <2>2
<1> HIDE DEF more
<1>11. GroupsAt(next, more, open, bs, n, 1, strict)
  <2>1. \A k \in 1..Len(next) : next[k].blocks \in Upto(bs, n)
    BY <1>7
  <2>2. open \in 1..Len(next) /\ \A k \in 1..Len(more) : more[k].object \in 1..Len(next)
    BY <1>4, <1>7, <1>10
  <2>3. strict => \A k \in 1..Len(more) : next[more[k].object].key = more[k].key
    BY <1>7, <1>10
  <2>4. Dealt(next, more, bs, n)
    <3>1. n \in Nat /\ b = bs[n]
      BY DEF Coming
    <3>2. Dealt(objects, names, bs, n - 1) /\ Longer(objects, object, bs[n], next)
          /\ NamedMore(names, more, object, Len(objects))
      BY <1>4, <1>7, <1>10, <3>1
    <3> QED BY <3>1, <3>2, DealtFiled
  <2> QED BY <1>7, <1>10, <2>1, <2>2, <2>3, <2>4 DEF GroupsAt
<1>12. new \in Grouping(bs, n, 1, strict)
  BY <1>9, <1>11, GroupedOf
<1>13. new.open = open /\ new.objects[open].key = objects[open].key
  BY <1>4, <1>7, <1>9
<1> QED BY <1>12, <1>13 DEF new, open, objects

\* The open group and its key
LEMMA OpenIsGroup ==
  ASSUME NEW bs, NEW n, NEW strict, NEW acc \in Grouping(bs, n, 1, strict)
  PROVE  Opened(acc) \in Obj /\ Opened(acc) = acc.objects[acc.open] /\ acc.open \in 1..Len(acc.objects)
<1>1. GroupsAt(acc.objects, acc.names, acc.open, bs, n, 1, strict)
  BY GroupedParts
<1> DEFINE objects == acc.objects
           open == acc.open
<1>2. objects \in Seq(Obj) /\ open \in 1..Len(objects)
  BY <1>1 DEF GroupsAt
<1>3. objects[open] \in Obj
  <2> HIDE DEF objects, open
  <2> QED BY <1>2
<1> QED BY <1>2, <1>3 DEF Opened

\* Titles and numbered titles are keys, and two titles two keys.
LEMMA NamedKey ==
  ASSUME NEW title \in Title
  PROVE  /\ Named(title) \in Key /\ \A n \in Nat : <<title, n>> \in Key
         /\ \A other \in Title : Named(other) = Named(title) => other = title
  BY DEF Named, Key

\* The default group gets its name before it is filed.
LEMMA RenamedGroup ==
  ASSUME NEW bs, NEW n, NEW strict, NEW acc \in Grouping(bs, n, 1, strict), NEW b,
         Head(b.path) \in Title, Unfiled(acc, strict)
  PROVE  /\ Renamed(acc, b) \in Grouping(bs, n, 1, strict)
         /\ Renamed(acc, b).objects[Renamed(acc, b).open].key = Named(Head(b.path))
<1> DEFINE o == Opened(acc)
           title == Head(b.path)
           key == Named(title)
           p == [o EXCEPT !.key = key, !.title = title]
           new == Renamed(acc, b)
           objects == acc.objects
           open == acc.open
<1>1. o \in Obj /\ o = objects[open]
  BY OpenIsGroup
<1>2. key \in Key /\ title \in Title
  BY NamedKey
<1>3. new = [acc EXCEPT !.objects[open].key = key, !.objects[open].title = title]
  BY DEF Renamed
<1> HIDE DEF o, key, title
<1>4. p \in Obj /\ p.blocks = o.blocks /\ p.key = key
  BY <1>1, <1>2 DEF Obj
<1>5. acc \in Groups /\ objects \in Seq(Obj) /\ open \in 1..Len(objects)
  <2>1. acc \in Groups /\ GroupsAt(acc.objects, acc.names, acc.open, bs, n, 1, strict)
    BY GroupedParts
  <2> QED BY <2>1 DEF GroupsAt
<1>6. new = [acc EXCEPT !.objects = [@ EXCEPT ![open] = p]]
  <2>1. new = [acc EXCEPT !.objects = [[objects EXCEPT ![open].key = key] EXCEPT ![open].title = title]]
    BY <1>3, <1>5 DEF Groups
  <2> HIDE DEF objects, open, new
  <2>2. [[objects EXCEPT ![open].key = key] EXCEPT ![open].title = title] = [objects EXCEPT ![open] = p]
    BY <1>1, <1>5
  <2>3. new = [acc EXCEPT !.objects = [objects EXCEPT ![open] = p]]
    BY <2>1, <2>2
  <2> QED BY <2>3 DEF objects
<1> HIDE DEF p, new
<1>7. Retitling(acc, p, new)
  BY <1>1, <1>4, <1>6 DEF Retitling
<1>9. new \in Grouping(bs, n, 1, strict) /\ new.objects[new.open].key = p.key
  BY <1>7, RetitledGroup
<1> QED BY <1>4, <1>9 DEF new, key, title

\* Only the title of the default group is another one.
LEMMA TitledGroup ==
  ASSUME NEW bs, NEW n, NEW strict, NEW acc \in Grouping(bs, n, 1, strict), NEW b,
         Head(b.path) \in Title
  PROVE  Titled(acc, b) \in Grouping(bs, n, 1, strict)
<1> DEFINE o == Opened(acc)
           title == Head(b.path)
           p == [o EXCEPT !.title = title]
           new == Titled(acc, b)
           objects == acc.objects
           open == acc.open
<1>1. o \in Obj /\ o = objects[open]
  BY OpenIsGroup
<1>2. title \in Title
  OBVIOUS
<1>3. new = [acc EXCEPT !.objects[open].title = title]
  BY DEF Titled
<1> HIDE DEF o, title
<1>4. p \in Obj /\ p.blocks = o.blocks /\ p.key = o.key
  BY <1>1, <1>2 DEF Obj
<1>5. acc \in Groups /\ objects \in Seq(Obj) /\ open \in 1..Len(objects)
  <2>1. acc \in Groups /\ GroupsAt(acc.objects, acc.names, acc.open, bs, n, 1, strict)
    BY GroupedParts
  <2> QED BY <2>1 DEF GroupsAt
<1>6. new = [acc EXCEPT !.objects = [@ EXCEPT ![open] = p]]
  <2>1. new = [acc EXCEPT !.objects = [objects EXCEPT ![open].title = title]]
    BY <1>3, <1>5 DEF Groups
  <2> HIDE DEF objects, open, new
  <2>2. [objects EXCEPT ![open].title = title] = [objects EXCEPT ![open] = p]
    BY <1>1, <1>5
  <2>3. new = [acc EXCEPT !.objects = [objects EXCEPT ![open] = p]]
    BY <2>1, <2>2
  <2> QED BY <2>3 DEF objects
<1> HIDE DEF p, new
<1>7. Retitling(acc, p, new) /\ KeepsKey(acc, p)
  BY <1>1, <1>4, <1>6 DEF Retitling, KeepsKey
<1>9. new \in Grouping(bs, n, 1, strict)
  BY <1>7, RetitledGroup
<1> QED BY <1>9 DEF new

\* The dictionary that a chunker starts with
LEMMA DefaultGroups ==
  ASSUME NEW bs, NEW strict
  PROVE  /\ NoGroups \in Grouping(bs, 0, 0, strict)
         /\ \A t : DefaultTitle(t) \in Title
         /\ \A t : Default(t) \in Grouping(bs, 0, 1, strict) /\ Default(t).names = <<>>
<1> DEFINE e == <<>>
<1>1. NoGroups = [objects |-> e, names |-> e, open |-> 0]
  BY DEF NoGroups
<1>2. GroupsAt(e, e, 0, bs, 0, 0, strict)
  <2>1. e \in Seq(Obj) /\ e \in Seq(Name) /\ Len(e) = 0
    OBVIOUS
  <2> HIDE DEF e
  <2>2. Dealt(e, e, bs, 0)
    BY <2>1 DEF Dealt, Parted, FiledUpto
  <2> QED BY <2>1, <2>2 DEF GroupsAt
<1> HIDE DEF e
<1>3. NoGroups \in Grouping(bs, 0, 0, strict)
  BY <1>1, <1>2, GroupedOf
<1>4. ASSUME NEW t PROVE DefaultTitle(t) \in Title
  <2>1. DefaultTitle(t) \in {<<"Manual">>, <<"QA">>, <<"Front Matter">>, <<"Document">>}
    BY Zenon DEF DefaultTitle
  <2>2. {<<"Manual">>, <<"QA">>, <<"Front Matter">>, <<"Document">>} \subseteq Title
    BY DEF Title, Word
  <2> QED BY <2>1, <2>2
<1>5. ASSUME NEW t PROVE Default(t) \in Grouping(bs, 0, 1, strict) /\ Default(t).names = <<>>
  <2> DEFINE title == DefaultTitle(t)
             key == Named(title)
  <2>1. title \in Title /\ key \in Key
    BY <1>4, NamedKey
  <2>2. Default(t) = OpenGroup(NoGroups, key, title)
    BY DEF Default
  <2> HIDE DEF title, key
  <2>3. OpenGroup(NoGroups, key, title) \in Grouping(bs, 0, 1, strict)
    BY <1>3, <2>1, OpenedGroup
  <2>4. OpenGroup(NoGroups, key, title).names = <<>>
    BY DEF OpenGroup, NoGroups
  <2> QED BY <2>2, <2>3, <2>4
<1> QED BY <1>3, <1>4, <1>5

\* A block that the sections have given its place
Entry(b) == b \in Block /\ b.path # <<>>
\* Neither its title nor its first heading is that of the group a template starts with.
Apart(b, d) == d # b.title /\ d # Head(b.path)
Elsewhere(acc, d) == Opened(acc).key # Named(d)
\* The group that a template starts with is not filed under its first name.
Settling(bs, n, strict, d) ==
    {acc \in Grouping(bs, n, 1, strict) : Unfiled(acc, strict) \/ (strict => Elsewhere(acc, d))}

\* A block with its place, by its parts
LEMMA EntryParts ==
  ASSUME NEW b, Entry(b)
  PROVE  /\ b.title \in Title /\ Head(b.path) \in Title /\ b.path \in Seq(Title) /\ b.path # <<>>
         /\ b.sheet \in Title /\ b.page \in Nat /\ b \in Block
<1>1. b \in Block /\ b.path # <<>>
  BY DEF Entry
<1>2. b.title \in Title /\ b.path \in Seq(Title) /\ b.sheet \in Title /\ b.page \in Nat
  BY <1>1 DEF Block
<1>3. Head(b.path) \in Title
  <2> DEFINE T == Title
             p == b.path
  <2>1. p \in Seq(T) /\ p # <<>>
    BY <1>1, <1>2
  <2> HIDE DEF T, p
  <2>2. Head(p) \in T
    BY <2>1
  <2> QED BY <2>2 DEF T, p
<1> QED BY <1>1, <1>2, <1>3

\* A block that is filed
LEMMA FileSettles ==
  ASSUME NEW bs, NEW n, NEW b, Coming(bs, n, b), NEW strict, NEW d,
         NEW acc \in Grouping(bs, n - 1, 1, strict), strict => Elsewhere(acc, d)
  PROVE  File(acc, b) \in Settling(bs, n, strict, d)
<1> DEFINE new == File(acc, b)
           m == n - 1
<1>1. /\ new \in Grouping(bs, n, 1, strict) /\ new.open = acc.open
      /\ new.objects[acc.open].key = acc.objects[acc.open].key
  BY FiledGroup
<1>2. Opened(acc) = acc.objects[acc.open] /\ Opened(new) = new.objects[new.open]
  BY DEF Opened
<1> HIDE DEF new
<1>3. strict => Elsewhere(new, d)
  BY <1>1, <1>2 DEF Elsewhere
<1>4. new \in Settling(bs, n, strict, d)
  BY <1>1, <1>3 DEF Settling
<1> QED BY <1>4 DEF new

\* A block under its own title
LEMMA OwnTitleSettles ==
  ASSUME NEW bs, NEW n, NEW b, Coming(bs, n, b), Entry(b), NEW strict, NEW d \in Title,
         strict => Apart(b, d), NEW acc \in Settling(bs, n - 1, strict, d)
  PROVE  File(UnderOwnTitle(acc, b), b) \in Settling(bs, n, strict, d)
<1> DEFINE m == n - 1
           key == Named(b.title)
           title == b.title
           new == OpenGroup(acc, key, title)
<1>1. acc \in Grouping(bs, m, 1, strict)
  BY DEF Settling
<1>2. title \in Title /\ key \in Key /\ (strict => key # Named(d))
  <2>1. title \in Title
    BY EntryParts
  <2>2. strict => title # d
    BY DEF Apart
  <2> HIDE DEF title
  <2>3. key = Named(title)
    BY DEF title
  <2> QED BY <2>1, <2>2, <2>3, NamedKey
<1>3. UnderOwnTitle(acc, b) = new
  BY DEF UnderOwnTitle
<1> HIDE DEF m, key, title
<1>4. new \in Grouping(bs, m, 1, strict) /\ new.objects[new.open].key = key
  BY <1>1, <1>2, OpenedGroup
<1> HIDE DEF new
<1>5. strict => Elsewhere(new, d)
  BY <1>2, <1>4 DEF Elsewhere, Opened
<1>6. new \in Grouping(bs, n - 1, 1, strict)
  BY <1>4 DEF m
<1> QED BY <1>3, <1>5, <1>6, FileSettles

\* The default group meets its first heading.
LEMMA RenamedSettles ==
  ASSUME NEW bs, NEW n, NEW b, Coming(bs, n, b), Entry(b), NEW strict, NEW d \in Title,
         strict => Apart(b, d), NEW acc \in Settling(bs, n - 1, strict, d),
         ~Elsewhere(acc, d)
  PROVE  File(Renamed(acc, b), b) \in Settling(bs, n, strict, d)
<1> DEFINE m == n - 1
           title == Head(b.path)
           new == Renamed(acc, b)
<1>1. acc \in Grouping(bs, m, 1, strict) /\ Unfiled(acc, strict)
  BY DEF Settling, Unfiled
<1>2. title \in Title
  BY EntryParts
<1>3. strict => Named(title) # Named(d)
  <2>1. strict => title # d
    BY DEF Apart
  <2> HIDE DEF title
  <2> QED BY <1>2, <2>1, NamedKey
<1> HIDE DEF m
<1>4. new \in Grouping(bs, m, 1, strict) /\ new.objects[new.open].key = Named(title)
  BY <1>1, <1>2, RenamedGroup
<1> HIDE DEF new, title
<1>5. strict => Elsewhere(new, d)
  BY <1>3, <1>4 DEF Elsewhere, Opened
<1>6. new \in Grouping(bs, n - 1, 1, strict)
  BY <1>4 DEF m
<1>7. File(new, b) \in Settling(bs, n, strict, d)
  BY <1>5, <1>6, FileSettles
<1> QED BY <1>7 DEF new

\* A block is filed in the open group.
LEMMA OpenSettles ==
  ASSUME NEW bs, NEW n, NEW b, Coming(bs, n, b), NEW strict, NEW d,
         NEW acc \in Settling(bs, n - 1, strict, d), Elsewhere(acc, d)
  PROVE  File(acc, b) \in Settling(bs, n, strict, d)
<1>1. acc \in Grouping(bs, n - 1, 1, strict)
  BY DEF Settling
<1> QED BY <1>1, FileSettles

\* A block is filed under its own title, or in the group that the template started with.
LEMMA NamedSteps ==
  ASSUME NEW bs, NEW n, NEW b, Coming(bs, n, b), Entry(b), NEW strict, NEW t,
         NEW d, d = DefaultTitle(t), strict => Apart(b, d),
         NEW acc \in Settling(bs, n - 1, strict, d)
  PROVE  /\ File(UnderOwnTitle(acc, b), b) \in Settling(bs, n, strict, d)
         /\ InDefault(acc, t) => File(Renamed(acc, b), b) \in Settling(bs, n, strict, d)
         /\ ~InDefault(acc, t) => File(acc, b) \in Settling(bs, n, strict, d)
<1>1. d \in Title
  BY DefaultGroups
<1>2. InDefault(acc, t) <=> ~Elsewhere(acc, d)
  BY DEF InDefault, Elsewhere
<1>3. File(UnderOwnTitle(acc, b), b) \in Settling(bs, n, strict, d)
  BY <1>1, OwnTitleSettles
<1>4. ASSUME ~Elsewhere(acc, d) PROVE File(Renamed(acc, b), b) \in Settling(bs, n, strict, d)
  BY <1>1, <1>4, RenamedSettles
<1>5. ASSUME Elsewhere(acc, d) PROVE File(acc, b) \in Settling(bs, n, strict, d)
  BY <1>5, OpenSettles
<1> QED BY <1>2, <1>3, <1>4, <1>5

\* One step of the walk over all blocks, for each template: the manual
LEMMA ManualGroups ==
  ASSUME NEW bs, NEW n, NEW b, Coming(bs, n, b), Entry(b), NEW strict,
         NEW d, d = DefaultTitle("manual"), strict => Apart(b, d),
         NEW acc \in Settling(bs, n - 1, strict, d)
  PROVE  ManualGroup(acc, b) \in Settling(bs, n, strict, d)
<1>1. /\ File(UnderOwnTitle(acc, b), b) \in Settling(bs, n, strict, d)
      /\ InDefault(acc, "manual") => File(Renamed(acc, b), b) \in Settling(bs, n, strict, d)
      /\ ~InDefault(acc, "manual") => File(acc, b) \in Settling(bs, n, strict, d)
  BY NamedSteps
<1> QED BY <1>1 DEF ManualGroup
\* The step of questions and answers
LEMMA QAGroups ==
  ASSUME NEW bs, NEW n, NEW b, Coming(bs, n, b), Entry(b), NEW strict,
         NEW d, d = DefaultTitle("qa"), strict => Apart(b, d),
         NEW acc \in Settling(bs, n - 1, strict, d)
  PROVE  QAGroup(acc, b) \in Settling(bs, n, strict, d)
<1>1. /\ File(UnderOwnTitle(acc, b), b) \in Settling(bs, n, strict, d)
      /\ InDefault(acc, "qa") => File(Renamed(acc, b), b) \in Settling(bs, n, strict, d)
      /\ ~InDefault(acc, "qa") => File(acc, b) \in Settling(bs, n, strict, d)
  BY NamedSteps
<1> QED BY <1>1 DEF QAGroup
\* The step of the book
LEMMA BookGroups ==
  ASSUME NEW bs, NEW n, NEW b, Coming(bs, n, b), Entry(b), NEW strict,
         NEW d, d = DefaultTitle("book"), strict => Apart(b, d),
         NEW acc \in Settling(bs, n - 1, strict, d)
  PROVE  BookGroup(acc, b) \in Settling(bs, n, strict, d)
<1>1. /\ File(UnderOwnTitle(acc, b), b) \in Settling(bs, n, strict, d)
      /\ InDefault(acc, "book") => File(Renamed(acc, b), b) \in Settling(bs, n, strict, d)
      /\ ~InDefault(acc, "book") => File(acc, b) \in Settling(bs, n, strict, d)
  BY NamedSteps
<1> QED BY <1>1 DEF BookGroup

\* A group of its own for the block
LEMMA NewGroupFiled ==
  ASSUME NEW bs, NEW n, NEW b, Coming(bs, n, b), NEW strict, NEW lo \in {0, 1},
         NEW acc \in Grouping(bs, n - 1, lo, strict), NEW key \in Key, NEW title \in Title
  PROVE  File(OpenGroup(acc, key, title), b) \in Grouping(bs, n, 1, strict)
<1> DEFINE m == n - 1
           new == OpenGroup(acc, key, title)
<1>1. new \in Grouping(bs, m, 1, strict)
  <2>1. acc \in Grouping(bs, m, lo, strict)
    OBVIOUS
  <2> HIDE DEF m
  <2>2. OpenGroup(acc, key, title) \in Grouping(bs, m, 1, strict)
    BY <2>1, OpenedGroup
  <2> QED BY <2>2
<1> HIDE DEF new
<1>2. File(new, b) \in Grouping(bs, n, 1, strict)
  BY <1>1, FiledGroup
<1> QED BY <1>2 DEF new

\* A block opens a group of its title.
LEMMA OwnTitleFiled ==
  ASSUME NEW bs, NEW n, NEW b, Coming(bs, n, b), Entry(b), NEW strict,
         NEW acc \in Grouping(bs, n - 1, 1, strict)
  PROVE  File(UnderOwnTitle(acc, b), b) \in Grouping(bs, n, 1, strict)
<1> DEFINE title == b.title
           key == Named(title)
<1>1. title \in Title
  BY EntryParts
<1>2. UnderOwnTitle(acc, b) = OpenGroup(acc, key, title)
  BY DEF UnderOwnTitle
<1> HIDE DEF title
<1>3. key \in Key
  BY <1>1, NamedKey
<1> HIDE DEF key
<1> QED BY <1>1, <1>2, <1>3, NewGroupFiled

\* The step of the paper
LEMMA PaperGroups ==
  ASSUME NEW bs, NEW n, NEW b, Coming(bs, n, b), Entry(b), NEW strict,
         NEW acc \in Grouping(bs, n - 1, 1, strict)
  PROVE  PaperGroup(acc, b) \in Grouping(bs, n, 1, strict)
<1> DEFINE m == n - 1
           own == File(UnderOwnTitle(acc, b), b)
           titled == Titled(acc, b)
           again == File(acc, b)
<1>1. own \in Grouping(bs, n, 1, strict)
  BY OwnTitleFiled
<1>2. titled \in Grouping(bs, m, 1, strict)
  <2>1. Head(b.path) \in Title
    BY EntryParts
  <2>2. acc \in Grouping(bs, m, 1, strict)
    OBVIOUS
  <2> HIDE DEF m, titled
  <2>3. Titled(acc, b) \in Grouping(bs, m, 1, strict)
    BY <2>1, <2>2, TitledGroup
  <2> QED BY <2>3 DEF titled
<1> HIDE DEF titled
<1>3. File(titled, b) \in Grouping(bs, n, 1, strict) /\ again \in Grouping(bs, n, 1, strict)
  BY <1>2, FiledGroup
<1> USE DEF titled
<1>4. PaperGroup(acc, b) \in {own, File(titled, b), again}
  BY DEF PaperGroup
<1> HIDE DEF own, titled, again
<1> QED BY <1>1, <1>3, <1>4

\* The step of the laws
LEMMA LawsGroups ==
  ASSUME NEW bs, NEW n, NEW b, Coming(bs, n, b), Entry(b), NEW strict,
         NEW acc \in Grouping(bs, n - 1, 1, strict)
  PROVE  LawsGroup(acc, b) \in Grouping(bs, n, 1, strict)
<1> DEFINE title == Head(b.path)
           key == Named(title)
           own == File(UnderOwnTitle(acc, b), b)
           first == File(OpenGroup(acc, key, title), b)
           again == File(acc, b)
<1>1. own \in Grouping(bs, n, 1, strict) /\ again \in Grouping(bs, n, 1, strict)
  BY OwnTitleFiled, FiledGroup
<1>2. LawsGroup(acc, b) \in {own, first, again}
  BY DEF LawsGroup
<1>3. title \in Title
  BY EntryParts
<1> HIDE DEF title, own, again
<1>4. key \in Key
  BY <1>3, NamedKey
<1> HIDE DEF key
<1>5. first \in Grouping(bs, n, 1, strict)
  BY <1>3, <1>4, NewGroupFiled
<1> HIDE DEF first
<1> QED BY <1>1, <1>2, <1>5

\* The step of the contract by its chapters
LEMMA ChapterGroups ==
  ASSUME NEW bs, NEW n, NEW b, Coming(bs, n, b), Entry(b), NEW strict,
         NEW acc \in Grouping(bs, n - 1, 1, strict)
  PROVE  ContractGroup(acc, b) \in Grouping(bs, n, 1, strict)
<1> DEFINE own == File(UnderOwnTitle(acc, b), b)
           again == File(acc, b)
<1>1. own \in Grouping(bs, n, 1, strict) /\ again \in Grouping(bs, n, 1, strict)
  BY OwnTitleFiled, FiledGroup
<1>2. ContractGroup(acc, b) \in {own, again}
  BY DEF ContractGroup
<1> HIDE DEF own, again
<1> QED BY <1>1, <1>2

\* The step of the contract by its articles
LEMMA ArticleGroups ==
  ASSUME NEW bs, NEW n, NEW b, Coming(bs, n, b), Entry(b), NEW strict,
         NEW acc \in Grouping(bs, n - 1, 1, strict)
  PROVE  ArticleGroup(acc, b) \in Grouping(bs, n, 1, strict)
<1> DEFINE title == b.title
           u == Len(acc.objects)
           key == <<title, u>>
           own == File(OpenGroup(acc, key, title), b)
           again == File(acc, b)
<1>1. again \in Grouping(bs, n, 1, strict)
  BY FiledGroup
<1>2. ArticleGroup(acc, b) \in {own, again}
  BY DEF ArticleGroup
<1>3. title \in Title
  BY EntryParts
<1>4. u \in Nat
  <2> DEFINE m == n - 1
  <2>1. acc \in Grouping(bs, m, 1, strict)
    OBVIOUS
  <2> HIDE DEF m
  <2>2. GroupsAt(acc.objects, acc.names, acc.open, bs, m, 1, strict)
    BY <2>1, GroupedParts
  <2>3. acc.objects \in Seq(Obj)
    BY <2>2 DEF GroupsAt
  <2> QED BY <2>3
<1> HIDE DEF title, u, again
<1>5. key \in Key
  BY <1>3, <1>4, NamedKey
<1> HIDE DEF key
<1>6. own \in Grouping(bs, n, 1, strict)
  BY <1>3, <1>5, NewGroupFiled
<1> HIDE DEF own
<1> QED BY <1>1, <1>2, <1>6

\* A group is open once there was a block.
LEMMA GroupingFrom0 ==
  ASSUME NEW bs, NEW n, NEW strict
  PROVE  Grouping(bs, n, 1, strict) \subseteq Grouping(bs, n, 0, strict)
<1> SUFFICES ASSUME NEW acc \in Grouping(bs, n, 1, strict)
             PROVE  acc \in Grouping(bs, n, 0, strict)
  OBVIOUS
<1> DEFINE objects == acc.objects
           names == acc.names
           open == acc.open
<1>1. /\ GroupsAt(objects, names, open, bs, n, 1, strict) /\ acc \in Groups
  BY GroupedParts
<1> HIDE DEF objects, names, open
<1>2. open \in 1..Len(objects) /\ objects \in Seq(Obj)
  BY <1>1 DEF GroupsAt
<1>3. open \in 0..Len(objects)
  BY <1>2
<1>4. GroupsAt(objects, names, open, bs, n, 0, strict)
  BY <1>1, <1>3 DEF GroupsAt
<1> QED BY <1>1, <1>4 DEF Grouping, objects, names, open

\* The step of the table
LEMMA SheetGroups ==
  ASSUME NEW bs, NEW n, NEW b, Coming(bs, n, b), Entry(b), NEW strict,
         NEW acc \in Grouping(bs, n - 1, 0, strict)
  PROVE  SheetGroup(acc, b) \in Grouping(bs, n, 0, strict)
<1> DEFINE title == IF b.sheet = <<>> THEN <<"Table">> ELSE b.sheet
           key == Named(title)
<1>1. title \in Title
  <2>1. b.sheet \in Title
    BY EntryParts
  <2>2. <<"Table">> \in Title
    BY DEF Title, Word
  <2> QED BY <2>1, <2>2
<1>2. SheetGroup(acc, b) = File(OpenGroup(acc, key, title), b)
  BY DEF SheetGroup
<1> HIDE DEF title
<1>3. key \in Key
  BY <1>1, NamedKey
<1> HIDE DEF key
<1>4. File(OpenGroup(acc, key, title), b) \in Grouping(bs, n, 1, strict)
  BY <1>1, <1>3, NewGroupFiled
<1> QED BY <1>2, <1>4, GroupingFrom0

\* The step of scanned pages
LEMMA PageGroups ==
  ASSUME NEW bs, NEW n, NEW b, Coming(bs, n, b), Entry(b), NEW strict,
         NEW acc \in Grouping(bs, n - 1, 0, strict)
  PROVE  PageGroup(acc, b) \in Grouping(bs, n, 0, strict)
<1> DEFINE title == <<"Page">>
           u == b.page
           key == <<title, u>>
<1>1. title \in Title /\ u \in Nat
  <2>1. u \in Nat
    BY EntryParts
  <2>2. title \in Title
    BY DEF Title, Word
  <2> QED BY <2>1, <2>2
<1>2. PageGroup(acc, b) = File(OpenGroup(acc, key, title), b)
  BY DEF PageGroup
<1> HIDE DEF title, u
<1>3. key \in Key
  BY <1>1, NamedKey
<1> HIDE DEF key
<1>4. File(OpenGroup(acc, key, title), b) \in Grouping(bs, n, 1, strict)
  BY <1>1, <1>3, NewGroupFiled
<1> QED BY <1>2, <1>4, GroupingFrom0

\* The step of every other template
LEMMA SectionGroups ==
  ASSUME NEW bs, NEW n, NEW b, Coming(bs, n, b), Entry(b), NEW strict,
         NEW acc \in Grouping(bs, n - 1, 0, strict)
  PROVE  SectionGroup(acc, b) \in Grouping(bs, n, 0, strict)
<1> DEFINE p == b.path
           u == Len(p)
           m == Min({Granularity, u})
           path == SubSeq(p, 1, m)
           name == FlattenSeq(path)
           title == Last(path)
           key == Named(name)
<1>1. p \in Seq(Title) /\ p # <<>>
  BY EntryParts
<1>2. SectionGroup(acc, b) = File(OpenGroup(acc, key, title), b)
  BY DEF SectionGroup
<1> HIDE DEF p
<1>3. u \in Nat /\ u >= 1
  BY <1>1
<1>4. m \in Int /\ m <= u /\ m >= 1
  <2> DEFINE a == Granularity
  <2>1. a \in Int /\ a >= 1 /\ u \in Int
    BY <1>3, ChunkerSizes
  <2> HIDE DEF a, u
  <2>2. Min({a, u}) \in {a, u} /\ Min({a, u}) <= a /\ Min({a, u}) <= u
    BY <2>1, MinOfTwo
  <2> QED BY <1>3, <2>1, <2>2 DEF a
<1> HIDE DEF m
<1>5. path \in Seq(Title) /\ Len(path) = m
  BY <1>1, <1>4, FrontPart
<1> HIDE DEF path
<1>6. name \in Title
  BY <1>5, FlattenType DEF Title
<1>7. title \in Title
  <2> DEFINE T == Title
  <2>1. path \in Seq(T) /\ Len(path) \in 1..Len(path)
    BY <1>4, <1>5
  <2> HIDE DEF T
  <2>2. path[Len(path)] \in T
    BY <2>1
  <2> QED BY <2>2 DEF Last, T
<1> HIDE DEF name, title
<1>8. key \in Key
  BY <1>6, NamedKey
<1> HIDE DEF key
<1>9. File(OpenGroup(acc, key, title), b) \in Grouping(bs, n, 1, strict)
  BY <1>7, <1>8, NewGroupFiled
<1> QED BY <1>2, <1>9, GroupingFrom0

-----------------------------------------------------------------------------
\* What the steps keep is true of the groups that a walk makes.
LEMMA GroupingWalk ==
  ASSUME NEW bs \in Seq(Block), NEW strict, NEW lo, NEW base \in Grouping(bs, 0, lo, strict),
         NEW steps, steps = [n \in DOMAIN bs |-> steps[n]],
         \A n \in 1..Len(bs) : \A acc \in Grouping(bs, n - 1, lo, strict) :
             steps[n][acc] \in Grouping(bs, n, lo, strict)
  PROVE  Folded(base, steps) \in Grouping(bs, Len(bs), lo, strict)
<1> DEFINE N == Len(bs)
           P == [n \in 0..N |-> Grouping(bs, n, lo, strict)]
<1>1. N \in Nat
  OBVIOUS
<1>2. base \in P[0] /\ \A n \in 1..N : \A v \in P[n - 1] : steps[n][v] \in P[n]
  <2>1. \A n \in 1..N : n - 1 \in 0..N /\ n \in 0..N
    BY <1>1
  <2>2. \A n \in 0..N : P[n] = Grouping(bs, n, lo, strict)
    OBVIOUS
  <2>3. 0 \in 0..N
    BY <1>1
  <2> HIDE DEF P
  <2> QED BY <2>1, <2>2, <2>3
<1>3. P[N] = Grouping(bs, N, lo, strict)
  BY <1>1
<1>4. Folded(base, steps) \in P[N]
  <2> HIDE DEF P
  <2> QED BY <1>2, WalkKeeps DEF N
<1> QED BY <1>3, <1>4 DEF N

\* The whole walk, where every step keeps to it
LEMMA SettlingWalk ==
  ASSUME NEW bs \in Seq(Block), NEW strict, NEW d, NEW base \in Settling(bs, 0, strict, d),
         NEW steps, steps = [n \in DOMAIN bs |-> steps[n]],
         \A n \in 1..Len(bs) : \A acc \in Settling(bs, n - 1, strict, d) :
             steps[n][acc] \in Settling(bs, n, strict, d)
  PROVE  Folded(base, steps) \in Settling(bs, Len(bs), strict, d)
<1> DEFINE N == Len(bs)
           P == [n \in 0..N |-> Settling(bs, n, strict, d)]
<1>1. N \in Nat
  OBVIOUS
<1>2. base \in P[0] /\ \A n \in 1..N : \A v \in P[n - 1] : steps[n][v] \in P[n]
  <2>1. \A n \in 1..N : n - 1 \in 0..N /\ n \in 0..N
    BY <1>1
  <2>2. \A n \in 0..N : P[n] = Settling(bs, n, strict, d)
    OBVIOUS
  <2>3. 0 \in 0..N
    BY <1>1
  <2> HIDE DEF P
  <2> QED BY <2>1, <2>2, <2>3
<1>3. P[N] = Settling(bs, N, strict, d)
  BY <1>1
<1>4. Folded(base, steps) \in P[N]
  <2> HIDE DEF P
  <2> QED BY <1>2, WalkKeeps DEF N
<1> QED BY <1>3, <1>4 DEF N

\* A state of the walk over all blocks is one of its states.
LEMMA InGroups ==
  ASSUME NEW bs, NEW n, NEW lo, NEW strict, NEW acc \in Grouping(bs, n, lo, strict)
  PROVE  acc \in Groups
  BY DEF Grouping

\* The document as the groups are made of it
Entries(bs) == bs \in Seq(Block) /\ Rising(bs) /\ \A n \in 1..Len(bs) : Entry(bs[n])
\* The walk comes to each of the blocks.
LEMMA EntryComes ==
  ASSUME NEW bs, Entries(bs), NEW n \in 1..Len(bs)
  PROVE  Coming(bs, n, bs[n]) /\ Entry(bs[n])
  BY ComingAll DEF Entries

\* The whole walk of each template: the paper
LEMMA PaperGroupWalk ==
  ASSUME NEW bs, Entries(bs), NEW strict
  PROVE  Walk(Groups, PaperGroup, Default("paper"), bs) \in Grouping(bs, Len(bs), 1, strict)
<1> DEFINE steps == [n \in DOMAIN bs |-> [acc \in Groups |-> PaperGroup(acc, bs[n])]]
<1>1. Walk(Groups, PaperGroup, Default("paper"), bs) = Folded(Default("paper"), steps)
  BY DEF Walk
<1>2. bs \in Seq(Block) /\ Default("paper") \in Grouping(bs, 0, 1, strict)
  BY DefaultGroups DEF Entries
<1>3. ASSUME NEW n \in 1..Len(bs), NEW acc \in Grouping(bs, n - 1, 1, strict)
      PROVE  steps[n][acc] \in Grouping(bs, n, 1, strict)
  <2>1. Coming(bs, n, bs[n]) /\ Entry(bs[n]) /\ acc \in Groups
    BY EntryComes, InGroups
  <2>2. steps[n][acc] = PaperGroup(acc, bs[n])
    BY <1>2, <2>1
  <2> HIDE DEF steps
  <2>3. PaperGroup(acc, bs[n]) \in Grouping(bs, n, 1, strict)
    BY <2>1, PaperGroups
  <2> QED BY <2>2, <2>3
<1>4. steps = [n \in DOMAIN bs |-> steps[n]]
  OBVIOUS
<1> HIDE DEF steps
<1>5. Folded(Default("paper"), steps) \in Grouping(bs, Len(bs), 1, strict)
  BY <1>2, <1>3, <1>4, GroupingWalk
<1> QED BY <1>1, <1>5

\* The walk of the laws
LEMMA LawsGroupWalk ==
  ASSUME NEW bs, Entries(bs), NEW strict
  PROVE  Walk(Groups, LawsGroup, Default("laws"), bs) \in Grouping(bs, Len(bs), 1, strict)
<1> DEFINE steps == [n \in DOMAIN bs |-> [acc \in Groups |-> LawsGroup(acc, bs[n])]]
<1>1. Walk(Groups, LawsGroup, Default("laws"), bs) = Folded(Default("laws"), steps)
  BY DEF Walk
<1>2. bs \in Seq(Block) /\ Default("laws") \in Grouping(bs, 0, 1, strict)
  BY DefaultGroups DEF Entries
<1>3. ASSUME NEW n \in 1..Len(bs), NEW acc \in Grouping(bs, n - 1, 1, strict)
      PROVE  steps[n][acc] \in Grouping(bs, n, 1, strict)
  <2>1. Coming(bs, n, bs[n]) /\ Entry(bs[n]) /\ acc \in Groups
    BY EntryComes, InGroups
  <2>2. steps[n][acc] = LawsGroup(acc, bs[n])
    BY <1>2, <2>1
  <2> HIDE DEF steps
  <2>3. LawsGroup(acc, bs[n]) \in Grouping(bs, n, 1, strict)
    BY <2>1, LawsGroups
  <2> QED BY <2>2, <2>3
<1>4. steps = [n \in DOMAIN bs |-> steps[n]]
  OBVIOUS
<1> HIDE DEF steps
<1>5. Folded(Default("laws"), steps) \in Grouping(bs, Len(bs), 1, strict)
  BY <1>2, <1>3, <1>4, GroupingWalk
<1> QED BY <1>1, <1>5

\* The walk of the contract by its chapters
LEMMA ChapterGroupWalk ==
  ASSUME NEW bs, Entries(bs), NEW strict
  PROVE  Walk(Groups, ContractGroup, Default("contract_terms"), bs) \in Grouping(bs, Len(bs), 1, strict)
<1> DEFINE steps == [n \in DOMAIN bs |-> [acc \in Groups |-> ContractGroup(acc, bs[n])]]
<1>1. Walk(Groups, ContractGroup, Default("contract_terms"), bs) = Folded(Default("contract_terms"), steps)
  BY DEF Walk
<1>2. bs \in Seq(Block) /\ Default("contract_terms") \in Grouping(bs, 0, 1, strict)
  BY DefaultGroups DEF Entries
<1>3. ASSUME NEW n \in 1..Len(bs), NEW acc \in Grouping(bs, n - 1, 1, strict)
      PROVE  steps[n][acc] \in Grouping(bs, n, 1, strict)
  <2>1. Coming(bs, n, bs[n]) /\ Entry(bs[n]) /\ acc \in Groups
    BY EntryComes, InGroups
  <2>2. steps[n][acc] = ContractGroup(acc, bs[n])
    BY <1>2, <2>1
  <2> HIDE DEF steps
  <2>3. ContractGroup(acc, bs[n]) \in Grouping(bs, n, 1, strict)
    BY <2>1, ChapterGroups
  <2> QED BY <2>2, <2>3
<1>4. steps = [n \in DOMAIN bs |-> steps[n]]
  OBVIOUS
<1> HIDE DEF steps
<1>5. Folded(Default("contract_terms"), steps) \in Grouping(bs, Len(bs), 1, strict)
  BY <1>2, <1>3, <1>4, GroupingWalk
<1> QED BY <1>1, <1>5

\* The walk of the contract by its articles
LEMMA ArticleGroupWalk ==
  ASSUME NEW bs, Entries(bs), NEW strict
  PROVE  Walk(Groups, ArticleGroup, Default("contract_terms"), bs) \in Grouping(bs, Len(bs), 1, strict)
<1> DEFINE steps == [n \in DOMAIN bs |-> [acc \in Groups |-> ArticleGroup(acc, bs[n])]]
<1>1. Walk(Groups, ArticleGroup, Default("contract_terms"), bs) = Folded(Default("contract_terms"), steps)
  BY DEF Walk
<1>2. bs \in Seq(Block) /\ Default("contract_terms") \in Grouping(bs, 0, 1, strict)
  BY DefaultGroups DEF Entries
<1>3. ASSUME NEW n \in 1..Len(bs), NEW acc \in Grouping(bs, n - 1, 1, strict)
      PROVE  steps[n][acc] \in Grouping(bs, n, 1, strict)
  <2>1. Coming(bs, n, bs[n]) /\ Entry(bs[n]) /\ acc \in Groups
    BY EntryComes, InGroups
  <2>2. steps[n][acc] = ArticleGroup(acc, bs[n])
    BY <1>2, <2>1
  <2> HIDE DEF steps
  <2>3. ArticleGroup(acc, bs[n]) \in Grouping(bs, n, 1, strict)
    BY <2>1, ArticleGroups
  <2> QED BY <2>2, <2>3
<1>4. steps = [n \in DOMAIN bs |-> steps[n]]
  OBVIOUS
<1> HIDE DEF steps
<1>5. Folded(Default("contract_terms"), steps) \in Grouping(bs, Len(bs), 1, strict)
  BY <1>2, <1>3, <1>4, GroupingWalk
<1> QED BY <1>1, <1>5

\* The walk of the table
LEMMA SheetGroupWalk ==
  ASSUME NEW bs, Entries(bs), NEW strict
  PROVE  Walk(Groups, SheetGroup, NoGroups, bs) \in Grouping(bs, Len(bs), 0, strict)
<1> DEFINE steps == [n \in DOMAIN bs |-> [acc \in Groups |-> SheetGroup(acc, bs[n])]]
<1>1. Walk(Groups, SheetGroup, NoGroups, bs) = Folded(NoGroups, steps)
  BY DEF Walk
<1>2. bs \in Seq(Block) /\ NoGroups \in Grouping(bs, 0, 0, strict)
  BY DefaultGroups DEF Entries
<1>3. ASSUME NEW n \in 1..Len(bs), NEW acc \in Grouping(bs, n - 1, 0, strict)
      PROVE  steps[n][acc] \in Grouping(bs, n, 0, strict)
  <2>1. Coming(bs, n, bs[n]) /\ Entry(bs[n]) /\ acc \in Groups
    BY EntryComes, InGroups
  <2>2. steps[n][acc] = SheetGroup(acc, bs[n])
    BY <1>2, <2>1
  <2> HIDE DEF steps
  <2>3. SheetGroup(acc, bs[n]) \in Grouping(bs, n, 0, strict)
    BY <2>1, SheetGroups
  <2> QED BY <2>2, <2>3
<1>4. steps = [n \in DOMAIN bs |-> steps[n]]
  OBVIOUS
<1> HIDE DEF steps
<1>5. Folded(NoGroups, steps) \in Grouping(bs, Len(bs), 0, strict)
  BY <1>2, <1>3, <1>4, GroupingWalk
<1> QED BY <1>1, <1>5

\* The walk of scanned pages
LEMMA PageGroupWalk ==
  ASSUME NEW bs, Entries(bs), NEW strict
  PROVE  Walk(Groups, PageGroup, NoGroups, bs) \in Grouping(bs, Len(bs), 0, strict)
<1> DEFINE steps == [n \in DOMAIN bs |-> [acc \in Groups |-> PageGroup(acc, bs[n])]]
<1>1. Walk(Groups, PageGroup, NoGroups, bs) = Folded(NoGroups, steps)
  BY DEF Walk
<1>2. bs \in Seq(Block) /\ NoGroups \in Grouping(bs, 0, 0, strict)
  BY DefaultGroups DEF Entries
<1>3. ASSUME NEW n \in 1..Len(bs), NEW acc \in Grouping(bs, n - 1, 0, strict)
      PROVE  steps[n][acc] \in Grouping(bs, n, 0, strict)
  <2>1. Coming(bs, n, bs[n]) /\ Entry(bs[n]) /\ acc \in Groups
    BY EntryComes, InGroups
  <2>2. steps[n][acc] = PageGroup(acc, bs[n])
    BY <1>2, <2>1
  <2> HIDE DEF steps
  <2>3. PageGroup(acc, bs[n]) \in Grouping(bs, n, 0, strict)
    BY <2>1, PageGroups
  <2> QED BY <2>2, <2>3
<1>4. steps = [n \in DOMAIN bs |-> steps[n]]
  OBVIOUS
<1> HIDE DEF steps
<1>5. Folded(NoGroups, steps) \in Grouping(bs, Len(bs), 0, strict)
  BY <1>2, <1>3, <1>4, GroupingWalk
<1> QED BY <1>1, <1>5

\* The walk of every other template
LEMMA SectionGroupWalk ==
  ASSUME NEW bs, Entries(bs), NEW strict
  PROVE  Walk(Groups, SectionGroup, NoGroups, bs) \in Grouping(bs, Len(bs), 0, strict)
<1> DEFINE steps == [n \in DOMAIN bs |-> [acc \in Groups |-> SectionGroup(acc, bs[n])]]
<1>1. Walk(Groups, SectionGroup, NoGroups, bs) = Folded(NoGroups, steps)
  BY DEF Walk
<1>2. bs \in Seq(Block) /\ NoGroups \in Grouping(bs, 0, 0, strict)
  BY DefaultGroups DEF Entries
<1>3. ASSUME NEW n \in 1..Len(bs), NEW acc \in Grouping(bs, n - 1, 0, strict)
      PROVE  steps[n][acc] \in Grouping(bs, n, 0, strict)
  <2>1. Coming(bs, n, bs[n]) /\ Entry(bs[n]) /\ acc \in Groups
    BY EntryComes, InGroups
  <2>2. steps[n][acc] = SectionGroup(acc, bs[n])
    BY <1>2, <2>1
  <2> HIDE DEF steps
  <2>3. SectionGroup(acc, bs[n]) \in Grouping(bs, n, 0, strict)
    BY <2>1, SectionGroups
  <2> QED BY <2>2, <2>3
<1>4. steps = [n \in DOMAIN bs |-> steps[n]]
  OBVIOUS
<1> HIDE DEF steps
<1>5. Folded(NoGroups, steps) \in Grouping(bs, Len(bs), 0, strict)
  BY <1>2, <1>3, <1>4, GroupingWalk
<1> QED BY <1>1, <1>5

\* The walk of the manual
LEMMA ManualGroupWalk ==
  ASSUME NEW bs, Entries(bs), NEW strict, NEW d, d = DefaultTitle("manual"),
         strict => \A n \in 1..Len(bs) : Apart(bs[n], d)
  PROVE  Walk(Groups, ManualGroup, Default("manual"), bs) \in Settling(bs, Len(bs), strict, d)
<1> DEFINE steps == [n \in DOMAIN bs |-> [acc \in Groups |-> ManualGroup(acc, bs[n])]]
<1>1. Walk(Groups, ManualGroup, Default("manual"), bs) = Folded(Default("manual"), steps)
  BY DEF Walk
<1>2. bs \in Seq(Block) /\ Default("manual") \in Settling(bs, 0, strict, d)
  BY DefaultGroups DEF Entries, Settling, Unfiled
<1>3. ASSUME NEW n \in 1..Len(bs), NEW acc \in Settling(bs, n - 1, strict, d)
      PROVE  steps[n][acc] \in Settling(bs, n, strict, d)
  <2>1. Coming(bs, n, bs[n]) /\ Entry(bs[n])
    BY EntryComes
  <2>2. acc \in Groups
    BY InGroups DEF Settling
  <2>3. steps[n][acc] = ManualGroup(acc, bs[n])
    BY <1>2, <2>2
  <2> HIDE DEF steps
  <2>4. ManualGroup(acc, bs[n]) \in Settling(bs, n, strict, d)
    BY <2>1, ManualGroups
  <2> QED BY <2>3, <2>4
<1>4. steps = [n \in DOMAIN bs |-> steps[n]]
  OBVIOUS
<1> HIDE DEF steps
<1>5. Folded(Default("manual"), steps) \in Settling(bs, Len(bs), strict, d)
  BY <1>2, <1>3, <1>4, SettlingWalk
<1> QED BY <1>1, <1>5

\* The walk of questions and answers
LEMMA QAGroupWalk ==
  ASSUME NEW bs, Entries(bs), NEW strict, NEW d, d = DefaultTitle("qa"),
         strict => \A n \in 1..Len(bs) : Apart(bs[n], d)
  PROVE  Walk(Groups, QAGroup, Default("qa"), bs) \in Settling(bs, Len(bs), strict, d)
<1> DEFINE steps == [n \in DOMAIN bs |-> [acc \in Groups |-> QAGroup(acc, bs[n])]]
<1>1. Walk(Groups, QAGroup, Default("qa"), bs) = Folded(Default("qa"), steps)
  BY DEF Walk
<1>2. bs \in Seq(Block) /\ Default("qa") \in Settling(bs, 0, strict, d)
  BY DefaultGroups DEF Entries, Settling, Unfiled
<1>3. ASSUME NEW n \in 1..Len(bs), NEW acc \in Settling(bs, n - 1, strict, d)
      PROVE  steps[n][acc] \in Settling(bs, n, strict, d)
  <2>1. Coming(bs, n, bs[n]) /\ Entry(bs[n])
    BY EntryComes
  <2>2. acc \in Groups
    BY InGroups DEF Settling
  <2>3. steps[n][acc] = QAGroup(acc, bs[n])
    BY <1>2, <2>2
  <2> HIDE DEF steps
  <2>4. QAGroup(acc, bs[n]) \in Settling(bs, n, strict, d)
    BY <2>1, QAGroups
  <2> QED BY <2>3, <2>4
<1>4. steps = [n \in DOMAIN bs |-> steps[n]]
  OBVIOUS
<1> HIDE DEF steps
<1>5. Folded(Default("qa"), steps) \in Settling(bs, Len(bs), strict, d)
  BY <1>2, <1>3, <1>4, SettlingWalk
<1> QED BY <1>1, <1>5

\* The walk of the book
LEMMA BookGroupWalk ==
  ASSUME NEW bs, Entries(bs), NEW strict, NEW d, d = DefaultTitle("book"),
         strict => \A n \in 1..Len(bs) : Apart(bs[n], d)
  PROVE  Walk(Groups, BookGroup, Default("book"), bs) \in Settling(bs, Len(bs), strict, d)
<1> DEFINE steps == [n \in DOMAIN bs |-> [acc \in Groups |-> BookGroup(acc, bs[n])]]
<1>1. Walk(Groups, BookGroup, Default("book"), bs) = Folded(Default("book"), steps)
  BY DEF Walk
<1>2. bs \in Seq(Block) /\ Default("book") \in Settling(bs, 0, strict, d)
  BY DefaultGroups DEF Entries, Settling, Unfiled
<1>3. ASSUME NEW n \in 1..Len(bs), NEW acc \in Settling(bs, n - 1, strict, d)
      PROVE  steps[n][acc] \in Settling(bs, n, strict, d)
  <2>1. Coming(bs, n, bs[n]) /\ Entry(bs[n])
    BY EntryComes
  <2>2. acc \in Groups
    BY InGroups DEF Settling
  <2>3. steps[n][acc] = BookGroup(acc, bs[n])
    BY <1>2, <2>2
  <2> HIDE DEF steps
  <2>4. BookGroup(acc, bs[n]) \in Settling(bs, n, strict, d)
    BY <2>1, BookGroups
  <2> QED BY <2>3, <2>4
<1>4. steps = [n \in DOMAIN bs |-> steps[n]]
  OBVIOUS
<1> HIDE DEF steps
<1>5. Folded(Default("book"), steps) \in Settling(bs, Len(bs), strict, d)
  BY <1>2, <1>3, <1>4, SettlingWalk
<1> QED BY <1>1, <1>5

\* Every block is in a group.
Somewhere(groups, bs) == \A i \in 1..Len(bs) : \E k \in 1..Len(groups) : bs[i] \in ToSet(groups[k].blocks)
\* The groups of a document: blocks in their order, and where it matters each key and each block once
Filed(groups, bs, strict) ==
    /\ groups \in Seq(Obj)
    /\ \A k \in 1..Len(groups) : groups[k].blocks \in Upto(bs, Len(bs))
    /\ strict => \A j, k \in 1..Len(groups) : groups[j].key = groups[k].key => j = k
    /\ strict => Parted(groups)
    /\ Somewhere(groups, bs)

\* The groups of a walk that has come to the end
LEMMA ValuesFiled ==
  ASSUME NEW bs, NEW lo, NEW strict, NEW acc \in Grouping(bs, Len(bs), lo, strict)
  PROVE  Filed(Values(acc), bs, strict)
<1> DEFINE objects == acc.objects
           names == acc.names
           n == Len(bs)
           groups == [k \in DOMAIN names |-> objects[names[k].object]]
<1>1. GroupsAt(objects, names, acc.open, bs, n, lo, strict)
  BY GroupedParts
<1>2. Values(acc) = groups
  BY DEF Values
<1> HIDE DEF objects, names, n
<1>3. /\ objects \in Seq(Obj) /\ names \in Seq(Name)
      /\ \A k \in 1..Len(objects) : objects[k].blocks \in Upto(bs, n)
      /\ \A k \in 1..Len(names) : names[k].object \in 1..Len(objects)
      /\ \A j, k \in 1..Len(names) : names[j].key = names[k].key => j = k
      /\ strict => \A k \in 1..Len(names) : objects[names[k].object].key = names[k].key
      /\ Dealt(objects, names, bs, n)
  BY <1>1 DEF GroupsAt
<1>4. groups = [k \in 1..Len(names) |-> objects[names[k].object]] /\ Len(names) \in Nat
  BY <1>3
<1>5. /\ groups \in Seq(Obj) /\ Len(groups) = Len(names)
      /\ \A k \in 1..Len(groups) : groups[k] = objects[names[k].object]
  BY <1>3, <1>4
<1> HIDE DEF groups
<1>6. \A k \in 1..Len(groups) : groups[k].blocks \in Upto(bs, n)
  BY <1>3, <1>5
<1>7. ASSUME strict, NEW j \in 1..Len(groups), NEW k \in 1..Len(groups), groups[j].key = groups[k].key
      PROVE  j = k
  <2>1. groups[j].key = names[j].key /\ groups[k].key = names[k].key
    BY <1>3, <1>5, <1>7
  <2> QED BY <1>3, <1>5, <1>7, <2>1
<1>9. ASSUME strict, NEW j \in 1..Len(groups), NEW k \in 1..Len(groups), j # k
      PROVE  ToSet(groups[j].blocks) \cap ToSet(groups[k].blocks) = {}
  <2>1. names[j].object # names[k].object
    <3>1. SUFFICES ASSUME names[j].object = names[k].object PROVE FALSE
      OBVIOUS
    <3>2. names[j].key = names[k].key
      BY <1>3, <1>5, <1>9, <3>1
    <3> QED BY <1>3, <1>5, <1>9, <3>2
  <2>2. names[j].object \in 1..Len(objects) /\ names[k].object \in 1..Len(objects)
    BY <1>3, <1>5
  <2>3. Parted(objects)
    BY <1>3 DEF Dealt
  <2> QED BY <1>5, <2>1, <2>2, <2>3 DEF Parted
<1>10. \A i \in 1..Len(bs) : \E k \in 1..Len(groups) : bs[i] \in ToSet(groups[k].blocks)
  <2>1. FiledUpto(objects, names, bs, n) /\ n = Len(bs)
    BY <1>3 DEF Dealt, n
  <2> QED BY <1>5, <2>1 DEF FiledUpto
<1>8. Filed(groups, bs, strict)
  BY <1>5, <1>6, <1>7, <1>9, <1>10 DEF Filed, Parted, Somewhere, n
<1> QED BY <1>2, <1>8

\* The same where the template starts with a group
LEMMA SettledFiled ==
  ASSUME NEW bs, NEW strict, NEW d, NEW acc \in Settling(bs, Len(bs), strict, d)
  PROVE  Filed(Values(acc), bs, strict)
<1>1. acc \in Grouping(bs, Len(bs), 1, strict)
  BY DEF Settling
<1> QED BY <1>1, ValuesFiled

\* The groups of a contract
LEMMA ContractFiled ==
  ASSUME NEW bs, Entries(bs), NEW strict
  PROVE  ContractGroups(bs) \in Grouping(bs, Len(bs), 1, strict)
<1>1. /\ Walk(Groups, ContractGroup, Default("contract_terms"), bs) \in Grouping(bs, Len(bs), 1, strict)
      /\ Walk(Groups, ArticleGroup, Default("contract_terms"), bs) \in Grouping(bs, Len(bs), 1, strict)
  BY ChapterGroupWalk, ArticleGroupWalk
<1> QED BY <1>1, Zenon DEF ContractGroups

\* The title of the group that a template starts with is nobody else's.
Settles(template, bs, strict) ==
    template \in {"manual", "qa", "book"} /\ strict =>
        \A n \in 1..Len(bs) : Apart(bs[n], DefaultTitle(template))

\* The groups of every template
LEMMA GroupsFiled ==
  ASSUME NEW bs, Entries(bs), NEW strict, NEW template, Settles(template, bs, strict)
  PROVE  Filed(GroupsOf(template, bs), bs, strict)
<1> DEFINE accs == Walk(Groups, SectionGroup, NoGroups, bs)
           G == CASE template = "manual" -> Walk(Groups, ManualGroup, Default("manual"), bs)
             [] template = "qa" -> Walk(Groups, QAGroup, Default("qa"), bs)
             [] template = "book" -> Walk(Groups, BookGroup, Default("book"), bs)
             [] template = "paper" -> Walk(Groups, PaperGroup, Default("paper"), bs)
             [] template = "laws" -> Walk(Groups, LawsGroup, Default("laws"), bs)
             [] template = "contract_terms" -> ContractGroups(bs)
             [] template = "table_data" -> Walk(Groups, SheetGroup, NoGroups, bs)
             [] template = "picture_pdf" -> Walk(Groups, PageGroup, NoGroups, bs)
             [] OTHER -> Walk(Groups, SectionGroup, NoGroups, bs)
<1>1. GroupsOf(template, bs) = Values(G)
  BY DEF GroupsOf
<1>2. CASE template = "manual"
  <2>1. G = Walk(Groups, ManualGroup, Default("manual"), bs)
    BY <1>2, Zenon
  <2>2. strict => \A n \in 1..Len(bs) : Apart(bs[n], DefaultTitle("manual"))
    BY <1>2 DEF Settles
  <2>3. Walk(Groups, ManualGroup, Default("manual"), bs) \in Settling(bs, Len(bs), strict, DefaultTitle("manual"))
    BY <2>2, ManualGroupWalk
  <2> HIDE DEF G
  <2> QED BY <1>1, <2>1, <2>3, SettledFiled
<1>3. CASE template = "qa"
  <2>1. G = Walk(Groups, QAGroup, Default("qa"), bs)
    BY <1>3, Zenon
  <2>2. strict => \A n \in 1..Len(bs) : Apart(bs[n], DefaultTitle("qa"))
    BY <1>3 DEF Settles
  <2>3. Walk(Groups, QAGroup, Default("qa"), bs) \in Settling(bs, Len(bs), strict, DefaultTitle("qa"))
    BY <2>2, QAGroupWalk
  <2> HIDE DEF G
  <2> QED BY <1>1, <2>1, <2>3, SettledFiled
<1>4. CASE template = "book"
  <2>1. G = Walk(Groups, BookGroup, Default("book"), bs)
    BY <1>4, Zenon
  <2>2. strict => \A n \in 1..Len(bs) : Apart(bs[n], DefaultTitle("book"))
    BY <1>4 DEF Settles
  <2>3. Walk(Groups, BookGroup, Default("book"), bs) \in Settling(bs, Len(bs), strict, DefaultTitle("book"))
    BY <2>2, BookGroupWalk
  <2> HIDE DEF G
  <2> QED BY <1>1, <2>1, <2>3, SettledFiled
<1>5. CASE template = "paper"
  <2>1. G = Walk(Groups, PaperGroup, Default("paper"), bs)
    BY <1>5, Zenon
  <2> HIDE DEF G
  <2> QED BY <1>1, <2>1, PaperGroupWalk, ValuesFiled
<1>6. CASE template = "laws"
  <2>1. G = Walk(Groups, LawsGroup, Default("laws"), bs)
    BY <1>6, Zenon
  <2> HIDE DEF G
  <2> QED BY <1>1, <2>1, LawsGroupWalk, ValuesFiled
<1>7. CASE template = "contract_terms"
  <2>1. G = ContractGroups(bs)
    BY <1>7, Zenon
  <2> HIDE DEF G
  <2> QED BY <1>1, <2>1, ContractFiled, ValuesFiled
<1>8. CASE template = "table_data"
  <2>1. G = Walk(Groups, SheetGroup, NoGroups, bs)
    BY <1>8, Zenon
  <2> HIDE DEF G
  <2> QED BY <1>1, <2>1, SheetGroupWalk, ValuesFiled
<1>9. CASE template = "picture_pdf"
  <2>1. G = Walk(Groups, PageGroup, NoGroups, bs)
    BY <1>9, Zenon
  <2> HIDE DEF G
  <2> QED BY <1>1, <2>1, PageGroupWalk, ValuesFiled
<1>10. CASE template \notin {"manual", "qa", "book", "paper", "laws", "contract_terms", "table_data", "picture_pdf"}
  <2>1. G = accs
    BY <1>10, Zenon
  <2> HIDE DEF G
  <2> QED BY <1>1, <2>1, SectionGroupWalk, ValuesFiled
<1> QED BY <1>2, <1>3, <1>4, <1>5, <1>6, <1>7, <1>8, <1>9, <1>10

-----------------------------------------------------------------------------
(* Reading order *)

\* What is selected stays in order.
LEMMA RisingOnly ==
  ASSUME NEW s \in Seq(Block), Rising(s), NEW S
  PROVE  /\ Only(s, S) \in Seq(Block) /\ Rising(Only(s, S))
         /\ \A n \in 1..Len(Only(s, S)) : Only(s, S)[n] \in ToSet(s) \cap S
         /\ \A x \in ToSet(s) \cap S : \E n \in 1..Len(Only(s, S)) : Only(s, S)[n] = x
<1> DEFINE t == Only(s, S)
<1>1. t \in Seq(Block)
  BY OnlyType
<1>2. PICK p : Places(p, t, s)
  BY OnlyPlaces
<1>3. /\ \A n \in 1..Len(t) : t[n] \in S /\ \E m \in 1..Len(s) : s[m] = t[n]
      /\ \A m \in 1..Len(s) : s[m] \in S => \E n \in 1..Len(t) : s[m] = t[n]
  BY OnlyElements
<1> HIDE DEF t
<1>4. Rising(t)
  <2>1. ASSUME NEW j \in 1..Len(t), NEW k \in 1..Len(t), j < k PROVE Precedes(t[j], t[k])
    <3>1. t[j] = s[p[j]] /\ t[k] = s[p[k]] /\ p[j] < p[k] /\ p[j] \in 1..Len(s) /\ p[k] \in 1..Len(s)
      BY <1>2, <2>1 DEF Places
    <3> QED BY <3>1 DEF Rising
  <2> QED BY <2>1 DEF Rising
<1>5. \A m \in 1..Len(s) : s[m] \in ToSet(s)
  BY DEF ToSet
<1>6. \A x \in ToSet(s) : \E m \in 1..Len(s) : s[m] = x
  BY DEF ToSet
<1>7. \A n \in 1..Len(t) : t[n] \in ToSet(s) \cap S
  BY <1>3, <1>5
<1>8. \A x \in ToSet(s) \cap S : \E n \in 1..Len(t) : t[n] = x
  BY <1>3, <1>6
<1> QED BY <1>1, <1>4, <1>7, <1>8 DEF t

\* Blocks in order, and others behind them
LEMMA RisingConcat ==
  ASSUME NEW s \in Seq(Block), NEW t \in Seq(Block), Rising(s), Rising(t),
         \A j \in 1..Len(s), k \in 1..Len(t) : Precedes(s[j], t[k])
  PROVE  s \o t \in Seq(Block) /\ Rising(s \o t)
<1> DEFINE u == s \o t
           L == Len(s)
           M == Len(t)
<1>1. /\ u \in Seq(Block) /\ Len(u) = L + M /\ L \in Nat /\ M \in Nat
      /\ \A k \in 1..L : u[k] = s[k]
      /\ \A k \in (L + 1)..(L + M) : u[k] = t[k - L]
  OBVIOUS
<1> HIDE DEF u
<1>2. ASSUME NEW j \in 1..Len(u), NEW k \in 1..Len(u), j < k PROVE Precedes(u[j], u[k])
  <2>1. CASE j \in 1..L /\ k \in 1..L
    BY <1>1, <1>2, <2>1 DEF Rising
  <2>2. CASE j \in 1..L /\ k \in (L + 1)..(L + M)
    <3>1. k - L \in 1..M
      BY <1>1, <2>2
    <3> QED BY <1>1, <2>2, <3>1
  <2>3. CASE j \in (L + 1)..(L + M) /\ k \in (L + 1)..(L + M)
    <3>1. j - L \in 1..M /\ k - L \in 1..M /\ j - L < k - L
      BY <1>1, <1>2, <2>3
    <3> QED BY <1>1, <2>3, <3>1 DEF Rising
  <2> QED BY <1>1, <1>2, <2>1, <2>2, <2>3
<1>3. Rising(u)
  BY <1>2 DEF Rising
<1> QED BY <1>1, <1>3 DEF u

\* Blocks in order, and one behind them
LEMMA RisingAppend ==
  ASSUME NEW s \in Seq(Block), NEW b \in Block, Rising(s), \A j \in 1..Len(s) : Precedes(s[j], b)
  PROVE  Append(s, b) \in Seq(Block) /\ Rising(Append(s, b))
<1> DEFINE t == <<b>>
<1>1. t \in Seq(Block) /\ Len(t) = 1 /\ t[1] = b /\ s \o t = Append(s, b)
  OBVIOUS
<1> HIDE DEF t
<1>2. Rising(t)
  BY <1>1 DEF Rising
<1>3. \A j \in 1..Len(s), k \in 1..Len(t) : Precedes(s[j], t[k])
  BY <1>1
<1>4. s \o t \in Seq(Block) /\ Rising(s \o t)
  BY <1>1, <1>2, <1>3, RisingConcat
<1> QED BY <1>1, <1>4

\* No two blocks have the same place in the reading order.
Distinct(bs) ==
    /\ bs \in Seq(Block)
    /\ \A j \in 1..Len(bs), k \in 1..Len(bs) : bs[j].order = bs[k].order => j = k
\* The first n blocks of bs are sorted.
Sorted(bs, n) == {s \in Seq(Block) : Rising(s) /\ ToSet(s) = {bs[k] : k \in 1..n}}

\* A block is inserted at its place.
LEMMA InsertSorts ==
  ASSUME NEW bs, Distinct(bs), NEW n \in 1..Len(bs), NEW s \in Sorted(bs, n - 1)
  PROVE  Insert(s, bs[n]) \in Sorted(bs, n)
<1> DEFINE b == bs[n]
           after == {i \in DOMAIN s : Precedes(b, s[i])}
           A == {c \in Block : ~Precedes(b, c)}
           B == {c \in Block : Precedes(b, c)}
           u == Only(s, A)
           v == Only(s, B)
           w == Append(u, b)
           new == w \o v
<1>1. /\ bs \in Seq(Block) /\ b \in Block /\ n \in Nat
      /\ \A k \in 1..(n - 1) : bs[k] \in Block /\ bs[k].order # b.order
  BY DEF Distinct
<1>2. s \in Seq(Block) /\ Rising(s) /\ ToSet(s) = {bs[k] : k \in 1..(n - 1)}
  BY DEF Sorted
<1>3. ToSet(s) \subseteq Block
  BY <1>2, ToSetType
<1>4. DOMAIN s = 1..Len(s) /\ \A i \in DOMAIN s : s[i] \in Block
  BY <1>2
<1>5. At(s, DOMAIN s \ after) = u /\ At(s, after) = v
  <2>1. \A i \in DOMAIN s : i \in DOMAIN s \ after <=> s[i] \in A
    BY <1>4
  <2>2. \A i \in DOMAIN s : i \in after <=> s[i] \in B
    BY <1>4
  <2> HIDE DEF after, A, B
  <2>3. At(s, DOMAIN s \ after) = Only(s, A)
    BY <2>1, AtIsOnly
  <2>4. At(s, after) = Only(s, B)
    BY <2>2, AtIsOnly
  <2> QED BY <2>3, <2>4
<1>6. Insert(s, b) = new
  BY <1>5 DEF Insert
<1>7. /\ u \in Seq(Block) /\ Rising(u)
      /\ \A i \in 1..Len(u) : u[i] \in ToSet(s) \cap A
      /\ \A x \in ToSet(s) \cap A : \E i \in 1..Len(u) : u[i] = x
  <2> HIDE DEF A
  <2> QED BY <1>2, RisingOnly
<1>8. /\ v \in Seq(Block) /\ Rising(v)
      /\ \A i \in 1..Len(v) : v[i] \in ToSet(s) \cap B
      /\ \A x \in ToSet(s) \cap B : \E i \in 1..Len(v) : v[i] = x
  <2> HIDE DEF B
  <2> QED BY <1>2, RisingOnly
<1>9. \A x \in ToSet(s) : x \in Block /\ x.order # b.order
  BY <1>1, <1>2
<1> HIDE DEF u, v, b
<1>10. \A i \in 1..Len(u) : u[i] \in Block /\ Precedes(u[i], b)
  BY <1>1, <1>7, <1>9, PrecedesOrders
<1>11. \A i \in 1..Len(v) : v[i] \in Block /\ Precedes(b, v[i])
  BY <1>8
<1>12. \A i \in 1..Len(u), k \in 1..Len(v) : Precedes(u[i], v[k])
  BY <1>1, <1>10, <1>11, PrecedesOrders
<1>13. w \in Seq(Block) /\ Rising(w) /\ Len(w) = Len(u) + 1 /\ w[Len(u) + 1] = b
       /\ (\A i \in 1..Len(u) : w[i] = u[i]) /\ Len(u) \in Nat
  <2>1. w \in Seq(Block) /\ Rising(w)
    BY <1>1, <1>7, <1>10, RisingAppend
  <2> QED BY <1>1, <1>7, <2>1
<1> HIDE DEF w
<1>14. \A i \in 1..Len(w), k \in 1..Len(v) : Precedes(w[i], v[k])
  <2> TAKE i \in 1..Len(w), k \in 1..Len(v)
  <2>1. CASE i \in 1..Len(u)
    BY <1>12, <1>13, <2>1
  <2>2. CASE i = Len(u) + 1
    BY <1>11, <1>13, <2>2
  <2> QED BY <1>13, <2>1, <2>2
<1>15. new \in Seq(Block) /\ Rising(new)
  BY <1>8, <1>13, <1>14, RisingConcat
<1>16. ToSet(new) = ToSet(w) \cup ToSet(v)
  BY <1>8, <1>13, ToSetConcat
<1>17. ToSet(w) = (ToSet(s) \cap A) \cup {b}
  <2>1. \A x : x \in ToSet(w) <=> \E i \in 1..Len(w) : w[i] = x
    BY <1>13 DEF ToSet
  <2>2. ASSUME NEW x \in ToSet(w) PROVE x \in (ToSet(s) \cap A) \cup {b}
    BY <1>7, <1>13, <2>1
  <2>3. ASSUME NEW x \in ToSet(s) \cap A PROVE x \in ToSet(w)
    <3>1. PICK i \in 1..Len(u) : u[i] = x
      BY <1>7
    <3>2. i \in 1..Len(w) /\ w[i] = x
      BY <1>13, <3>1
    <3> QED BY <2>1, <3>2
  <2>4. b \in ToSet(w)
    <3>1. Len(u) + 1 \in 1..Len(w)
      BY <1>13
    <3> QED BY <1>13, <2>1, <3>1
  <2> QED BY <2>2, <2>3, <2>4
<1>18. ToSet(v) = ToSet(s) \cap B
  <2>1. \A x : x \in ToSet(v) <=> \E i \in 1..Len(v) : v[i] = x
    BY <1>8 DEF ToSet
  <2> QED BY <1>8, <2>1
<1>19. ToSet(s) = (ToSet(s) \cap A) \cup (ToSet(s) \cap B)
  BY <1>3
<1> HIDE DEF A, B, new
<1>20. ToSet(new) = ToSet(s) \cup {b}
  BY <1>16, <1>17, <1>18, <1>19
<1>21. ToSet(new) = {bs[k] : k \in 1..n}
  <2>1. \A k \in 1..n : k \in 1..(n - 1) \/ k = n
    BY <1>1
  <2>2. n \in 1..n /\ \A k \in 1..(n - 1) : k \in 1..n
    BY <1>1
  <2> QED BY <1>2, <1>20, <2>1, <2>2 DEF b
<1>22. new \in Sorted(bs, n)
  BY <1>15, <1>21 DEF Sorted
<1> QED BY <1>6, <1>22 DEF b

\* The blocks of a document in reading order
LEMMA ReadingSorted ==
  ASSUME NEW bs, Distinct(bs)
  PROVE  InReadingOrder(bs) \in Sorted(bs, Len(bs))
<1> DEFINE N == Len(bs)
           P == [n \in 0..N |-> Sorted(bs, n)]
           steps == [n \in DOMAIN bs |-> [acc \in Seq(Block) |-> Insert(acc, bs[n])]]
           e == <<>>
<1>1. bs \in Seq(Block) /\ N \in Nat
  BY DEF Distinct
<1>2. InReadingOrder(bs) = Folded(e, steps)
  BY DEF InReadingOrder, Walk
<1>3. e \in Sorted(bs, 0)
  <2>1. e \in Seq(Block) /\ Len(e) = 0 /\ ToSet(e) = {}
    BY ToSetEmpty
  <2> HIDE DEF e
  <2>2. Rising(e) /\ ToSet(e) = {bs[k] : k \in 1..0}
    BY <2>1 DEF Rising
  <2> QED BY <2>1, <2>2 DEF Sorted
<1>4. ASSUME NEW n \in 1..N, NEW acc \in Sorted(bs, n - 1)
      PROVE  steps[n][acc] \in Sorted(bs, n)
  <2>1. acc \in Seq(Block)
    BY DEF Sorted
  <2>2. steps[n][acc] = Insert(acc, bs[n])
    BY <1>1, <2>1
  <2> HIDE DEF steps
  <2>3. Insert(acc, bs[n]) \in Sorted(bs, n)
    BY InsertSorts
  <2> QED BY <2>2, <2>3
<1>5. steps = [n \in DOMAIN bs |-> steps[n]]
  OBVIOUS
<1> HIDE DEF steps, e
<1>6. e \in P[0] /\ \A n \in 1..N : \A v \in P[n - 1] : steps[n][v] \in P[n]
  <2>1. \A n \in 1..N : n - 1 \in 0..N /\ n \in 0..N
    BY <1>1
  <2>2. \A n \in 0..N : P[n] = Sorted(bs, n)
    OBVIOUS
  <2>3. 0 \in 0..N
    BY <1>1
  <2> HIDE DEF P
  <2> QED BY <1>3, <1>4, <2>1, <2>2, <2>3
<1>7. P[N] = Sorted(bs, N)
  BY <1>1
<1>8. Folded(e, steps) \in P[N]
  <2> HIDE DEF P
  <2> QED BY <1>1, <1>5, <1>6, WalkKeeps DEF N
<1> QED BY <1>2, <1>7, <1>8 DEF N

\* What a template looks at is what it chooses from the blocks of the document.
LEMMA SelectedEntries ==
  ASSUME NEW bs, Entries(bs), NEW S
  PROVE  Entries(Only(bs, S)) /\ \A n \in 1..Len(Only(bs, S)) : Only(bs, S)[n] \in ToSet(bs) \cap S
<1> DEFINE t == Only(bs, S)
<1>1. bs \in Seq(Block) /\ Rising(bs) /\ \A n \in 1..Len(bs) : Entry(bs[n])
  BY DEF Entries
<1>2. /\ t \in Seq(Block) /\ Rising(t)
      /\ \A n \in 1..Len(t) : t[n] \in ToSet(bs) \cap S
  BY <1>1, RisingOnly
<1>3. \A x \in ToSet(bs) : Entry(x)
  BY <1>1 DEF ToSet
<1> HIDE DEF t
<1>4. Entries(t)
  BY <1>2, <1>3 DEF Entries
<1> QED BY <1>2, <1>4 DEF t

\* In reading order are the same blocks, and each has its place.
LEMMA ReadingEntries ==
  ASSUME NEW bs, Distinct(bs), \A n \in 1..Len(bs) : Entry(bs[n])
  PROVE  Entries(InReadingOrder(bs)) /\ ToSet(InReadingOrder(bs)) = ToSet(bs)
<1> DEFINE s == InReadingOrder(bs)
<1>1. s \in Sorted(bs, Len(bs))
  BY ReadingSorted
<1> HIDE DEF s
<1>2. s \in Seq(Block) /\ Rising(s) /\ ToSet(s) = {bs[k] : k \in 1..Len(bs)}
  BY <1>1 DEF Sorted
<1>3. \A n \in 1..Len(s) : s[n] \in ToSet(s)
  BY <1>2 DEF ToSet
<1>4. \A n \in 1..Len(s) : Entry(s[n])
  BY <1>2, <1>3
<1>5. ToSet(bs) = {bs[k] : k \in 1..Len(bs)}
  <2>1. bs \in Seq(Block)
    BY DEF Distinct
  <2> QED BY <2>1 DEF ToSet
<1> QED BY <1>2, <1>4, <1>5 DEF Entries, s

\* What the template chunkers look at has its place.
LEMMA ContentEntries ==
  ASSUME NEW bs, Distinct(bs), \A n \in 1..Len(bs) : Entry(bs[n])
  PROVE  /\ Entries(ContentBlocks(bs))
         /\ \A n \in 1..Len(ContentBlocks(bs)) : ContentBlocks(bs)[n] \in ToSet(bs)
<1> DEFINE s == InReadingOrder(bs)
           P == {n \in DOMAIN s : s[n].type \notin SkipTypes /\ s[n].line # "blank"}
           S == {c \in Block : c.type \notin SkipTypes /\ c.line # "blank"}
<1>1. Entries(s) /\ ToSet(s) = ToSet(bs)
  BY ReadingEntries
<1>2. ContentBlocks(bs) = At(s, P)
  BY DEF ContentBlocks
<1> HIDE DEF s
<1>3. \A n \in DOMAIN s : n \in P <=> s[n] \in S
  BY <1>1 DEF Entries, Entry
<1> HIDE DEF P, S
<1>4. At(s, P) = Only(s, S)
  BY <1>3, AtIsOnly
<1>5. Entries(Only(s, S)) /\ \A n \in 1..Len(Only(s, S)) : Only(s, S)[n] \in ToSet(s) \cap S
  BY <1>1, SelectedEntries
<1> QED BY <1>1, <1>2, <1>4, <1>5

\* Every text is of two pieces at least.
Texted(bs) == \A n \in 1..Len(bs) : Len(bs[n].text) >= 2
\* Text and title aside it is the block.
Same(c, b) == c \in Block /\ c.id = b.id /\ c.page = b.page /\ c.order = b.order /\ c.path = b.path

\* The text that a marker joins is still at its place.
LEMMA JoinedSame ==
  ASSUME NEW body \in Block, NEW m \in Block, Len(m.text) >= 2
  PROVE  Same(JoinMarker(body, m), body)
<1> DEFINE x == m.text[1]
           y == m.text[2]
           text == <<x>> \o body.text \o <<y>>
           size == body.size + m.size
           type == IF body.type = "list_item" THEN "paragraph" ELSE body.type
           new == JoinMarker(body, m)
<1>1. m.text \in Seq(Piece) /\ body.text \in Seq(Piece) /\ m.line \in Line /\ m.title \in Title
  BY DEF Block
<1>2. x \in Piece /\ y \in Piece
  <2> DEFINE T == Piece
             s == m.text
  <2>1. s \in Seq(T) /\ Len(s) >= 2
    BY <1>1
  <2> HIDE DEF T, s
  <2>2. s[1] \in T /\ s[2] \in T
    BY <2>1
  <2> QED BY <2>2 DEF T, s
<1> HIDE DEF x, y
<1>3. text \in Seq(Piece)
  <2> DEFINE T == Piece
             t == body.text
  <2>1. t \in Seq(T) /\ x \in T /\ y \in T
    BY <1>1, <1>2
  <2> HIDE DEF T, t
  <2>2. <<x>> \in Seq(T) /\ <<y>> \in Seq(T)
    BY <2>1
  <2>3. <<x>> \o t \o <<y>> \in Seq(T)
    BY <2>1, <2>2
  <2> QED BY <2>3 DEF T, t
<1>4. size \in Nat
  BY DEF Block
<1>5. type \in BlockType
  BY DEF Block, BlockType
<1>6. new = [body EXCEPT !.text = text, !.line = m.line, !.title = m.title, !.size = size, !.type = type]
  BY DEF JoinMarker, x, y
<1> HIDE DEF text, size, type, new
<1>7. new \in Block /\ new.id = body.id /\ new.page = body.page /\ new.order = body.order /\ new.path = body.path
  BY <1>1, <1>3, <1>4, <1>5, <1>6 DEF Block
<1> QED BY <1>7 DEF Same, new

\* A repaired block has the place of the block.
LEMMA SameEntry ==
  ASSUME NEW b, Entry(b), NEW c, Same(c, b)
  PROVE  Entry(c)
  BY DEF Entry, Same

\* Blocks at the places of others are in order as well.
LEMMA SameEntries ==
  ASSUME NEW bs, Entries(bs), NEW cs, cs = [n \in DOMAIN bs |-> cs[n]],
         \A n \in 1..Len(bs) : Same(cs[n], bs[n])
  PROVE  Entries(cs) /\ Len(cs) = Len(bs)
<1>1. bs \in Seq(Block) /\ Rising(bs) /\ \A n \in 1..Len(bs) : Entry(bs[n])
  BY DEF Entries
<1>2. \A n \in 1..Len(bs) : cs[n] \in Block
  BY DEF Same
<1>3. cs \in Seq(Block) /\ Len(cs) = Len(bs)
  BY <1>1, <1>2, FunctionLen
<1>4. \A n \in 1..Len(bs) : Entry(cs[n])
  BY <1>1, SameEntry
<1>5. Rising(cs)
  <2>1. ASSUME NEW j \in 1..Len(cs), NEW k \in 1..Len(cs), j < k PROVE Precedes(cs[j], cs[k])
    <3>1. Precedes(bs[j], bs[k])
      BY <1>1, <1>3, <2>1 DEF Rising
    <3>2. /\ cs[j].page = bs[j].page /\ cs[j].order = bs[j].order
          /\ cs[k].page = bs[k].page /\ cs[k].order = bs[k].order
      BY <1>3 DEF Same
    <3> QED BY <3>1, <3>2 DEF Precedes
  <2> QED BY <2>1 DEF Rising
<1> QED BY <1>3, <1>4, <1>5 DEF Entries

\* In reading order no block is there twice.
LEMMA RisingOnce ==
  ASSUME NEW bs, Entries(bs), NEW j \in 1..Len(bs), NEW k \in 1..Len(bs), bs[j] = bs[k]
  PROVE  j = k
<1>1. bs \in Seq(Block) /\ Rising(bs) /\ bs[j] \in Block
  BY DEF Entries
<1>2. ~Precedes(bs[j], bs[j])
  BY <1>1, PrecedesOrders
<1>3. j < k => Precedes(bs[j], bs[k])
  BY <1>1 DEF Rising
<1>4. k < j => Precedes(bs[k], bs[j])
  BY <1>1 DEF Rising
<1>5. j \in Nat /\ k \in Nat
  BY <1>1
<1>6. ~(j < k) /\ ~(k < j)
  BY <1>2, <1>3, <1>4
<1> QED BY <1>5, <1>6

\* The markers that are joined, those of one text, and what becomes of a block
Joins(bs) == {k \in DOMAIN bs : Marker(bs[k]) /\ BestBody(bs, bs[k]) # 0}
MarkersOf(bs, n) == {k \in Joins(bs) : BestBody(bs, bs[k]) = n}
RepairedAt(bs, n) ==
    IF MarkersOf(bs, n) = {} THEN bs[n] ELSE JoinMarker(bs[n], bs[Max(MarkersOf(bs, n))])
\* Joining markers to their text keeps the places.
LEMMA RepairedEntries ==
  ASSUME NEW bs, Entries(bs), Texted(bs)
  PROVE  /\ Entries(RepairMarkers(bs))
         /\ \A n \in 1..Len(RepairMarkers(bs)) : \E b \in ToSet(bs) : Same(RepairMarkers(bs)[n], b)
         /\ ToSet(RepairMarkers(bs)) = {RepairedAt(bs, n) : n \in DOMAIN bs \ Joins(bs)}
<1> DEFINE joins == Joins(bs)
           markers(n) == MarkersOf(bs, n)
           repaired == [n \in DOMAIN bs |-> RepairedAt(bs, n)]
           P == DOMAIN bs \ joins
           S == {repaired[n] : n \in P}
           N == Len(bs)
<1>1. RepairMarkers(bs) = At(repaired, P)
  BY DEF RepairMarkers, RepairedAt, MarkersOf, Joins
<1>2. bs \in Seq(Block) /\ N \in Nat /\ DOMAIN bs = 1..N
  BY DEF Entries
<1>3. \A n : markers(n) \subseteq 1..N
  BY <1>2 DEF MarkersOf, Joins
<1> HIDE DEF joins
<1>4. ASSUME NEW n \in 1..N PROVE Same(repaired[n], bs[n])
  <2>1. bs[n] \in Block
    BY <1>2
  <2>2. CASE markers(n) = {}
    <3>1. repaired[n] = bs[n]
      BY <1>2, <2>2 DEF RepairedAt
    <3> QED BY <2>1, <3>1 DEF Same
  <2>3. CASE markers(n) # {}
    <3> DEFINE m == Max(markers(n))
    <3>1. m \in 1..N
      BY <1>2, <1>3, <2>3, GreatestOf
    <3>2. repaired[n] = JoinMarker(bs[n], bs[m])
      BY <1>2, <2>3 DEF RepairedAt
    <3> HIDE DEF m, repaired
    <3>3. bs[m] \in Block /\ Len(bs[m].text) >= 2
      BY <1>2, <3>1 DEF Texted
    <3> QED BY <2>1, <3>2, <3>3, JoinedSame
  <2> QED BY <2>2, <2>3
<1>5. repaired = [n \in DOMAIN bs |-> repaired[n]]
  OBVIOUS
<1> HIDE DEF repaired
<1>6. Entries(repaired) /\ Len(repaired) = N
  BY <1>4, <1>5, SameEntries
<1>7. DOMAIN repaired = 1..N
  BY <1>2, <1>5
<1>8. \A n \in DOMAIN repaired : n \in P <=> repaired[n] \in S
  <2>1. ASSUME NEW n \in DOMAIN repaired, repaired[n] \in S PROVE n \in P
    <3>1. PICK k \in P : repaired[n] = repaired[k]
      BY <2>1
    <3>2. k \in 1..Len(repaired) /\ n \in 1..Len(repaired)
      BY <1>2, <1>6, <1>7
    <3>3. n = k
      BY <1>6, <3>1, <3>2, RisingOnce
    <3> QED BY <3>1, <3>3
  <2> QED BY <2>1
<1> HIDE DEF P, S
<1>9. At(repaired, P) = Only(repaired, S)
  BY <1>8, AtIsOnly
<1> DEFINE cs == Only(repaired, S)
<1>10. Entries(cs) /\ \A n \in 1..Len(cs) : cs[n] \in ToSet(repaired) \cap S
  BY <1>6, SelectedEntries
<1> HIDE DEF cs
<1>11. ASSUME NEW n \in 1..Len(cs) PROVE \E b \in ToSet(bs) : Same(cs[n], b)
  <2>1. PICK k \in 1..N : cs[n] = repaired[k]
    BY <1>7, <1>10 DEF ToSet
  <2>2. bs[k] \in ToSet(bs)
    BY <1>2 DEF ToSet
  <2> QED BY <1>4, <2>1, <2>2
<1>12. RepairMarkers(bs) = cs
  BY <1>1, <1>9 DEF cs
<1>13. ToSet(cs) = S
  <2>1. \A x \in ToSet(repaired) \cap S : \E n \in 1..Len(cs) : cs[n] = x
    <3>1. repaired \in Seq(Block) /\ Rising(repaired)
      BY <1>6 DEF Entries
    <3> QED BY <3>1, RisingOnly DEF cs
  <2>2. DOMAIN cs = 1..Len(cs)
    BY <1>10 DEF Entries
  <2>3. S \subseteq ToSet(repaired)
    BY <1>7 DEF S, P, ToSet
  <2>4. \A n \in 1..Len(cs) : cs[n] \in ToSet(cs)
    BY <2>2 DEF ToSet
  <2>5. \A x \in ToSet(cs) : \E n \in 1..Len(cs) : x = cs[n]
    BY <2>2 DEF ToSet
  <2>6. \A x \in S : x \in ToSet(cs)
    BY <2>1, <2>3, <2>4
  <2>7. \A x \in ToSet(cs) : x \in S
    BY <1>10, <2>5
  <2> QED BY <2>6, <2>7
<1>14. S = {RepairedAt(bs, n) : n \in DOMAIN bs \ Joins(bs)}
  BY DEF S, P, repaired, joins
<1> QED BY <1>10, <1>11, <1>12, <1>13, <1>14

\* A document whose blocks have their places
InPlace(bs) ==
    /\ Distinct(bs) /\ Texted(bs)
    /\ \A n \in 1..Len(bs) : Entry(bs[n])
\* No title is that of the group that the template starts with.
Unclashed(template, bs) ==
    template \in {"manual", "qa", "book"} =>
        \A b \in ToSet(ContentBlocks(bs)) : DefaultTitle(template) \notin {b.title, Head(b.path)}

\* A block is the same as itself.
LEMMA SameAsItself ==
  ASSUME NEW b, Entry(b)
  PROVE  Same(b, b)
  BY DEF Same, Entry

\* What a template looks at is in order, and each block of it is one of the document.
LEMMA ChosenEntries ==
  ASSUME NEW bs, InPlace(bs), NEW template
  PROVE  /\ Entries(Chosen(template, bs))
         /\ \A n \in 1..Len(Chosen(template, bs)) : \E b \in ToSet(bs) : Same(Chosen(template, bs)[n], b)
         /\ template # "contract_terms" =>
                \A n \in 1..Len(Chosen(template, bs)) : Chosen(template, bs)[n] \in ToSet(ContentBlocks(bs))
<1> DEFINE content == ContentBlocks(bs)
           cs == Chosen(template, bs)
           P == {n \in DOMAIN content : content[n].line # "toc"}
           S == {c \in Block : c.line # "toc"}
           kept == Only(content, S)
<1>1. Entries(content) /\ \A n \in 1..Len(content) : content[n] \in ToSet(bs)
  BY ContentEntries DEF InPlace
<1>2. Chosen(template, bs) = CASE template = "book" -> At(content, P)
                               [] template = "contract_terms" -> RepairMarkers(content)
                               [] OTHER -> content
  BY DEF Chosen
<1>3. bs \in Seq(Block) /\ \A x \in ToSet(bs) : Entry(x) /\ Len(x.text) >= 2
  BY DEF InPlace, Distinct, Texted, ToSet
<1> HIDE DEF content, cs
<1>4. content \in Seq(Block) /\ \A n \in 1..Len(content) : content[n] \in ToSet(content)
  BY <1>1 DEF Entries, ToSet
<1>5. \A x \in ToSet(content) : x \in ToSet(bs)
  BY <1>1, <1>4 DEF ToSet
<1>6. \A x \in ToSet(bs) : Same(x, x)
  BY <1>3, SameAsItself
<1>7. CASE template = "book"
  <2>1. cs = At(content, P)
    BY <1>2, <1>7, Zenon DEF cs
  <2>2. \A n \in DOMAIN content : n \in P <=> content[n] \in S
    BY <1>4
  <2> HIDE DEF P, S, kept
  <2>3. cs = kept
    BY <2>1, <2>2, AtIsOnly DEF kept
  <2>4. Entries(kept) /\ \A n \in 1..Len(kept) : kept[n] \in ToSet(content) \cap S
    BY <1>1, SelectedEntries DEF kept
  <2> QED BY <1>5, <1>6, <2>3, <2>4 DEF cs, content
<1>8. CASE template = "contract_terms"
  <2>1. cs = RepairMarkers(content)
    BY <1>2, <1>8, Zenon DEF cs
  <2>2. Texted(content)
    BY <1>1, <1>3 DEF Texted
  <2>3. Entries(cs) /\ \A n \in 1..Len(cs) : \E b \in ToSet(content) : Same(cs[n], b)
    BY <1>1, <2>1, <2>2, RepairedEntries
  <2> QED BY <1>5, <1>8, <2>3 DEF cs
<1>9. CASE template \notin {"book", "contract_terms"}
  <2>1. cs = content
    BY <1>2, <1>9, Zenon DEF cs
  <2> QED BY <1>1, <1>4, <1>6, <2>1 DEF cs, content
<1> QED BY <1>7, <1>8, <1>9

\* The package of the groups with their children
PackageOf(cs, groups, drafts, strict) ==
    /\ Entries(cs) /\ Filed(groups, cs, strict)
    /\ drafts = [k \in 1..Len(groups) |-> drafts[k]]
    /\ \A k \in 1..Len(groups) : Whole(groups[k], drafts[k])
\* Every block of a group is in one of its children, but for what the template does without.
Covering(template, groups, drafts) ==
    \A k \in 1..Len(groups) : Covered(Spared(template, groups[k]), groups[k], drafts[k])
FamiliesOf(groups, drafts) == [k \in 1..Len(groups) |-> Family(groups[k], KidsOf(groups[k], drafts[k]))]

\* The package is that of some groups and of the children of each.
LEMMA PackageMade ==
  ASSUME NEW bs, InPlace(bs), NEW template, NEW strict, strict => Unclashed(template, bs)
  PROVE  \E groups, drafts :
            /\ PackageOf(Chosen(template, bs), groups, drafts, strict)
            /\ Covering(template, groups, drafts)
            /\ groups = GroupsOf(template, Chosen(template, bs))
            /\ Package(template, bs) = Packed(FamiliesOf(groups, drafts), bs)
<1> DEFINE cs == Chosen(template, bs)
           groups == GroupsOf(template, cs)
           drafts == [k \in 1..Len(groups) |-> ChildrenOf(template, groups[k])]
<1>1. /\ Entries(cs)
      /\ template # "contract_terms" =>
                \A n \in 1..Len(cs) : cs[n] \in ToSet(ContentBlocks(bs))
  BY ChosenEntries
<1>2. Package(template, bs) = Packed(Families(template, groups), bs)
  BY DEF Package
<1> HIDE DEF cs
<1>3. Settles(template, cs, strict)
  <2>1. ASSUME template \in {"manual", "qa", "book"}, strict, NEW n \in 1..Len(cs)
        PROVE  Apart(cs[n], DefaultTitle(template))
    <3>1. cs[n] \in ToSet(ContentBlocks(bs))
      BY <1>1, <2>1
    <3>2. DefaultTitle(template) \notin {cs[n].title, Head(cs[n].path)}
      BY <2>1, <3>1 DEF Unclashed
    <3> QED BY <3>2 DEF Apart
  <2> QED BY <2>1 DEF Settles
<1>4. Filed(groups, cs, strict)
  BY <1>1, <1>3, GroupsFiled
<1>14. groups = GroupsOf(template, Chosen(template, bs))
  BY DEF cs
<1> HIDE DEF groups
<1>5. /\ groups \in Seq(Obj) /\ cs \in Seq(Block)
      /\ \A k \in 1..Len(groups) : groups[k].blocks \in Upto(cs, Len(cs))
  BY <1>1, <1>4 DEF Filed, Entries
<1>6. ASSUME NEW k \in 1..Len(groups)
      PROVE  Whole(groups[k], drafts[k]) /\ Covered(Spared(template, groups[k]), groups[k], drafts[k])
  <2> DEFINE g == groups[k]
  <2>1. g.blocks \in Seq(Block) /\ Rising(g.blocks)
    BY <1>5 DEF Upto
  <2>2. drafts[k] = ChildrenOf(template, g)
    OBVIOUS
  <2> HIDE DEF g, drafts
  <2>3. Whole(g, ChildrenOf(template, g)) /\ Covered(Spared(template, g), g, ChildrenOf(template, g))
    BY <2>1, ChildrenWhole
  <2> QED BY <2>2, <2>3 DEF g
<1>7. DOMAIN groups = 1..Len(groups)
  BY <1>5
<1>8. Families(template, groups) = FamiliesOf(groups, drafts)
  BY <1>7 DEF Families, FamiliesOf
<1>9. drafts = [k \in 1..Len(groups) |-> drafts[k]]
  OBVIOUS
<1> HIDE DEF drafts
<1>10. PackageOf(cs, groups, drafts, strict)
  BY <1>1, <1>4, <1>6, <1>9 DEF PackageOf
<1>11. Package(template, bs) = Packed(FamiliesOf(groups, drafts), bs)
  BY <1>2, <1>8
<1>12. PackageOf(Chosen(template, bs), groups, drafts, strict)
  BY <1>10 DEF cs
<1>13. Covering(template, groups, drafts)
  BY <1>6 DEF Covering
<1> QED BY <1>11, <1>12, <1>13, <1>14

\* The children of each group, and all of them
Kin(groups, drafts) == [k \in 1..Len(groups) |-> KidsOf(groups[k], drafts[k])]
Born(groups, drafts) ==
    UNION {{Child(groups[k].key, j, drafts[k][j]) : j \in 1..Len(drafts[k])} : k \in 1..Len(groups)}

\* A chunk, by its parts, with and without its context
LEMMA ChildParts ==
  ASSUME NEW key, NEW k, NEW d, NEW x
  PROVE  LET c == Child(key, k, d)
             r == [c EXCEPT !.context = x]
         IN  /\ c.id = ChildId(key, k, d) /\ c.parent = key /\ c.type = d.type /\ c.blocks = d.blocks
             /\ r.id = ChildId(key, k, d) /\ r.parent = key /\ r.type = d.type /\ r.blocks = d.blocks
             /\ r.context = x
  BY DEF Child

\* The chunks of each group, in their order
LEMMA KinParts ==
  ASSUME NEW cs, NEW groups, NEW drafts, NEW strict, PackageOf(cs, groups, drafts, strict)
  PROVE  /\ Kin(groups, drafts) \in Seq(Seq(Born(groups, drafts)))
         /\ Len(Kin(groups, drafts)) = Len(groups) /\ Len(groups) \in Nat
         /\ \A k \in 1..Len(groups) :
               LET kids == Kin(groups, drafts)[k]
               IN  /\ kids \in Seq(Born(groups, drafts)) /\ Len(kids) = Len(drafts[k])
                   /\ drafts[k] \in Seq(Goods(groups[k].title))
                   /\ \A j \in 1..Len(kids) : kids[j] = Child(groups[k].key, j, drafts[k][j])
<1> DEFINE N == Len(groups)
           K == Kin(groups, drafts)
           B == Born(groups, drafts)
<1>1. N \in Nat /\ \A k \in 1..N : drafts[k] \in Seq(Goods(groups[k].title))
  <2>1. groups \in Seq(Obj)
    BY DEF PackageOf, Filed
  <2> QED BY <2>1 DEF PackageOf, Whole
<1>2. ASSUME NEW k \in 1..N
      PROVE  /\ K[k] \in Seq(B) /\ Len(K[k]) = Len(drafts[k])
             /\ \A j \in 1..Len(K[k]) : K[k][j] = Child(groups[k].key, j, drafts[k][j])
  <2> DEFINE d == drafts[k]
             key == groups[k].key
             n == Len(d)
             kids == [j \in 1..n |-> Child(key, j, d[j])]
  <2>1. n \in Nat /\ DOMAIN d = 1..n
    <3> DEFINE T == Goods(groups[k].title)
    <3>1. d \in Seq(T)
      BY <1>1
    <3> HIDE DEF T, d
    <3> QED BY <3>1
  <2>2. K[k] = kids
    BY <2>1 DEF Kin, KidsOf
  <2>3. \A j \in 1..n : kids[j] \in B /\ kids[j] = Child(key, j, d[j])
    BY DEF Born
  <2>4. kids = [j \in 1..n |-> kids[j]]
    OBVIOUS
  <2> HIDE DEF B, K, kids
  <2>5. kids \in Seq(B) /\ Len(kids) = n
    <3> HIDE DEF d, n, key
    <3>1. \A j \in 1..n : kids[j] \in B
      BY <2>3
    <3>2. kids \in [1..n -> B]
      BY <2>4, <3>1
    <3> QED BY <2>1, <3>2
  <2> QED BY <2>2, <2>3, <2>5
<1>3. K = [k \in 1..N |-> K[k]]
  BY DEF Kin
<1> HIDE DEF K, B
<1>4. K \in Seq(Seq(B)) /\ Len(K) = N
  BY <1>1, <1>2, <1>3, FunctionLen
<1> QED BY <1>1, <1>2, <1>4 DEF K, B

\* A child has come from one of the drafts.
LEMMA BornOf ==
  ASSUME NEW groups, NEW drafts, NEW c \in Born(groups, drafts)
  PROVE  \E k \in 1..Len(groups) : \E j \in 1..Len(drafts[k]) : c = Child(groups[k].key, j, drafts[k][j])
  BY DEF Born

\* The parents and the chunks of the package
LEMMA PackedParts ==
  ASSUME NEW groups, NEW drafts, NEW bs, groups \in Seq(Obj)
  PROVE  LET made == Packed(FamiliesOf(groups, drafts), bs)
         IN  /\ made.children = InContext(FlattenSeq(Kin(groups, drafts)), bs)
             /\ made.parents = [k \in 1..Len(groups) |-> made.parents[k]] /\ Len(made.parents) = Len(groups)
             /\ \A k \in 1..Len(groups) :
                   LET p == made.parents[k]
                   IN  /\ p.id = groups[k].key /\ p.title = groups[k].title
                       /\ p.blocks = IdSet(groups[k].blocks) /\ p.kids = IdsOf(Kin(groups, drafts)[k])
<1> DEFINE N == Len(groups)
           F == FamiliesOf(groups, drafts)
           K == Kin(groups, drafts)
           made == Packed(F, bs)
           ps == [k \in 1..N |-> F[k].parent]
<1>1. N \in Nat
  OBVIOUS
<1>2. DOMAIN F = 1..N /\ \A k \in 1..N : F[k] = Family(groups[k], K[k])
  BY DEF FamiliesOf, Kin
<1>3. \A k \in 1..N : F[k].kids = K[k]
  BY <1>2 DEF Family
<1>4. [k \in DOMAIN F |-> F[k].kids] = K
  <2>1. K = [k \in 1..N |-> K[k]]
    BY DEF Kin
  <2> HIDE DEF F, K
  <2> QED BY <1>2, <1>3, <2>1
<1>5. \A k \in 1..N : /\ F[k].parent.id = groups[k].key /\ F[k].parent.title = groups[k].title
                      /\ F[k].parent.blocks = IdSet(groups[k].blocks)
                      /\ F[k].parent.kids = IdsOf(K[k])
  <2> HIDE DEF F, K
  <2> QED BY <1>2 DEF Family
<1> HIDE DEF F, K
<1>6. made.parents = ps /\ made.children = InContext(FlattenSeq([k \in DOMAIN F |-> F[k].kids]), bs)
  BY <1>2 DEF Packed
<1>7. Len(ps) = N /\ ps = [k \in 1..N |-> ps[k]]
  BY <1>1, FunctionLen
<1>8. made.children = InContext(FlattenSeq(K), bs)
  BY <1>4, <1>6
<1>9. \A k \in 1..N : ps[k].id = groups[k].key /\ ps[k].title = groups[k].title
                      /\ ps[k].blocks = IdSet(groups[k].blocks) /\ ps[k].kids = IdsOf(K[k])
  BY <1>5
<1> HIDE DEF ps, made
<1> QED BY <1>6, <1>7, <1>8, <1>9 DEF made, F, K

\* The blocks that the template chunkers get have their places.
LEMMA DocumentInPlace ==
  ASSUME ChunkingInv, stage = "done"
  PROVE  InPlace(blocks)
<1>1. blocks = PlacedBlocks(Cleaned(parsed)) /\ Orderly(parsed) /\ Orderly(blocks)
  BY BlocksOrderly DEF ChunkingInv, Passes
<1>2. Sectioned(blocks)
  BY <1>1, CleanedOrderly, PlacedOrderly
<1>3. Distinct(blocks)
  <2>1. /\ blocks \in Seq(Block)
        /\ \A k \in 1..Len(blocks) : blocks[k].order = blocks[k].id
        /\ \A j \in 1..Len(blocks), k \in 1..Len(blocks) : blocks[j].id = blocks[k].id => j = k
    BY <1>1, OrderlyIds
  <2> QED BY <2>1 DEF Distinct
<1>4. Texted(blocks)
  BY <1>1 DEF Orderly, Sound, Texted
<1>5. \A n \in 1..Len(blocks) : Entry(blocks[n])
  <2>1. \A n \in 1..Len(blocks) : blocks[n] \in Block /\ blocks[n].path # <<>>
    BY <1>2 DEF Sectioned
  <2> QED BY <2>1 DEF Entry
<1> QED BY <1>3, <1>4, <1>5 DEF InPlace

\* What the package is made of, when it is done
LEMMA PackageDone ==
  ASSUME ChunkingInv, stage = "done"
  PROVE  \E groups, drafts :
            /\ PackageOf(Chosen(kind, blocks), groups, drafts, ~Clash)
            /\ Covering(kind, groups, drafts)
            /\ groups = GroupsOf(kind, Chosen(kind, blocks))
            /\ parents = Packed(FamiliesOf(groups, drafts), blocks).parents
            /\ children = Packed(FamiliesOf(groups, drafts), blocks).children
<1>1. InPlace(blocks)
  BY DocumentInPlace
<1>2. parents = Package(kind, blocks).parents /\ children = Package(kind, blocks).children
  BY DEF ChunkingInv, Passes
<1>3. ~Clash => Unclashed(kind, blocks)
  BY DEF Clash, Unclashed, Looked
<1> HIDE DEF Clash
<1>4. \E groups, drafts :
            /\ PackageOf(Chosen(kind, blocks), groups, drafts, ~Clash)
            /\ Covering(kind, groups, drafts)
            /\ groups = GroupsOf(kind, Chosen(kind, blocks))
            /\ Package(kind, blocks) = Packed(FamiliesOf(groups, drafts), blocks)
  BY <1>1, <1>3, PackageMade
<1> QED BY <1>2, <1>4

\* A chunk of the package is a draft with an id and a context.
LEMMA ChildMade ==
  ASSUME NEW cs, NEW groups, NEW drafts, NEW strict, PackageOf(cs, groups, drafts, strict), NEW bs,
         NEW c \in ToSet(InContext(FlattenSeq(Kin(groups, drafts)), bs))
  PROVE  \E k \in 1..Len(groups) : \E j \in 1..Len(drafts[k]) :
            LET one == Child(groups[k].key, j, drafts[k][j])
            IN  /\ c = [one EXCEPT !.context = Context(one, bs)]
                /\ drafts[k][j] \in Goods(groups[k].title)
<1> DEFINE B == Born(groups, drafts)
           F == FlattenSeq(Kin(groups, drafts))
<1>1. Kin(groups, drafts) \in Seq(Seq(B))
      /\ \A k \in 1..Len(groups) : drafts[k] \in Seq(Goods(groups[k].title))
  BY KinParts
<1> HIDE DEF B
<1>2. F \in Seq(B)
  BY <1>1, FlattenType
<1> HIDE DEF F
<1>3. InContext(F, bs) = [n \in 1..Len(F) |-> [F[n] EXCEPT !.context = Context(F[n], bs)]]
  BY <1>2 DEF InContext
<1>4. PICK n \in 1..Len(F) : c = [F[n] EXCEPT !.context = Context(F[n], bs)]
  <2>1. c \in ToSet(InContext(F, bs))
    BY DEF F
  <2> HIDE DEF Context
  <2> QED BY <1>3, <2>1 DEF ToSet
<1>5. F[n] \in B
  BY <1>2
<1>6. PICK k \in 1..Len(groups) : \E j \in 1..Len(drafts[k]) : F[n] = Child(groups[k].key, j, drafts[k][j])
  BY <1>5, BornOf DEF B
<1>7. PICK j \in 1..Len(drafts[k]) : F[n] = Child(groups[k].key, j, drafts[k][j])
  BY <1>6
<1>8. drafts[k][j] \in Goods(groups[k].title)
  <2> DEFINE T == Goods(groups[k].title)
             d == drafts[k]
  <2>1. d \in Seq(T) /\ j \in 1..Len(d)
    BY <1>1
  <2> HIDE DEF T, d
  <2>2. d[j] \in T
    BY <2>1
  <2> QED BY <2>2 DEF T, d
<1>9. c = [Child(groups[k].key, j, drafts[k][j])
              EXCEPT !.context = Context(Child(groups[k].key, j, drafts[k][j]), bs)]
  BY <1>4, <1>7, Zenon
<1> QED BY <1>8, <1>9

-----------------------------------------------------------------------------
(* A child is above child_max_tokens only where its template says so. *)

\* The reason of a draft is that of its chunk.
LEMMA ReasonFound ==
  ASSUME NEW d, NEW title, Reasoned(d, title), NEW c, c.blocks = d.blocks, c.type = d.type,
         NEW ps, \E p \in ps : p.id = c.parent /\ p.title = title
  PROVE  \/ Len(c.blocks) = 1 \/ Tokens(c.blocks) <= MaxTokens
         \/ c.type \in {"qa_pair", "manual_procedure", "paper_abstract", "paper_references"}
         \/ c.type = "paper_text" /\ \E p \in ps : p.id = c.parent /\ Collected(p.title)
         \/ /\ c.type \in {"legal_article", "contract_clause"}
            /\ TooLongAt(c.blocks) > 1
                 => \A k \in TooLongAt(c.blocks)..Len(c.blocks) : Clause(c.blocks[k])
<1> DEFINE s == c.blocks
           t == c.type
<1>1. d.blocks = s /\ d.type = t
  OBVIOUS
<1>2. \/ Len(s) = 1 \/ Tokens(s) <= MaxTokens
      \/ t \in {"qa_pair", "manual_procedure", "paper_abstract", "paper_references"}
      \/ t = "paper_text" /\ Collected(title)
      \/ /\ t \in {"legal_article", "contract_clause"}
         /\ TooLongAt(s) > 1 => \A k \in TooLongAt(s)..Len(s) : Clause(s[k])
  BY <1>1, Zenon DEF Reasoned
<1>3. Collected(title) => \E p \in ps : p.id = c.parent /\ Collected(p.title)
  <2>1. PICK p \in ps : p.id = c.parent /\ p.title = title
    OBVIOUS
  <2> QED BY <2>1, Zenon
<1> QED BY <1>2, <1>3, Zenon

\* OverlongForAReason (the template chunkers): a child above child_max_tokens is one block, or of a
\* type that its template never splits, or an article whose rest is clauses.
THEOREM OverlongAlwaysForAReason == Spec => []OverlongForAReason
<1>1. ASSUME ChunkingInv PROVE OverlongForAReason
  <2>1. SUFFICES ASSUME stage = "done", NEW c \in ToSet(children)
                 PROVE  \/ Len(c.blocks) = 1 \/ Tokens(c.blocks) <= MaxTokens
                        \/ c.type \in {"qa_pair", "manual_procedure", "paper_abstract", "paper_references"}
                        \/ c.type = "paper_text" /\ \E p \in ToSet(parents) : p.id = c.parent /\ Collected(p.title)
                        \/ /\ c.type \in {"legal_article", "contract_clause"}
                           /\ TooLongAt(c.blocks) > 1
                                => \A k \in TooLongAt(c.blocks)..Len(c.blocks) : Clause(c.blocks[k])
    BY DEF OverlongForAReason
  <2>2. PICK groups, drafts :
            /\ PackageOf(Chosen(kind, blocks), groups, drafts, ~Clash)
            /\ parents = Packed(FamiliesOf(groups, drafts), blocks).parents
            /\ children = Packed(FamiliesOf(groups, drafts), blocks).children
    BY <1>1, <2>1, PackageDone
  <2>3. groups \in Seq(Obj)
    BY <2>2 DEF PackageOf, Filed
  <2>4. /\ children = InContext(FlattenSeq(Kin(groups, drafts)), blocks)
        /\ parents = [k \in 1..Len(groups) |-> parents[k]] /\ Len(parents) = Len(groups)
        /\ \A k \in 1..Len(groups) : parents[k].id = groups[k].key /\ parents[k].title = groups[k].title
    BY <2>2, <2>3, PackedParts
  <2>5. PICK k \in 1..Len(groups) : \E j \in 1..Len(drafts[k]) :
            LET one == Child(groups[k].key, j, drafts[k][j])
            IN  /\ c = [one EXCEPT !.context = Context(one, blocks)]
                /\ drafts[k][j] \in Goods(groups[k].title)
    BY <2>1, <2>2, <2>4, ChildMade
  <2>6. PICK j \in 1..Len(drafts[k]) :
            LET one == Child(groups[k].key, j, drafts[k][j])
            IN  /\ c = [one EXCEPT !.context = Context(one, blocks)]
                /\ drafts[k][j] \in Goods(groups[k].title)
    BY <2>5
  <2> DEFINE d == drafts[k][j]
             key == groups[k].key
             title == groups[k].title
             x == Context(Child(key, j, d), blocks)
  <2>7. c = [Child(key, j, d) EXCEPT !.context = x] /\ d \in Goods(title)
    BY <2>6
  <2>8. parents[k].id = key /\ parents[k].title = title /\ parents[k] \in ToSet(parents)
    BY <2>4 DEF ToSet
  <2> HIDE DEF d, key, title, x
  <2>9. c.parent = key /\ c.type = d.type /\ c.blocks = d.blocks
    BY <2>7, ChildParts
  <2>10. Reasoned(d, title)
    BY <2>7 DEF Goods
  <2>11. \E p \in ToSet(parents) : p.id = c.parent /\ p.title = title
    BY <2>8, <2>9
  <2> QED BY <2>9, <2>10, <2>11, ReasonFound
<1> QED
  BY <1>1, ChunkingInvAlways, PTL

\* Of lists one after the other, the one whose elements are selected
Owning(T, ss, k, S) ==
    /\ ss \in Seq(Seq(T)) /\ k \in 1..Len(ss) /\ ToSet(ss[k]) \subseteq S
    /\ \A j \in 1..Len(ss) : j # k => ToSet(ss[j]) \cap S = {}
\* What is selected from all is the one list.
LEMMA OnlyOwn ==
  ASSUME NEW T, NEW ss, NEW k, NEW S, Owning(T, ss, k, S)
  PROVE  Only(FlattenSeq(ss), S) = ss[k]
<1> DEFINE V == Seq(T)
           a == SubSeq(ss, 1, k - 1)
           b == SubSeq(ss, k + 1, Len(ss))
           x == ss[k]
           A == FlattenSeq(a)
           B == FlattenSeq(b)
           R == T \ S
<1>1. /\ a \in Seq(V) /\ b \in Seq(V) /\ x \in V
      /\ ss = (a \o <<x>>) \o b
  <2>1. ss \in Seq(V) /\ k \in 1..Len(ss)
    BY DEF Owning
  <2> HIDE DEF V
  <2>2. /\ SubSeq(ss, 1, k - 1) \in Seq(V) /\ SubSeq(ss, k + 1, Len(ss)) \in Seq(V)
        /\ ss = (SubSeq(ss, 1, k - 1) \o <<ss[k]>>) \o SubSeq(ss, k + 1, Len(ss))
    BY <2>1, AroundOne
  <2>3. ss[k] \in V
    BY <2>1
  <2> QED BY <2>2, <2>3
<1>2. ASSUME NEW j \in 1..Len(ss), j # k PROVE ss[j] \in Seq(R)
  <2> DEFINE s == ss[j]
  <2>1. s \in Seq(T) /\ ToSet(s) \cap S = {}
    <3>1. ss \in Seq(V) /\ ToSet(ss[j]) \cap S = {}
      BY <1>2 DEF Owning
    <3> HIDE DEF V
    <3>2. ss[j] \in V
      BY <1>2, <3>1
    <3> QED BY <3>1, <3>2 DEF V
  <2> HIDE DEF s
  <2>2. \A n \in 1..Len(s) : s[n] \in T /\ s[n] \in ToSet(s)
    BY <2>1 DEF ToSet
  <2>3. \A n \in 1..Len(s) : s[n] \in R
    BY <2>1, <2>2
  <2> HIDE DEF R
  <2>4. s \in Seq(R)
    <3>1. s = [n \in 1..Len(s) |-> s[n]] /\ Len(s) \in Nat
      BY <2>1
    <3> QED BY <2>3, <3>1, ListType
  <2> QED BY <2>4 DEF s
<1>3. a \in Seq(Seq(R)) /\ b \in Seq(Seq(R))
  <2> DEFINE N == Len(ss)
             Q == Seq(R)
             m == k - 1
  <2>1. /\ N \in Nat /\ k \in 1..N /\ m \in 0..N
    <3>1. ss \in Seq(V) /\ k \in 1..Len(ss)
      BY DEF Owning
    <3> HIDE DEF V
    <3> QED BY <3>1
  <2>2. /\ Len(a) = m /\ \A j \in 1..m : a[j] = ss[j]
        /\ Len(b) = N - k /\ \A j \in 1..(N - k) : b[j] = ss[k + j]
    <3>1. ss \in Seq(V) /\ k \in 1..Len(ss)
      BY DEF Owning
    <3> HIDE DEF V
    <3> QED BY <2>1, <3>1
  <2>3. \A j \in 1..m : a[j] \in Q
    <3>1. \A j \in 1..m : j \in 1..N /\ j # k
      BY <2>1
    <3> QED BY <1>2, <2>2, <3>1
  <2>4. \A j \in 1..(N - k) : b[j] \in Q
    <3>1. \A j \in 1..(N - k) : k + j \in 1..N /\ k + j # k
      BY <2>1
    <3> QED BY <1>2, <2>2, <3>1
  <2>5. a = [j \in 1..Len(a) |-> a[j]] /\ b = [j \in 1..Len(b) |-> b[j]] /\ Len(a) \in Nat /\ Len(b) \in Nat
    <3> HIDE DEF a, b, V
    <3> QED BY <1>1
  <2> HIDE DEF a, b, m, Q, N
  <2>6. a \in Seq(Q) /\ b \in Seq(Q)
    BY <2>2, <2>3, <2>4, <2>5, ListType
  <2> QED BY <2>6 DEF Q
<1>4. A \in Seq(R) /\ B \in Seq(R)
  <2> HIDE DEF a, b, R
  <2> QED BY <1>3, FlattenType
<1>5. A \in Seq(T) /\ B \in Seq(T) /\ x \in Seq(T)
  <2> HIDE DEF a, b, x
  <2> QED BY <1>1, FlattenType
<1>6. FlattenSeq(ss) = (A \o x) \o B
  <2> HIDE DEF a, b, x
  <2>1. <<x>> \in Seq(V) /\ a \o <<x>> \in Seq(V)
    <3> HIDE DEF V
    <3> QED BY <1>1
  <2>2. FlattenSeq(ss) = FlattenSeq(a \o <<x>>) \o B
    BY <1>1, <2>1, FlattenConcat
  <2>3. FlattenSeq(a \o <<x>>) = A \o FlattenSeq(<<x>>)
    BY <1>1, <2>1, FlattenConcat
  <2>4. FlattenSeq(<<x>>) = x
    BY <1>5, FlattenOne
  <2> QED BY <2>2, <2>3, <2>4
<1>7. Only(A, S) = <<>> /\ Only(B, S) = <<>> /\ Only(x, S) = x
  <2> HIDE DEF A, B
  <2>1. ToSet(A) \cap S = {} /\ ToSet(B) \cap S = {}
    <3> HIDE DEF R
    <3>1. ToSet(A) \subseteq R /\ ToSet(B) \subseteq R
      BY <1>4, ToSetType
    <3> QED BY <3>1 DEF R
  <2> HIDE DEF x
  <2>2. ToSet(x) \subseteq S
    BY DEF Owning, x
  <2> QED BY <1>5, <2>1, <2>2, OnlyNone, OnlyAll
<1> HIDE DEF A, B, x
<1>8. Only(FlattenSeq(ss), S) = (Only(A, S) \o Only(x, S)) \o Only(B, S)
  <2>1. Only((A \o x) \o B, S) = (Only(A, S) \o Only(x, S)) \o Only(B, S)
    BY <1>5, OnlyAround
  <2> QED BY <1>6, <2>1
<1>9. (<<>> \o x) \o <<>> = x
  BY <1>5
<1> QED BY <1>7, <1>8, <1>9 DEF x

\* The children of the package, those of each group for themselves
Rows(groups, drafts, U, rows) ==
    /\ rows \in Seq(Seq(U)) /\ Len(rows) = Len(groups) /\ Len(rows) \in Nat
    /\ \A k \in 1..Len(rows) :
          /\ rows[k] \in Seq(U) /\ Len(rows[k]) = Len(drafts[k])
          /\ \A j \in 1..Len(rows[k]) :
                /\ rows[k][j].id = ChildId(groups[k].key, j, drafts[k][j])
                /\ rows[k][j].parent = groups[k].key
                /\ rows[k][j].blocks = drafts[k][j].blocks

\* The context leaves the chunks of each group to themselves.
LEMMA RowsMade ==
  ASSUME NEW cs, NEW groups, NEW drafts, NEW strict, PackageOf(cs, groups, drafts, strict), NEW bs
  PROVE  \E U, rows : /\ Rows(groups, drafts, U, rows)
                      /\ InContext(FlattenSeq(Kin(groups, drafts)), bs) = FlattenSeq(rows)
<1> DEFINE B == Born(groups, drafts)
           K == Kin(groups, drafts)
           h == [c \in B |-> [c EXCEPT !.context = Context(c, bs)]]
           U == {h[c] : c \in B}
           H == [v \in Seq(B) |-> Mapped(h, v)]
           rows == Mapped(H, K)
           F == FlattenSeq(K)
           N == Len(groups)
<1>1. /\ K \in Seq(Seq(B)) /\ Len(K) = N /\ N \in Nat
      /\ \A k \in 1..N : /\ K[k] \in Seq(B) /\ Len(K[k]) = Len(drafts[k])
                         /\ \A j \in 1..Len(K[k]) : K[k][j] = Child(groups[k].key, j, drafts[k][j])
  BY KinParts
<1>2. \A c \in B : h[c] = [c EXCEPT !.context = Context(c, bs)]
  <2> HIDE DEF B, Context
  <2> QED OBVIOUS
<1>3. h \in [B -> U]
  <2>1. h = [c \in B |-> h[c]]
    <3> HIDE DEF B, Context
    <3> QED OBVIOUS
  <2> HIDE DEF h, B
  <2> QED BY <2>1
<1> HIDE DEF B, K, h, U
<1>4. rows \in Seq(Seq(U)) /\ Mapped(h, F) = FlattenSeq(rows)
  <2>1. K \in Seq(Seq(B))
    BY <1>1
  <2>2. /\ Mapped([v \in Seq(B) |-> Mapped(h, v)], K) \in Seq(Seq(U))
        /\ Mapped(h, FlattenSeq(K)) = FlattenSeq(Mapped([v \in Seq(B) |-> Mapped(h, v)], K))
    BY <1>3, <2>1, MapFlatten
  <2> QED BY <2>2
<1>5. F \in Seq(B)
  BY <1>1, FlattenType
<1>6. InContext(F, bs) = Mapped(h, F)
  <2> DEFINE f == [n \in DOMAIN F |-> h[F[n]]]
             g == [n \in DOMAIN F |-> [F[n] EXCEPT !.context = Context(F[n], bs)]]
  <2>1. \A n \in DOMAIN F : F[n] \in B
    <3> HIDE DEF F
    <3> QED BY <1>5
  <2>2. \A n \in DOMAIN F : h[F[n]] = [F[n] EXCEPT !.context = Context(F[n], bs)]
    <3> HIDE DEF F
    <3> QED BY <1>2, <2>1
  <2>3. f = g
    <3> HIDE DEF F, Context
    <3> QED BY <2>2
  <2>4. InContext(F, bs) = g /\ Mapped(h, F) = f
    BY DEF InContext, Mapped
  <2> HIDE DEF f, g, F
  <2> QED BY <2>3, <2>4
<1>7. /\ Len(rows) = N
      /\ \A k \in 1..N : rows[k] = Mapped(h, K[k])
  <2>1. Len(rows) = Len(K) /\ DOMAIN K = 1..N
    <3> DEFINE V == Seq(B)
    <3>1. K \in Seq(V)
      BY <1>1
    <3> HIDE DEF V, H
    <3> QED BY <1>1, <3>1, MapLen
  <2>2. \A k \in 1..N : rows[k] = H[K[k]]
    <3> HIDE DEF H
    <3> QED BY <2>1 DEF Mapped
  <2>3. \A v \in Seq(B) : H[v] = Mapped(h, v)
    OBVIOUS
  <2> HIDE DEF H, rows
  <2> QED BY <1>1, <2>1, <2>2, <2>3
<1> HIDE DEF H, rows, F
<1>8. ASSUME NEW k \in 1..N
      PROVE  /\ rows[k] \in Seq(U) /\ Len(rows[k]) = Len(drafts[k])
             /\ \A j \in 1..Len(rows[k]) :
                /\ rows[k][j].id = ChildId(groups[k].key, j, drafts[k][j])
                /\ rows[k][j].parent = groups[k].key
                /\ rows[k][j].blocks = drafts[k][j].blocks
  <2> DEFINE s == K[k]
             r == rows[k]
             d == drafts[k]
             key == groups[k].key
  <2>1. s \in Seq(B) /\ Len(s) = Len(d) /\ r = Mapped(h, s)
        /\ \A j \in 1..Len(s) : s[j] = Child(key, j, d[j])
    BY <1>1, <1>7
  <2> HIDE DEF s, r, d, key
  <2>2. r \in Seq(U) /\ Len(r) = Len(s)
    BY <1>3, <2>1, MapType, MapLen
  <2>3. \A j \in 1..Len(s) : r[j] = h[s[j]] /\ s[j] \in B
    <3>1. DOMAIN s = 1..Len(s)
      BY <2>1
    <3>2. \A j \in 1..Len(s) : r[j] = h[s[j]]
      BY <2>1, <3>1 DEF Mapped
    <3> QED BY <2>1, <3>2
  <2>4. ASSUME NEW j \in 1..Len(r)
        PROVE  r[j].id = ChildId(key, j, d[j]) /\ r[j].parent = key /\ r[j].blocks = d[j].blocks
    <3> DEFINE one == s[j]
               x == Context(one, bs)
    <3>1. r[j] = [one EXCEPT !.context = x] /\ one = Child(key, j, d[j])
      BY <1>2, <2>1, <2>2, <2>3
    <3> HIDE DEF one, x
    <3>2. r[j] = [Child(key, j, d[j]) EXCEPT !.context = x]
      BY <3>1
    <3> QED BY <3>2, ChildParts
  <2>5. r \in Seq(U) /\ Len(r) = Len(d)
    BY <2>1, <2>2
  <2> QED BY <2>4, <2>5 DEF r, d, key
<1>9. Rows(groups, drafts, U, rows)
  BY <1>1, <1>4, <1>7, <1>8 DEF Rows
<1>10. InContext(F, bs) = FlattenSeq(rows)
  BY <1>4, <1>6
<1> QED BY <1>9, <1>10 DEF F, K

\* The children of one parent
LEMMA OwnRow ==
  ASSUME NEW groups, NEW drafts, NEW U, NEW rows, Rows(groups, drafts, U, rows),
         NEW cs, cs = FlattenSeq(rows), NEW k \in 1..Len(rows),
         \A j \in 1..Len(rows) : groups[j].key = groups[k].key => j = k
  PROVE  At(cs, {n \in DOMAIN cs : cs[n].parent = groups[k].key}) = rows[k]
<1> DEFINE key == groups[k].key
           P == {n \in DOMAIN cs : cs[n].parent = key}
           S == {c \in U : c.parent = key}
<1>1. rows \in Seq(Seq(U)) /\ k \in 1..Len(rows)
  BY DEF Rows
<1>2. cs \in Seq(U)
  BY <1>1, FlattenType
<1>3. \A n \in DOMAIN cs : n \in P <=> cs[n] \in S
  BY <1>2
<1>4. \A j \in 1..Len(rows) : \A x \in ToSet(rows[j]) : x \in U /\ x.parent = groups[j].key
  <2> TAKE j \in 1..Len(rows)
  <2> DEFINE r == rows[j]
  <2>1. r \in Seq(U) /\ \A i \in 1..Len(r) : r[i].parent = groups[j].key
    BY DEF Rows
  <2> HIDE DEF r
  <2>2. \A x \in ToSet(r) : \E i \in 1..Len(r) : x = r[i]
    BY <2>1 DEF ToSet
  <2>3. \A x \in ToSet(r) : x \in U /\ x.parent = groups[j].key
    BY <2>1, <2>2
  <2> QED BY <2>3 DEF r
<1>5. ToSet(rows[k]) \subseteq S
  BY <1>4
<1>6. \A j \in 1..Len(rows) : j # k => ToSet(rows[j]) \cap S = {}
  BY <1>4
<1> HIDE DEF P, S
<1>7. Owning(U, rows, k, S)
  BY <1>1, <1>5, <1>6 DEF Owning
<1>8. Only(cs, S) = rows[k]
  BY <1>7, OnlyOwn
<1>9. At(cs, P) = Only(cs, S)
  BY <1>3, AtIsOnly
<1> QED BY <1>8, <1>9 DEF P

-----------------------------------------------------------------------------
(* The package is what boundary repair, merging and splitting take for granted. *)

\* The blocks of a row are those of the group, in reading order.
LEMMA SameBlocks ==
  ASSUME NEW U, NEW r \in Seq(U), NEW d \in Seq(Draft), Len(r) = Len(d),
         \A j \in 1..Len(r) : r[j].blocks = d[j].blocks
  PROVE  BlocksOf(r) = BlocksOf(d)
<1>1. DOMAIN r = 1..Len(r) /\ DOMAIN d = 1..Len(r)
  OBVIOUS
<1>2. [j \in DOMAIN r |-> r[j].blocks] = [j \in DOMAIN d |-> d[j].blocks]
  BY <1>1
<1> QED BY <1>2 DEF BlocksOf

\* The ids of the chunks of a group, with and without context, and each is there once.
LEMMA RowIds ==
  ASSUME NEW groups, NEW drafts, NEW U, NEW rows, Rows(groups, drafts, U, rows),
         NEW cs, NEW strict, PackageOf(cs, groups, drafts, strict), NEW k \in 1..Len(rows)
  PROVE  IdsOf(Kin(groups, drafts)[k]) = IdsOf(rows[k]) /\ IsInjective(IdsOf(rows[k]))
<1> DEFINE r == rows[k]
           d == drafts[k]
           s == Kin(groups, drafts)[k]
           key == groups[k].key
           B == Born(groups, drafts)
<1>1. /\ r \in Seq(U) /\ Len(r) = Len(d)
      /\ \A j \in 1..Len(r) : r[j].id = ChildId(key, j, d[j])
  BY DEF Rows
<1>2. /\ s \in Seq(B) /\ Len(s) = Len(d)
      /\ \A j \in 1..Len(s) : s[j] = Child(key, j, d[j])
  <2>1. k \in 1..Len(groups)
    BY DEF Rows
  <2> HIDE DEF B
  <2> QED BY <2>1, KinParts DEF B
<1> HIDE DEF r, d, s, key, B
<1>3. DOMAIN r = 1..Len(r) /\ DOMAIN s = 1..Len(r)
  BY <1>1, <1>2
<1>4. \A j \in 1..Len(r) : s[j].id = ChildId(key, j, d[j])
  <2> TAKE j \in 1..Len(r)
  <2>1. s[j] = Child(key, j, d[j])
    BY <1>1, <1>2
  <2> DEFINE c == Child(key, j, d[j])
  <2>2. c.id = ChildId(key, j, d[j])
    BY ChildParts
  <2> QED BY <2>1, <2>2
<1>5. [j \in DOMAIN s |-> s[j].id] = [j \in DOMAIN r |-> r[j].id]
  BY <1>1, <1>3, <1>4
<1>6. IdsOf(s) = IdsOf(r)
  BY <1>5 DEF IdsOf
<1>7. IsInjective(IdsOf(r))
  <2>1. ASSUME NEW i \in 1..Len(r), NEW j \in 1..Len(r), r[i].id = r[j].id PROVE i = j
    <3>1. ChildId(key, i, d[i]) = ChildId(key, j, d[j])
      BY <1>1, <2>1
    <3>2. ChildId(key, i, d[i]).at = i /\ ChildId(key, j, d[j]).at = j
      BY DEF ChildId
    <3> QED BY <3>1, <3>2
  <2>2. DOMAIN IdsOf(r) = 1..Len(r) /\ \A j \in 1..Len(r) : IdsOf(r)[j] = r[j].id
    BY <1>3 DEF IdsOf
  <2> QED BY <2>1, <2>2 DEF IsInjective
<1> QED BY <1>6, <1>7 DEF r, s

\* PackageReadable (template_chunkers.py): the children of a parent are together and in order, the parent
\* lists them and has their blocks, and no key is there twice.
THEOREM PackageAlwaysReadable == Spec => []PackageReadable
<1>1. ASSUME ChunkingInv PROVE PackageReadable
  <2>1. SUFFICES ASSUME stage = "done", ~Clash
                 PROVE  /\ children = FlattenSeq([k \in DOMAIN parents |-> Kids(parents[k])])
                        /\ \A p \in ToSet(parents) :
                               LET placed == BlocksOf(Kids(p))
                               IN  /\ p.kids = IdsOf(Kids(p)) /\ IsInjective(p.kids)
                                   /\ IdSet(placed) \subseteq p.blocks
                                   /\ \A j, k \in DOMAIN placed : j < k => Precedes(placed[j], placed[k])
                        /\ IsInjective(IdsOf(parents))
    BY DEF PackageReadable
  <2>2. PICK groups, drafts :
            /\ PackageOf(Chosen(kind, blocks), groups, drafts, ~Clash)
            /\ parents = Packed(FamiliesOf(groups, drafts), blocks).parents
            /\ children = Packed(FamiliesOf(groups, drafts), blocks).children
    BY <1>1, <2>1, PackageDone
  <2> DEFINE N == Len(groups)
             cs == Chosen(kind, blocks)
  <2>3. /\ groups \in Seq(Obj) /\ N \in Nat
        /\ \A k \in 1..N : groups[k].blocks \in Upto(cs, Len(cs))
        /\ \A j, k \in 1..N : groups[j].key = groups[k].key => j = k
        /\ \A k \in 1..N : Whole(groups[k], drafts[k])
    <3>1. /\ groups \in Seq(Obj)
          /\ \A k \in 1..N : groups[k].blocks \in Upto(cs, Len(cs))
          /\ \A j, k \in 1..N : groups[j].key = groups[k].key => j = k
      BY <2>1, <2>2 DEF PackageOf, Filed
    <3>2. \A k \in 1..N : Whole(groups[k], drafts[k])
      BY <2>2 DEF PackageOf
    <3> QED BY <3>1, <3>2
  <2> HIDE DEF cs
  <2>4. /\ children = InContext(FlattenSeq(Kin(groups, drafts)), blocks)
        /\ parents = [k \in 1..N |-> parents[k]] /\ Len(parents) = N
        /\ \A k \in 1..N : /\ parents[k].id = groups[k].key
                           /\ parents[k].blocks = IdSet(groups[k].blocks)
                           /\ parents[k].kids = IdsOf(Kin(groups, drafts)[k])
    BY <2>2, <2>3, PackedParts
  <2>5. PICK U, rows : Rows(groups, drafts, U, rows) /\ children = FlattenSeq(rows)
    BY <2>2, <2>4, RowsMade
  <2>6. rows \in Seq(Seq(U)) /\ Len(rows) = N
    BY <2>5 DEF Rows
  <2>7. ASSUME NEW k \in 1..N PROVE Kids(parents[k]) = rows[k]
    <3>1. k \in 1..Len(rows) /\ \A j \in 1..Len(rows) : groups[j].key = groups[k].key => j = k
      BY <2>3, <2>6
    <3>2. At(children, {n \in DOMAIN children : children[n].parent = groups[k].key}) = rows[k]
      BY <2>5, <3>1, OwnRow
    <3> QED BY <2>4, <3>2 DEF Kids
  <2>8. children = FlattenSeq([k \in DOMAIN parents |-> Kids(parents[k])])
    <3>1. DOMAIN parents = 1..N
      BY <2>4
    <3>2. rows = [k \in 1..N |-> rows[k]]
      <4> DEFINE V == Seq(U)
      <4>1. rows \in Seq(V) /\ Len(rows) = N
        BY <2>6
      <4> HIDE DEF V
      <4> QED BY <4>1
    <3>3. [k \in DOMAIN parents |-> Kids(parents[k])] = rows
      BY <2>7, <3>1, <3>2
    <3> QED BY <2>5, <3>3
  <2>9. ASSUME NEW p \in ToSet(parents)
        PROVE  /\ p.kids = IdsOf(Kids(p)) /\ IsInjective(p.kids)
               /\ IdSet(BlocksOf(Kids(p))) \subseteq p.blocks
               /\ \A j, k \in DOMAIN BlocksOf(Kids(p)) :
                      j < k => Precedes(BlocksOf(Kids(p))[j], BlocksOf(Kids(p))[k])
    <3>1. PICK k \in 1..N : p = parents[k]
      BY <2>4, <2>9 DEF ToSet
    <3> DEFINE g == groups[k].blocks
               d == drafts[k]
               placed == BlocksOf(d)
    <3>2. Kids(p) = rows[k] /\ p.kids = IdsOf(Kin(groups, drafts)[k]) /\ p.blocks = IdSet(g)
      BY <2>4, <2>7, <3>1
    <3>3. IdsOf(Kin(groups, drafts)[k]) = IdsOf(rows[k]) /\ IsInjective(IdsOf(rows[k]))
      <4>1. k \in 1..Len(rows)
        BY <2>6
      <4> QED BY <2>2, <2>5, <4>1, RowIds
    <3>4. d \in Seq(Goods(groups[k].title)) /\ placed \in Upto(g, Len(g))
      BY <2>3 DEF Whole
    <3>5. d \in Seq(Draft)
      <4> DEFINE T == Goods(groups[k].title)
                 W == Draft
      <4>1. d \in Seq(T) /\ T \subseteq W
        BY <3>4 DEF Goods
      <4> HIDE DEF T, W, d
      <4>2. d \in Seq(W)
        BY <4>1
      <4> QED BY <4>2 DEF W
    <3>6. BlocksOf(Kids(p)) = placed
      <4> DEFINE r == rows[k]
      <4>1. /\ r \in Seq(U) /\ Len(r) = Len(d)
            /\ \A i \in 1..Len(r) : r[i].blocks = d[i].blocks
        BY <2>5, <2>6 DEF Rows
      <4> HIDE DEF r, d
      <4>2. BlocksOf(r) = BlocksOf(d)
        BY <3>5, <4>1, SameBlocks
      <4>3. Kids(p) = r
        BY <3>2 DEF r
      <4> QED BY <4>2, <4>3, Zenon
    <3>7. g \in Seq(Block)
      BY <2>3 DEF Upto
    <3> HIDE DEF g, placed, d
    <3>8. /\ placed \in Seq(Block) /\ Rising(placed)
          /\ \A i \in 1..Len(placed) : \E j \in 1..Len(g) : placed[i] = g[j]
      BY <3>4 DEF Upto
    <3>9. DOMAIN placed = 1..Len(placed) /\ DOMAIN g = 1..Len(g)
      BY <3>7, <3>8
    <3>10. IdSet(placed) \subseteq IdSet(g)
      BY <3>8, <3>9 DEF IdSet
    <3>11. \A i, j \in DOMAIN placed : i < j => Precedes(placed[i], placed[j])
      BY <3>8, <3>9 DEF Rising
    <3> QED BY <3>2, <3>3, <3>6, <3>10, <3>11
  <2>10. IsInjective(IdsOf(parents))
    <3>1. DOMAIN IdsOf(parents) = 1..N /\ \A k \in 1..N : IdsOf(parents)[k] = groups[k].key
      BY <2>4 DEF IdsOf
    <3> QED BY <2>3, <3>1 DEF IsInjective
  <2> QED BY <2>8, <2>9, <2>10
<1> QED
  BY <1>1, ChunkingInvAlways, PTL

-----------------------------------------------------------------------------
(* Media *)

\* The section goes on as long as the path is the same.
LEMMA SectionBlocks ==
  ASSUME NEW t \in Seq(Block), NEW b
  PROVE  /\ InSection(t, b) \in Seq(Block)
         /\ \A n \in 1..Len(InSection(t, b)) :
               /\ n \in 1..Len(t) /\ InSection(t, b)[n] = t[n] /\ t[n].path = b.path
<1> DEFINE I == {i \in 1..Len(t) : t[i].path # b.path}
           out == SelectInSeq(t, LAMBDA c : c.path # b.path)
           m == out - 1
           front == SubSeq(t, 1, m)
<1>1. InSection(t, b) = IF out = 0 THEN t ELSE front
  BY DEF InSection
<1>2. out = IF I # {} THEN Min(I) ELSE 0
  BY DEF SelectInSeq
<1> HIDE DEF out
<1>3. \/ out = 0 /\ I = {}
      \/ out \in I /\ out \in 1..Len(t) /\ \A j \in I : out <= j
  <2>1. Len(t) \in Nat /\ I \subseteq 1..Len(t)
    OBVIOUS
  <2> HIDE DEF I
  <2> QED BY <1>2, <2>1, FirstOf
<1>4. CASE out = 0 /\ I = {}
  <2>1. InSection(t, b) = t
    BY <1>1, <1>4
  <2>2. \A n \in 1..Len(t) : t[n].path = b.path
    BY <1>4
  <2> QED BY <2>1, <2>2
<1>5. CASE out \in 1..Len(t) /\ \A j \in I : out <= j
  <2>0. out # 0 /\ out \in Nat /\ Len(t) \in Nat
    BY <1>5
  <2>1. InSection(t, b) = front
    BY <1>1, <2>0
  <2>2. m \in Int /\ m >= 0 /\ m <= Len(t)
    BY <1>5
  <2>3. \A n \in 1..m : n \in 1..Len(t) /\ t[n].path = b.path
    <3> TAKE n \in 1..m
    <3>1. n \in 1..Len(t) /\ ~(out <= n)
      BY <1>5, <2>0
    <3>2. n \notin I
      BY <1>5, <3>1
    <3> QED BY <3>1, <3>2
  <2> HIDE DEF m
  <2>4. front \in Seq(Block) /\ Len(front) = m /\ \A n \in 1..m : front[n] = t[n]
    BY <2>2, FrontPart
  <2> HIDE DEF front
  <2> QED BY <2>1, <2>3, <2>4
<1> QED BY <1>3, <1>4, <1>5

\* A neighbour is from the section.
LEMMA NeighboursIn ==
  ASSUME NEW t \in Seq(Block), NEW b
  PROVE  /\ Neighbours(t, b) \in Seq(Nat)
         /\ \A i \in ToSet(Neighbours(t, b)) : \E n \in 1..Len(t) : t[n].id = i /\ t[n].path = b.path
<1> DEFINE u == InSection(t, b)
           P == {n \in DOMAIN u : Neighbour(u[n])}
           S == {c \in Block : Neighbour(c)}
           kept == At(u, P)
           w == Len(kept)
           m == Min({Window, w})
           near == SubSeq(kept, 1, m)
           ids == IdsOf(near)
<1>1. Neighbours(t, b) = ids
  BY DEF Neighbours, Nearest
<1>2. /\ u \in Seq(Block)
      /\ \A n \in 1..Len(u) : n \in 1..Len(t) /\ u[n] = t[n] /\ t[n].path = b.path
  BY SectionBlocks
<1> HIDE DEF u
<1>3. \A n \in DOMAIN u : n \in P <=> u[n] \in S
  BY <1>2
<1> HIDE DEF P, S
<1>4. kept = Only(u, S)
  BY <1>3, AtIsOnly
<1> HIDE DEF kept
<1>5. kept \in Seq(Block) /\ \A n \in 1..w : \E j \in 1..Len(u) : u[j] = kept[n]
  BY <1>2, <1>4, OnlyType, OnlyElements
<1>6. m \in Nat /\ m <= w
  <2> DEFINE v == Window
  <2>1. v \in Nat /\ w \in Nat
    BY <1>5, WindowIsNumber
  <2> HIDE DEF v, w
  <2>2. v \in Int /\ w \in Int
    BY <2>1
  <2>3. Min({v, w}) \in {v, w} /\ Min({v, w}) <= v /\ Min({v, w}) <= w
    BY <2>2, MinOfTwo
  <2>4. Min({v, w}) \in Nat /\ Min({v, w}) <= w
    BY <2>1, <2>3
  <2> QED BY <2>4 DEF v
<1> HIDE DEF m
<1>7. near \in Seq(Block) /\ Len(near) = m /\ \A n \in 1..m : near[n] = kept[n]
  <2>1. m \in Int /\ m <= Len(kept)
    BY <1>6
  <2> QED BY <1>5, <1>6, <2>1, FrontPart
<1> HIDE DEF near, w
<1>8. DOMAIN near = 1..m /\ \A n \in 1..m : near[n] \in Block /\ near[n].id \in Nat
  <2>1. DOMAIN near = 1..m /\ \A n \in 1..m : near[n] \in Block
    BY <1>6, <1>7
  <2>2. \A x \in Block : x.id \in Nat
    BY DEF Block
  <2> QED BY <2>1, <2>2
<1>9. /\ ids = [n \in 1..m |-> near[n].id]
      /\ \A n \in 1..m : ids[n] \in Nat
  BY <1>8 DEF IdsOf
<1>10. ids \in Seq(Nat) /\ DOMAIN ids = 1..m
  BY <1>6, <1>9
<1>11. ASSUME NEW i \in ToSet(ids) PROVE \E n \in 1..Len(t) : t[n].id = i /\ t[n].path = b.path
  <2>1. PICK n \in 1..m : i = near[n].id
    BY <1>9, <1>10, <1>11 DEF ToSet
  <2>2. n \in 1..w /\ near[n] = kept[n]
    BY <1>5, <1>6, <1>7 DEF w
  <2>3. PICK j \in 1..Len(u) : u[j] = kept[n]
    BY <1>5, <2>2
  <2> QED BY <1>2, <2>1, <2>2, <2>3
<1> QED BY <1>1, <1>10, <1>11

\* A caption is one beside the block.
LEMMA CaptionIn ==
  ASSUME NEW bs \in Seq(Block), NEW j \in Int, NEW k
  PROVE  /\ CaptionAt(bs, j, k) \in Seq(Nat)
         /\ \A i \in ToSet(CaptionAt(bs, j, k)) :
               \E n \in 1..Len(bs) : bs[n].id = i /\ bs[n].type = "caption"
<1> DEFINE c == CaptionAt(bs, j, k)
<1>1. CASE c = <<>>
  <2>1. ToSet(c) = {} /\ c \in Seq(Nat)
    BY <1>1, ToSetEmpty
  <2> QED BY <2>1
<1>2. CASE c # <<>>
  <2>1. j \in 1..Len(bs) /\ bs[j].type = "caption" /\ c = <<bs[j].id>>
    <3>1. DOMAIN bs = 1..Len(bs)
      OBVIOUS
    <3> QED BY <1>2, <3>1 DEF CaptionAt
  <2>2. bs[j].id \in Nat
    <3>1. bs[j] \in Block
      BY <2>1
    <3> QED BY <3>1 DEF Block
  <2> DEFINE x == bs[j].id
  <2> HIDE DEF c
  <2>3. c = <<x>> /\ x \in Nat
    BY <2>1, <2>2
  <2>4. c \in Seq(Nat) /\ ToSet(c) = {x}
    <3> HIDE DEF x
    <3>1. c \in Seq(Nat) /\ DOMAIN c = 1..1 /\ c[1] = x
      BY <2>3
    <3> QED BY <3>1 DEF ToSet
  <2> QED BY <2>1, <2>4 DEF c
<1> QED BY <1>1, <1>2

\* Both captions are beside the block.
LEMMA CaptionsIn ==
  ASSUME NEW bs \in Seq(Block), NEW k \in 1..Len(bs)
  PROVE  /\ Captions(bs, k) \in Seq(Nat)
         /\ \A i \in ToSet(Captions(bs, k)) :
               \E n \in 1..Len(bs) : bs[n].id = i /\ bs[n].type = "caption"
<1> DEFINE a == CaptionAt(bs, k - 1, k)
           b == CaptionAt(bs, k + 1, k)
<1>1. k - 1 \in Int /\ k + 1 \in Int
  OBVIOUS
<1>2. /\ a \in Seq(Nat)
      /\ \A i \in ToSet(a) : \E n \in 1..Len(bs) : bs[n].id = i /\ bs[n].type = "caption"
  BY <1>1, CaptionIn
<1>3. /\ b \in Seq(Nat)
      /\ \A i \in ToSet(b) : \E n \in 1..Len(bs) : bs[n].id = i /\ bs[n].type = "caption"
  BY <1>1, CaptionIn
<1>4. Captions(bs, k) = a \o b
  BY DEF Captions
<1> HIDE DEF a, b
<1>5. a \o b \in Seq(Nat) /\ ToSet(a \o b) = ToSet(a) \cup ToSet(b)
  BY <1>2, <1>3, ToSetConcat
<1> QED BY <1>2, <1>3, <1>4, <1>5

\* What stands above a block in its context is before it in its section, or a caption.
LEMMA AboveIn ==
  ASSUME NEW bs \in Seq(Block), NEW k \in 1..Len(bs),
         NEW i \in ToSet(Captions(bs, k) \o Reverse(Neighbours(Reverse(SubSeq(bs, 1, k - 1)), bs[k])))
  PROVE  \E n \in 1..Len(bs) :
            /\ bs[n].id = i
            /\ bs[n].type = "caption" \/ (n < k /\ bs[n].path = bs[k].path)
<1> DEFINE m == k - 1
           s == SubSeq(bs, 1, m)
           t == Reverse(s)
           b == bs[k]
           u == Neighbours(t, b)
           v == Reverse(u)
           c == Captions(bs, k)
<1>1. m \in Int /\ m >= 0 /\ m <= Len(bs)
  OBVIOUS
<1>2. s \in Seq(Block) /\ Len(s) = m /\ \A n \in 1..m : s[n] = bs[n]
  <2> HIDE DEF m
  <2> QED BY <1>1, FrontPart
<1> HIDE DEF s
<1>3. t \in Seq(Block) /\ ToSet(t) = ToSet(s)
  BY <1>2, ReverseElements
<1> HIDE DEF t
<1>4. u \in Seq(Nat) /\ \A x \in ToSet(u) : \E n \in 1..Len(t) : t[n].id = x /\ t[n].path = b.path
  BY <1>3, NeighboursIn
<1> HIDE DEF u
<1>5. v \in Seq(Nat) /\ ToSet(v) = ToSet(u)
  BY <1>4, ReverseElements
<1> HIDE DEF v
<1>6. c \in Seq(Nat) /\ \A x \in ToSet(c) : \E n \in 1..Len(bs) : bs[n].id = x /\ bs[n].type = "caption"
  BY CaptionsIn
<1> HIDE DEF c
<1>7. ToSet(c \o v) = ToSet(c) \cup ToSet(v)
  BY <1>5, <1>6, ToSetConcat
<1>8. i \in ToSet(c \o v)
  BY DEF c, v, u, t, s
<1>9. CASE i \in ToSet(c)
  BY <1>6, <1>9
<1>10. CASE i \in ToSet(u)
  <2>1. PICK n \in 1..Len(t) : t[n].id = i /\ t[n].path = b.path
    BY <1>4, <1>10
  <2>2. t[n] \in ToSet(s)
    <3>1. t[n] \in ToSet(t)
      <4>1. n \in DOMAIN t
        BY <1>3
      <4> QED BY <4>1 DEF ToSet
    <3> QED BY <1>3, <3>1
  <2>3. PICK j \in 1..m : t[n] = s[j]
    <3>1. DOMAIN s = 1..m
      BY <1>2
    <3> QED BY <2>2, <3>1 DEF ToSet
  <2>4. j \in 1..Len(bs) /\ j < k /\ t[n] = bs[j]
    <3>1. s[j] = bs[j]
      BY <1>2, <2>3
    <3>2. j \in 1..Len(bs) /\ j < k
      BY <2>3
    <3> QED BY <2>3, <3>1, <3>2
  <2> QED BY <2>1, <2>4
<1> QED BY <1>5, <1>7, <1>8, <1>9, <1>10

\* What stands below is behind it in its section.
LEMMA BelowIn ==
  ASSUME NEW bs \in Seq(Block), NEW k \in 1..Len(bs),
         NEW i \in ToSet(Neighbours(SubSeq(bs, k + 1, Len(bs)), bs[k]))
  PROVE  \E n \in 1..Len(bs) : bs[n].id = i /\ k < n /\ bs[n].path = bs[k].path
<1> DEFINE N == Len(bs)
           t == SubSeq(bs, k + 1, N)
           b == bs[k]
<1>1. N \in Nat /\ k \in 1..N
  OBVIOUS
<1>2. t \in Seq(Block) /\ Len(t) = N - k /\ \A n \in 1..(N - k) : t[n] = bs[k + n]
  BY <1>1
<1> HIDE DEF t
<1>3. \A x \in ToSet(Neighbours(t, b)) : \E n \in 1..Len(t) : t[n].id = x /\ t[n].path = b.path
  BY <1>2, NeighboursIn
<1>4. i \in ToSet(Neighbours(t, b))
  BY DEF t
<1>5. PICK n \in 1..(N - k) : t[n].id = i /\ t[n].path = b.path
  BY <1>2, <1>3, <1>4
<1>6. k + n \in 1..N /\ k < k + n /\ t[n] = bs[k + n]
  BY <1>1, <1>2, <1>5
<1> QED BY <1>5, <1>6

\* No two blocks of a document have the same id.
Numbered(bs) == \A b \in ToSet(bs), c \in ToSet(bs) : b.id = c.id => b = c

\* The context of a chunk is around its first block.
LEMMA ContextAround ==
  ASSUME NEW bs, InPlace(bs), Numbered(bs), NEW one, NEW m, m = one.blocks[1],
         NEW b0 \in ToSet(bs), Same(m, b0), NEW b \in ToSet(bs)
  PROVE  /\ b.id \in ToSet(Context(one, bs).before) =>
                b.type = "caption" \/ (b.path = m.path /\ Precedes(b, m))
         /\ b.id \in ToSet(Context(one, bs).after) => b.path = m.path /\ Precedes(m, b)
<1> DEFINE s == InReadingOrder(bs)
           N == Len(s)
           I == {n \in 1..N : s[n].id = m.id}
           k == SelectInSeq(s, LAMBDA c : c.id = m.id)
           above == Captions(s, k) \o Reverse(Neighbours(Reverse(SubSeq(s, 1, k - 1)), s[k]))
           below == Neighbours(SubSeq(s, k + 1, Len(s)), s[k])
           x == Context(one, bs)
<1>1. x = IF one.type \notin ContextTypes THEN [before |-> <<>>, after |-> <<>>]
          ELSE [before |-> above, after |-> below]
  BY DEF Context
<1> HIDE DEF x
<1>2. k = IF I # {} THEN Min(I) ELSE 0
  BY DEF SelectInSeq
<1> HIDE DEF s
<1>3. s \in Seq(Block) /\ Rising(s) /\ ToSet(s) = ToSet(bs)
  BY ReadingEntries DEF s, InPlace, Entries
<1>4. N \in Nat /\ \A y : y \in ToSet(bs) <=> \E n \in 1..N : y = s[n]
  <2>1. N \in Nat /\ DOMAIN s = 1..N
    BY <1>3
  <2> QED BY <1>3, <2>1 DEF ToSet
<1>5. k \in 1..N /\ s[k] = b0
  <2>1. PICK n \in 1..N : b0 = s[n]
    BY <1>4
  <2>2. n \in I
    BY <2>1 DEF Same
  <2> HIDE DEF k
  <2>3. k \in I /\ k \in 1..N
    <3> HIDE DEF I
    <3>1. I \subseteq 1..N
      BY DEF I
    <3> HIDE DEF N
    <3>2. \/ k = 0 /\ I = {}
          \/ k \in I /\ k \in 1..N /\ \A j \in I : k <= j
      BY <1>2, <1>4, <3>1, FirstOf
    <3> QED BY <2>2, <3>2
  <2>4. s[k] \in ToSet(bs)
    BY <1>4, <2>3
  <2>5. s[k].id = b0.id
    BY <2>3 DEF Same
  <2> QED BY <2>3, <2>4, <2>5 DEF Numbered
<1> HIDE DEF k, I
<1>6. ASSUME NEW n \in 1..N, s[n].id = b.id PROVE s[n] = b
  <2>1. s[n] \in ToSet(bs)
    BY <1>4
  <2> QED BY <1>6, <2>1 DEF Numbered
<1>7. \A n \in 1..N : /\ n < k => Precedes(s[n], m)
                      /\ k < n => Precedes(m, s[n])
  <2>1. \A n \in 1..N : /\ n < k => Precedes(s[n], s[k])
                        /\ k < n => Precedes(s[k], s[n])
    BY <1>3, <1>4, <1>5 DEF Rising
  <2>2. m.page = s[k].page /\ m.order = s[k].order
    BY <1>5 DEF Same
  <2> HIDE DEF N
  <2> QED BY <2>1, <2>2 DEF Precedes
<1>8. s[k].path = m.path
  BY <1>5 DEF Same
<1>9. b.id \in ToSet(above) => b.type = "caption" \/ (b.path = m.path /\ Precedes(b, m))
  <2> SUFFICES ASSUME b.id \in ToSet(above) PROVE b.type = "caption" \/ (b.path = m.path /\ Precedes(b, m))
    OBVIOUS
  <2>1. PICK n \in 1..N : /\ s[n].id = b.id
                          /\ s[n].type = "caption" \/ (n < k /\ s[n].path = s[k].path)
    <3> DEFINE i == b.id
    <3>1. i \in ToSet(above) /\ s \in Seq(Block) /\ k \in 1..Len(s)
      BY <1>3, <1>5
    <3> HIDE DEF i, N
    <3>2. \E n \in 1..Len(s) : /\ s[n].id = i
                               /\ s[n].type = "caption" \/ (n < k /\ s[n].path = s[k].path)
      BY <3>1, AboveIn
    <3> QED BY <3>2 DEF i, N
  <2>2. s[n] = b
    BY <1>6, <2>1
  <2> QED BY <1>7, <1>8, <2>1, <2>2
<1>10. b.id \in ToSet(below) => b.path = m.path /\ Precedes(m, b)
  <2> SUFFICES ASSUME b.id \in ToSet(below) PROVE b.path = m.path /\ Precedes(m, b)
    OBVIOUS
  <2>1. PICK n \in 1..N : s[n].id = b.id /\ k < n /\ s[n].path = s[k].path
    <3> DEFINE i == b.id
    <3>1. i \in ToSet(below) /\ s \in Seq(Block) /\ k \in 1..Len(s)
      BY <1>3, <1>5
    <3> HIDE DEF i, N
    <3>2. \E n \in 1..Len(s) : s[n].id = i /\ k < n /\ s[n].path = s[k].path
      BY <3>1, BelowIn
    <3> QED BY <3>2 DEF i, N
  <2>2. s[n] = b
    BY <1>6, <2>1
  <2> QED BY <1>7, <1>8, <2>1, <2>2
<1> HIDE DEF above, below
<1>11. CASE one.type \in ContextTypes
  <2>1. x.before = above /\ x.after = below
    BY <1>1, <1>11
  <2> QED BY <1>9, <1>10, <2>1 DEF x
<1>12. CASE one.type \notin ContextTypes
  <2>1. x.before = <<>> /\ x.after = <<>>
    BY <1>1, <1>12
  <2>2. ToSet(x.before) = {} /\ ToSet(x.after) = {}
    BY <2>1, ToSetEmpty
  <2> QED BY <2>2 DEF x
<1> QED BY <1>11, <1>12

\* A chunk starts with a block of the document, but for a text that a marker joined.
LEMMA FirstBlock ==
  ASSUME NEW bs, InPlace(bs), NEW template, NEW groups, NEW drafts, NEW strict,
         PackageOf(Chosen(template, bs), groups, drafts, strict),
         NEW k \in 1..Len(groups), NEW j \in 1..Len(drafts[k]), drafts[k][j] \in Goods(groups[k].title)
  PROVE  \E b \in ToSet(bs) : Same(drafts[k][j].blocks[1], b)
<1> DEFINE cs == Chosen(template, bs)
           g == groups[k].blocks
           d == drafts[k]
           v == [n \in DOMAIN d |-> d[n].blocks]
           m == d[j].blocks[1]
<1>1. \A n \in 1..Len(cs) : \E b \in ToSet(bs) : Same(cs[n], b)
  BY ChosenEntries
<1>2. g \in Upto(cs, Len(cs))
  BY DEF PackageOf, Filed
<1>3. d \in Seq(Draft) /\ BlocksOf(d) \in Upto(g, Len(g))
  <2>1. d \in Seq(Goods(groups[k].title)) /\ BlocksOf(d) \in Upto(g, Len(g))
    BY DEF PackageOf, Whole
  <2> DEFINE T == Goods(groups[k].title)
             W == Draft
  <2>2. d \in Seq(T) /\ T \subseteq W
    BY <2>1 DEF Goods
  <2> HIDE DEF T, W, d
  <2>3. d \in Seq(W)
    BY <2>2
  <2> QED BY <2>1, <2>3 DEF W
<1>4. m \in ToSet(d[j].blocks) /\ j \in 1..Len(d)
  <2>1. d[j].blocks \in Seq(Block) /\ d[j].blocks # <<>>
    BY DEF Goods, Draft
  <2>2. 1 \in DOMAIN d[j].blocks
    <3> DEFINE z == d[j].blocks
    <3> HIDE DEF z, d
    <3>1. z \in Seq(Block) /\ z # <<>>
      BY <2>1 DEF z
    <3>2. 1 \in DOMAIN z
      BY <3>1
    <3> QED BY <3>2 DEF z
  <2> QED BY <2>2 DEF ToSet
<1> HIDE DEF d, g, cs
<1>5. v \in Seq(Seq(Block)) /\ Len(v) = Len(d) /\ v[j] = d[j].blocks
  <2> DEFINE V == Seq(Block)
             h == Len(d)
  <2>1. DOMAIN d = 1..h /\ h \in Nat /\ \A n \in 1..h : d[n].blocks \in V
    <3>1. DOMAIN d = 1..h /\ h \in Nat /\ \A n \in 1..h : d[n] \in Draft
      BY <1>3
    <3>2. \A y \in Draft : y.blocks \in V
      BY DEF Draft
    <3> QED BY <3>1, <3>2
  <2>2. j \in 1..h
    BY <1>4
  <2> HIDE DEF V, h
  <2>3. v \in Seq(V) /\ Len(v) = h /\ v[j] = d[j].blocks
    <3>1. v = [n \in 1..h |-> d[n].blocks]
      BY <2>1
    <3> HIDE DEF v
    <3>2. v \in [1..h -> V]
      BY <2>1, <3>1
    <3> QED BY <2>1, <2>2, <3>1, <3>2
  <2> QED BY <2>3 DEF V, h
<1>6. BlocksOf(d) = FlattenSeq(v)
  BY DEF BlocksOf
<1> HIDE DEF v, m
<1>7. m \in ToSet(FlattenSeq(v))
  <2>1. j \in 1..Len(v) /\ m \in ToSet(v[j])
    BY <1>4, <1>5
  <2> QED BY <1>5, <2>1, FlattenHas
<1>8. PICK n \in 1..Len(BlocksOf(d)) : m = BlocksOf(d)[n]
  <2> DEFINE w == BlocksOf(d)
  <2>1. w \in Seq(Block) /\ m \in ToSet(w)
    BY <1>3, <1>6, <1>7 DEF Upto
  <2> HIDE DEF w
  <2>2. DOMAIN w = 1..Len(w)
    BY <2>1
  <2>3. \E n \in 1..Len(w) : m = w[n]
    BY <2>1, <2>2 DEF ToSet
  <2> QED BY <2>3 DEF w
<1>9. PICK p \in 1..Len(g) : m = g[p]
  BY <1>3, <1>8 DEF Upto
<1>10. PICK q \in 1..Len(cs) : m = cs[q]
  BY <1>2, <1>9 DEF Upto
<1> QED BY <1>1, <1>10 DEF m, d

\* The blocks of the document have ids of their own.
LEMMA DocumentNumbered ==
  ASSUME ChunkingInv, stage = "done"
  PROVE  Numbered(blocks)
<1>1. Orderly(blocks)
  BY BlocksOrderly DEF ChunkingInv, Passes
<1>2. /\ DOMAIN blocks = 1..Len(blocks)
      /\ \A j \in 1..Len(blocks), k \in 1..Len(blocks) : blocks[j].id = blocks[k].id => j = k
  BY <1>1, OrderlyIds
<1>3. ASSUME NEW b \in ToSet(blocks), NEW c \in ToSet(blocks), b.id = c.id PROVE b = c
  <2>1. PICK j \in 1..Len(blocks) : b = blocks[j]
    BY <1>2 DEF ToSet
  <2>2. PICK k \in 1..Len(blocks) : c = blocks[k]
    BY <1>2 DEF ToSet
  <2> QED BY <1>2, <1>3, <2>1, <2>2
<1> QED BY <1>3 DEF Numbered

\* MediaStandAlone (media_context.py): what has a table, a figure or a caption is a chunk of its own,
\* and its context is around it in its section.
THEOREM MediaAlwaysAlone == Spec => []MediaStandAlone
<1>1. ASSUME ChunkingInv PROVE MediaStandAlone
  <2>1. SUFFICES ASSUME stage = "done", NEW c \in ToSet(children)
                 PROVE  LET m == c.blocks[1]
                            above == {b \in ToSet(blocks) : b.id \in ToSet(c.context.before)}
                            below == {b \in ToSet(blocks) : b.id \in ToSet(c.context.after)}
                        IN  /\ (\E b \in ToSet(c.blocks) : Media(b)) =>
                                   Len(c.blocks) = 1 \/ c.type \in {"qa_pair", "table_row_group"}
                            /\ \A b \in above : b.type = "caption" \/ (b.path = m.path /\ Precedes(b, m))
                            /\ \A b \in below : b.path = m.path /\ Precedes(m, b)
    BY DEF MediaStandAlone
  <2>2. PICK groups, drafts :
            /\ PackageOf(Chosen(kind, blocks), groups, drafts, ~Clash)
            /\ parents = Packed(FamiliesOf(groups, drafts), blocks).parents
            /\ children = Packed(FamiliesOf(groups, drafts), blocks).children
    BY <1>1, <2>1, PackageDone
  <2>3. groups \in Seq(Obj)
    BY <2>2 DEF PackageOf, Filed
  <2>4. /\ children = InContext(FlattenSeq(Kin(groups, drafts)), blocks)
        /\ parents = [k \in 1..Len(groups) |-> parents[k]] /\ Len(parents) = Len(groups)
        /\ \A k \in 1..Len(groups) : parents[k].id = groups[k].key /\ parents[k].title = groups[k].title
    BY <2>2, <2>3, PackedParts
  <2>5. PICK k \in 1..Len(groups) : \E j \in 1..Len(drafts[k]) :
            LET one == Child(groups[k].key, j, drafts[k][j])
            IN  /\ c = [one EXCEPT !.context = Context(one, blocks)]
                /\ drafts[k][j] \in Goods(groups[k].title)
    BY <2>1, <2>2, <2>4, ChildMade
  <2>6. PICK j \in 1..Len(drafts[k]) :
            LET one == Child(groups[k].key, j, drafts[k][j])
            IN  /\ c = [one EXCEPT !.context = Context(one, blocks)]
                /\ drafts[k][j] \in Goods(groups[k].title)
    BY <2>5
  <2>7. InPlace(blocks) /\ Numbered(blocks)
    BY <1>1, <2>1, DocumentInPlace, DocumentNumbered
  <2>8. PICK b0 \in ToSet(blocks) : Same(drafts[k][j].blocks[1], b0)
    BY <2>2, <2>6, <2>7, FirstBlock
  <2> DEFINE d == drafts[k][j]
             key == groups[k].key
             one == Child(key, j, d)
             x == Context(one, blocks)
             m == d.blocks[1]
  <2>9. c = [Child(key, j, d) EXCEPT !.context = x] /\ d \in Goods(groups[k].title)
    BY <2>6
  <2>10. one.blocks = d.blocks
    BY ChildParts
  <2>11. c.type = d.type /\ c.blocks = d.blocks /\ c.context = x
    <3> HIDE DEF d, key, x
    <3> QED BY <2>9, ChildParts
  <2>12. Separate(d)
    BY <2>9 DEF Goods
  <2>13. ASSUME NEW b \in ToSet(blocks)
         PROVE  /\ b.id \in ToSet(x.before) => b.type = "caption" \/ (b.path = m.path /\ Precedes(b, m))
                /\ b.id \in ToSet(x.after) => b.path = m.path /\ Precedes(m, b)
    <3>1. m = one.blocks[1] /\ Same(m, b0)
      BY <2>8, <2>10
    <3> HIDE DEF one, m
    <3> QED BY <2>7, <3>1, ContextAround
  <2> HIDE DEF d, x, one
  <2>14. (\E b \in ToSet(c.blocks) : Media(b)) => Len(c.blocks) = 1 \/ c.type \in {"qa_pair", "table_row_group"}
    BY <2>11, <2>12 DEF Separate
  <2> QED BY <2>11, <2>13, <2>14
<1> QED
  BY <1>1, ChunkingInvAlways, PTL

-----------------------------------------------------------------------------
(* Every piece of text is in one child. *)

\* Chunks as they are made of blocks
Blocky(U) == \A u \in U : u.blocks \in Seq(Block)
\* The blocks of two lists of chunks one after the other
LEMMA BlocksConcat ==
  ASSUME NEW U, Blocky(U), NEW s \in Seq(U), NEW t \in Seq(U)
  PROVE  /\ BlocksOf(s \o t) = BlocksOf(s) \o BlocksOf(t)
         /\ BlocksOf(s) \in Seq(Block)
<1> DEFINE h == [u \in U |-> u.blocks]
           W == Seq(Block)
<1>1. h \in [U -> W]
  BY DEF Blocky
<1>2. ASSUME NEW v \in Seq(U) PROVE BlocksOf(v) = FlattenSeq(Mapped(h, v))
  <2>1. \A k \in DOMAIN v : h[v[k]] = v[k].blocks
    OBVIOUS
  <2> DEFINE f == [k \in DOMAIN v |-> v[k].blocks]
             g == [k \in DOMAIN v |-> h[v[k]]]
  <2>2. f = g
    BY <2>1
  <2>3. BlocksOf(v) = FlattenSeq(f) /\ Mapped(h, v) = g
    BY DEF BlocksOf, Mapped
  <2> HIDE DEF f, g
  <2> QED BY <2>2, <2>3
<1> HIDE DEF h
<1>3. Mapped(h, s) \in Seq(W) /\ Mapped(h, t) \in Seq(W)
  <2> HIDE DEF W
  <2> QED BY <1>1, MapType
<1>4. Mapped(h, s \o t) = Mapped(h, s) \o Mapped(h, t)
  BY MapConcat
<1> DEFINE a == Mapped(h, s)
           b == Mapped(h, t)
<1>5. a \in Seq(Seq(Block)) /\ b \in Seq(Seq(Block))
  BY <1>3
<1> HIDE DEF a, b
<1>6. FlattenSeq(a \o b) = FlattenSeq(a) \o FlattenSeq(b) /\ FlattenSeq(a) \in Seq(Block)
  BY <1>5, FlattenConcat, FlattenType
<1>7. s \o t \in Seq(U)
  BY ConcatType
<1>8. BlocksOf(s) = FlattenSeq(a) /\ BlocksOf(t) = FlattenSeq(b) /\ BlocksOf(s \o t) = FlattenSeq(a \o b)
  BY <1>2, <1>4, <1>7 DEF a, b
<1> QED BY <1>6, <1>8

\* The blocks of the chunks of several parents
LEMMA BlocksFlatten ==
  ASSUME NEW U, Blocky(U), NEW ss, ss \in Seq(Seq(U))
  PROVE  /\ [k \in 1..Len(ss) |-> BlocksOf(ss[k])] \in Seq(Seq(Block))
         /\ BlocksOf(FlattenSeq(ss)) = FlattenSeq([k \in 1..Len(ss) |-> BlocksOf(ss[k])])
<1> DEFINE V == Seq(U)
           W == Seq(Block)
           H == [v \in V |-> BlocksOf(v)]
           P == {s \in Seq(V) : BlocksOf(FlattenSeq(s)) = FlattenSeq(Mapped(H, s))}
           e == <<>>
<1>1. H \in [V -> W] /\ \A v \in V : H[v] = BlocksOf(v)
  BY BlocksConcat
<1> HIDE DEF H
<1>2. \A s \in Seq(V) : Mapped(H, s) \in Seq(W)
  <2> HIDE DEF V, W
  <2> QED BY <1>1, MapType
<1>3. e \in P
  <2>1. e \in Seq(V) /\ FlattenSeq(e) = e /\ Mapped(H, e) = e
    BY FlattenEmpty, MapEmpty
  <2>2. BlocksOf(e) = e
    <3>1. [k \in DOMAIN e |-> e[k].blocks] = e
      OBVIOUS
    <3> QED BY <3>1, FlattenEmpty DEF BlocksOf
  <2> HIDE DEF e, V
  <2> QED BY <2>1, <2>2
<1>4. ASSUME NEW s \in Seq(V), NEW x \in V, s \in P PROVE Append(s, x) \in P
  <2> DEFINE t == Append(s, x)
             F == FlattenSeq(s)
             Hs == Mapped(H, s)
  <2>1. F \in Seq(U) /\ FlattenSeq(t) = F \o x
    BY <1>4, FlattenAppend
  <2>2. BlocksOf(F \o x) = BlocksOf(F) \o BlocksOf(x)
    <3>1. x \in Seq(U)
      BY <1>4
    <3> HIDE DEF F
    <3> QED BY <2>1, <3>1, BlocksConcat
  <2>3. BlocksOf(F) = FlattenSeq(Hs)
    BY <1>4
  <2>4. Mapped(H, t) = Append(Hs, H[x])
    <3>1. H \in [V -> W] /\ s \in Seq(V) /\ x \in V
      BY <1>1, <1>4
    <3> HIDE DEF V, W
    <3>2. [n \in DOMAIN Append(s, x) |-> H[Append(s, x)[n]]] = Append([n \in DOMAIN s |-> H[s[n]]], H[x])
      BY <3>1, MapAppend
    <3> QED BY <3>2 DEF Mapped
  <2>5. FlattenSeq(Append(Hs, H[x])) = FlattenSeq(Hs) \o H[x]
    <3>1. Hs \in Seq(W) /\ H[x] \in W
      BY <1>1, <1>2, <1>4
    <3> HIDE DEF Hs
    <3>2. Hs \in Seq(Seq(Block)) /\ H[x] \in Seq(Block)
      BY <3>1
    <3> QED BY <3>2, FlattenAppend
  <2>6. H[x] = BlocksOf(x)
    BY <1>1, <1>4
  <2>7. t \in Seq(V)
    <3> HIDE DEF V
    <3> QED BY <1>4
  <2> HIDE DEF F, Hs, t, V
  <2>8. BlocksOf(FlattenSeq(t)) = FlattenSeq(Mapped(H, t))
    BY <2>1, <2>2, <2>3, <2>4, <2>5, <2>6, Zenon
  <2>9. t \in P
    BY <2>7, <2>8
  <2> QED BY <2>9 DEF t
<1> HIDE DEF P, V, W
<1>5. Seq(V) \subseteq P
  BY <1>3, <1>4, SeqInduction DEF e
<1>6. ss \in P /\ ss \in Seq(V)
  BY <1>5 DEF V
<1>7. BlocksOf(FlattenSeq(ss)) = FlattenSeq(Mapped(H, ss)) /\ Mapped(H, ss) \in Seq(W)
  BY <1>2, <1>6 DEF P
<1>8. Mapped(H, ss) = [k \in 1..Len(ss) |-> BlocksOf(ss[k])]
  <2>1. DOMAIN ss = 1..Len(ss) /\ \A k \in 1..Len(ss) : ss[k] \in V
    BY <1>6
  <2>2. \A k \in 1..Len(ss) : H[ss[k]] = BlocksOf(ss[k])
    BY <1>1, <2>1
  <2> QED BY <2>1, <2>2 DEF Mapped
<1> QED BY <1>7, <1>8 DEF W

\* The texts of blocks
LEMMA TextsType ==
  ASSUME NEW s \in Seq(Block)
  PROVE  LET texts == [k \in DOMAIN s |-> s[k].text]
         IN  /\ texts \in Seq(Seq(Piece)) /\ Len(texts) = Len(s)
             /\ \A k \in 1..Len(s) : texts[k] = s[k].text
<1> DEFINE texts == [k \in DOMAIN s |-> s[k].text]
           N == Len(s)
           V == Seq(Piece)
<1>1. N \in Nat /\ DOMAIN s = 1..N /\ \A k \in 1..N : s[k] \in Block
  OBVIOUS
<1>2. texts = [k \in 1..N |-> texts[k]] /\ \A k \in 1..N : texts[k] = s[k].text
  BY <1>1
<1> HIDE DEF texts, N
<1>3. Len(texts) = N
  BY <1>1, <1>2, FunctionLen
<1>4. \A k \in 1..Len(texts) : texts[k] \in V
  BY <1>1, <1>2, <1>3 DEF Block
<1>5. texts = [k \in 1..Len(texts) |-> texts[k]] /\ Len(texts) \in Nat
  BY <1>1, <1>2, <1>3
<1> HIDE DEF V
<1>6. texts \in Seq(V)
  BY <1>4, <1>5, ListType
<1> QED BY <1>2, <1>3, <1>6 DEF V, N, texts

\* The text of a document: each piece is in one block, and there once.
Owned(bs) ==
    /\ bs \in Seq(Block)
    /\ \A k \in 1..Len(bs) : Once(bs[k].text)
    /\ \A j, k \in 1..Len(bs) : j # k => ToSet(bs[j].text) \cap ToSet(bs[k].text) = {}
\* The text of some of the blocks, each of them there once
LEMMA TextsOnce ==
  ASSUME NEW bs, Owned(bs), NEW s \in Seq(Block), Once(s), ToSet(s) \subseteq ToSet(bs)
  PROVE  Once(FlattenSeq([k \in DOMAIN s |-> s[k].text]))
<1> DEFINE texts == [k \in DOMAIN s |-> s[k].text]
           N == Len(s)
<1>1. N \in Nat /\ DOMAIN s = 1..N /\ \A k \in 1..N : s[k] \in ToSet(s)
  BY DEF ToSet
<1>2. /\ texts \in Seq(Seq(Piece)) /\ Len(texts) = N
      /\ \A k \in 1..N : texts[k] = s[k].text
  BY TextsType
<1> HIDE DEF texts, N
<1>5. \A k \in 1..N : \E i \in 1..Len(bs) : s[k] = bs[i]
  <2>1. DOMAIN bs = 1..Len(bs)
    BY DEF Owned
  <2> QED BY <1>1, <2>1 DEF ToSet
<1>6. ASSUME NEW k \in 1..N PROVE Once(texts[k])
  <2>1. PICK i \in 1..Len(bs) : s[k] = bs[i]
    BY <1>5
  <2> QED BY <1>2, <2>1 DEF Owned
<1>7. ASSUME NEW j \in 1..N, NEW k \in 1..N, j # k
      PROVE  ToSet(texts[j]) \cap ToSet(texts[k]) = {}
  <2>1. PICK i \in 1..Len(bs) : s[j] = bs[i]
    BY <1>5
  <2>2. PICK m \in 1..Len(bs) : s[k] = bs[m]
    BY <1>5
  <2>3. i # m
    BY <1>7, <2>1, <2>2 DEF Once, N
  <2>4. ToSet(bs[i].text) \cap ToSet(bs[m].text) = {}
    BY <2>3 DEF Owned
  <2> QED BY <1>2, <2>1, <2>2, <2>4
<1>8. Disjoint(texts)
  BY <1>2, <1>6, <1>7 DEF Disjoint
<1>9. Once(FlattenSeq(texts))
  BY <1>2, <1>8, FlattenOnce
<1> QED BY <1>9 DEF texts

\* The text of a block is among the texts.
LEMMA TextsHave ==
  ASSUME NEW s \in Seq(Block), NEW c \in ToSet(s), NEW t \in ToSet(c.text)
  PROVE  /\ t \in ToSet(FlattenSeq([k \in DOMAIN s |-> s[k].text]))
         /\ FlattenSeq([k \in DOMAIN s |-> s[k].text]) \in Seq(Piece)
<1> DEFINE texts == [k \in DOMAIN s |-> s[k].text]
           T == Piece
<1>1. /\ texts \in Seq(Seq(T)) /\ Len(texts) = Len(s)
      /\ \A k \in 1..Len(s) : texts[k] = s[k].text
  BY TextsType
<1>2. PICK k \in 1..Len(s) : c = s[k]
  BY DEF ToSet
<1> HIDE DEF texts, T
<1>3. k \in 1..Len(texts) /\ t \in ToSet(texts[k])
  BY <1>1, <1>2
<1>4. t \in ToSet(FlattenSeq(texts)) /\ FlattenSeq(texts) \in Seq(T)
  BY <1>1, <1>3, FlattenHas, FlattenType
<1> QED BY <1>4 DEF texts, T

\* One element
LEMMA OnceOne ==
  ASSUME NEW T, NEW x \in T
  PROVE  <<x>> \in Seq(T) /\ ToSet(<<x>>) = {x} /\ Once(<<x>>)
<1>1. <<x>> \in Seq(T) /\ Len(<<x>>) = 1
  OBVIOUS
<1>2. Once(<<x>>)
  BY <1>1 DEF Once
<1> QED BY <1>1, <1>2, ToSetOne

\* A list between two elements
Framed(s, x, y) == <<x>> \o s \o <<y>>
\* Two new elements leave each there once.
LEMMA OnceFramed ==
  ASSUME NEW T, NEW s \in Seq(T), NEW x \in T, NEW y \in T, Once(s), x # y,
         x \notin ToSet(s), y \notin ToSet(s)
  PROVE  Once(Framed(s, x, y)) /\ ToSet(Framed(s, x, y)) = ToSet(s) \cup {x, y}
<1> DEFINE a == <<x>>
           b == <<y>>
           as == a \o s
<1>1. /\ a \in Seq(T) /\ b \in Seq(T) /\ ToSet(a) = {x} /\ ToSet(b) = {y}
      /\ Once(a) /\ Once(b)
  BY OnceOne
<1> HIDE DEF a, b
<1>2. as \in Seq(T) /\ ToSet(as) = {x} \cup ToSet(s)
  BY <1>1, ToSetConcat, ConcatType
<1>3. Once(as)
  <2>1. ToSet(a) \cap ToSet(s) = {}
    BY <1>1
  <2> QED BY <1>1, <2>1, OnceConcat
<1> HIDE DEF as
<1>4. ToSet(as \o b) = ToSet(as) \cup ToSet(b)
  <2>1. as \in Seq(T) /\ b \in Seq(T)
    BY <1>1, <1>2
  <2> QED BY <2>1, ToSetConcat
<1>5. Once(as \o b)
  <2>1. ToSet(as) \cap ToSet(b) = {}
    BY <1>1, <1>2
  <2> QED BY <1>1, <1>2, <1>3, <2>1, OnceConcat
<1>6. Once(as \o b) /\ ToSet(as \o b) = ToSet(s) \cup {x, y}
  BY <1>1, <1>2, <1>4, <1>5
<1> QED BY <1>6 DEF Framed, as, a, b

\* Two blocks with different texts
Strange(body, m) ==
    /\ body \in Block /\ m \in Block /\ Len(m.text) >= 2
    /\ Once(body.text) /\ Once(m.text)
    /\ ToSet(body.text) \cap ToSet(m.text) = {}
\* The text of a block that a marker is joined to
LEMMA JoinedText ==
  ASSUME NEW body, NEW m, Strange(body, m)
  PROVE  /\ Once(JoinMarker(body, m).text)
         /\ ToSet(JoinMarker(body, m).text) = ToSet(body.text) \cup {m.text[1], m.text[2]}
         /\ m.text[1] \in ToSet(m.text) /\ m.text[2] \in ToSet(m.text)
         /\ JoinMarker(body, m).line = m.line
         /\ JoinMarker(body, m).type \in {body.type, "paragraph"}
         /\ Last(JoinMarker(body, m).text) = m.text[2]
<1> DEFINE T == Piece
           s == body.text
           t == m.text
           x == t[1]
           y == t[2]
           text == Framed(s, x, y)
           size == body.size + m.size
           type == IF body.type = "list_item" THEN "paragraph" ELSE body.type
           new == JoinMarker(body, m)
<1>1. /\ s \in Seq(T) /\ t \in Seq(T) /\ Len(t) >= 2 /\ Once(s) /\ Once(t)
      /\ ToSet(s) \cap ToSet(t) = {}
  BY DEF Strange, Block
<1>2. /\ new.text = text /\ new.line = m.line /\ new.type = type
  <2>1. new = [body EXCEPT !.text = text, !.line = m.line, !.title = m.title, !.size = size, !.type = type]
    BY DEF JoinMarker, Framed
  <2>2. body \in Block
    BY DEF Strange
  <2> HIDE DEF text, size, type, new
  <2> QED BY <2>1, <2>2 DEF Block
<1> HIDE DEF T, s, t, new
<1>3. /\ 1 \in 1..Len(t) /\ 2 \in 1..Len(t) /\ DOMAIN t = 1..Len(t)
  BY <1>1
<1>4. x \in ToSet(t) /\ y \in ToSet(t) /\ x \in T /\ y \in T
  BY <1>1, <1>3 DEF ToSet
<1>5. x # y
  BY <1>1, <1>3 DEF Once
<1> HIDE DEF x, y
<1>6. x \notin ToSet(s) /\ y \notin ToSet(s)
  BY <1>1, <1>4
<1>7. Once(Framed(s, x, y)) /\ ToSet(Framed(s, x, y)) = ToSet(s) \cup {x, y}
  BY <1>1, <1>4, <1>5, <1>6, OnceFramed
<1> HIDE DEF text
<1>8. Once(new.text) /\ ToSet(new.text) = ToSet(s) \cup {x, y}
  BY <1>2, <1>7 DEF text
<1>9. Last(new.text) = y
  <2>1. Framed(s, x, y) \in Seq(T) /\ Len(Framed(s, x, y)) = Len(s) + 2
        /\ Framed(s, x, y)[Len(s) + 2] = y
    BY <1>1, <1>4 DEF Framed
  <2> QED BY <1>2, <2>1 DEF text, Last
<1> QED BY <1>2, <1>4, <1>8, <1>9 DEF new, s, t, x, y

\* The best text for a marker is one that may be its text.
LEMMA BestIsBody ==
  ASSUME NEW bs \in Seq(Block), NEW m
  PROVE  \/ BestBody(bs, m) = 0
         \/ BestBody(bs, m) \in 1..Len(bs) /\ BodyOfMarker(bs[BestBody(bs, m)], m)
<1> DEFINE k == BestBody(bs, m)
           N == Len(bs)
           I == {i \in 1..N : BodyOfMarker(bs[i], m)
                    /\ \A d \in ToSet(bs) : BodyOfMarker(d, m) => Score(bs[i], m) >= Score(d, m)}
<1>1. k = IF I # {} THEN Min(I) ELSE 0
  BY DEF BestBody, SelectInSeq
<1>2. N \in Nat /\ I \subseteq 1..N
  OBVIOUS
<1> HIDE DEF k, N
<1>3. \A i \in I : i \in 1..N /\ BodyOfMarker(bs[i], m)
  OBVIOUS
<1> HIDE DEF I
<1>4. \/ k = 0 /\ I = {}
      \/ k \in I /\ k \in 1..N /\ \A j \in I : k <= j
  BY <1>1, <1>2, FirstOf
<1>5. k = 0 \/ (k \in 1..N /\ BodyOfMarker(bs[k], m))
  BY <1>3, <1>4
<1> QED BY <1>5 DEF k, N

\* Blocks in reading order, each with an id and a text of its own
Printed(bs) ==
    /\ Entries(bs) /\ Texted(bs) /\ Owned(bs)
    /\ \A k \in 1..Len(bs) : Lined(bs[k])
    /\ \A j \in 1..Len(bs), k \in 1..Len(bs) : bs[j].id = bs[k].id => j = k

\* The text that a marker is joined to is not a marker.
LEMMA JoinsTo ==
  ASSUME NEW bs \in Seq(Block), NEW k \in Joins(bs)
  PROVE  /\ k \in 1..Len(bs) /\ Marker(bs[k])
         /\ BestBody(bs, bs[k]) \in 1..Len(bs) /\ BestBody(bs, bs[k]) \notin Joins(bs)
         /\ BodyOfMarker(bs[BestBody(bs, bs[k])], bs[k])
<1> DEFINE n == BestBody(bs, bs[k])
<1>1. k \in 1..Len(bs) /\ Marker(bs[k]) /\ n # 0
  BY DEF Joins
<1>2. n \in 1..Len(bs) /\ BodyOfMarker(bs[n], bs[k])
  BY <1>1, BestIsBody
<1> HIDE DEF n
<1>3. n \notin Joins(bs)
  BY <1>2 DEF BodyOfMarker, Joins, Marker
<1> QED BY <1>1, <1>2, <1>3 DEF n

\* What the text of a repaired block is of
Source(bs, n, i) == i = n \/ i \in MarkersOf(bs, n)
\* The text of a repaired block is of its sources, and each piece is there once.
LEMMA RepairedText ==
  ASSUME NEW bs, Printed(bs), NEW n \in 1..Len(bs), n \notin Joins(bs)
  PROVE  /\ Once(RepairedAt(bs, n).text)
         /\ \A t \in ToSet(RepairedAt(bs, n).text) :
               \E i \in 1..Len(bs) : Source(bs, n, i) /\ t \in ToSet(bs[i].text)
         /\ ToSet(bs[n].text) \subseteq ToSet(RepairedAt(bs, n).text)
         /\ MarkersOf(bs, n) = {} => RepairedAt(bs, n) = bs[n]
         /\ MarkersOf(bs, n) # {} =>
               /\ RepairedAt(bs, n) \notin Bare
               /\ Max(MarkersOf(bs, n)) \in MarkersOf(bs, n)
               /\ LET m == bs[Max(MarkersOf(bs, n))]
                  IN  {m.text[1], m.text[2]} \subseteq ToSet(RepairedAt(bs, n).text)
<1> DEFINE M == MarkersOf(bs, n)
           c == RepairedAt(bs, n)
           N == Len(bs)
<1>1. /\ bs \in Seq(Block) /\ N \in Nat /\ \A k \in 1..N : bs[k] \in Block /\ Len(bs[k].text) >= 2
      /\ \A k \in 1..N : Once(bs[k].text)
      /\ \A j, k \in 1..N : j # k => ToSet(bs[j].text) \cap ToSet(bs[k].text) = {}
  <2>1. bs \in Seq(Block)
    BY DEF Printed, Owned
  <2>2. N \in Nat /\ \A k \in 1..N : bs[k] \in Block
    BY <2>1
  <2>3. \A k \in 1..N : Len(bs[k].text) >= 2
    BY DEF Printed, Texted
  <2>4. /\ \A k \in 1..N : Once(bs[k].text)
        /\ \A j, k \in 1..N : j # k => ToSet(bs[j].text) \cap ToSet(bs[k].text) = {}
    BY DEF Printed, Owned
  <2> QED BY <2>1, <2>2, <2>3, <2>4
<1>2. c = IF M = {} THEN bs[n] ELSE JoinMarker(bs[n], bs[Max(M)])
  BY DEF RepairedAt
<1>3. \A k \in M : k \in Joins(bs) /\ BestBody(bs, bs[k]) = n
  BY DEF MarkersOf
<1>4. \A k \in M : k \in 1..N
  BY <1>1, <1>3, JoinsTo
<1> HIDE DEF M, c, N
<1>5. CASE M = {}
  <2>1. c = bs[n]
    BY <1>2, <1>5
  <2>2. Source(bs, n, n) /\ n \in 1..N
    BY DEF Source, N
  <2> QED BY <1>1, <1>5, <2>1, <2>2 DEF M, c, N
<1>6. CASE M # {}
  <2> DEFINE k == Max(M)
             m == bs[k]
             body == bs[n]
  <2>1. k \in M
    BY <1>1, <1>4, <1>6, GreatestOf
  <2>2. c = JoinMarker(body, m)
    BY <1>2, <1>6
  <2> HIDE DEF k
  <2>3. k \in Joins(bs) /\ k \in 1..N /\ n \in 1..N /\ k # n
    BY <1>3, <1>4, <2>1 DEF N
  <2>4. Strange(body, m)
    BY <1>1, <2>3 DEF Strange
  <2>5. Marker(m) /\ BodyOfMarker(body, m)
    <3>1. /\ Marker(bs[k]) /\ BodyOfMarker(bs[BestBody(bs, bs[k])], bs[k])
      BY <1>1, <2>3, JoinsTo
    <3>2. BestBody(bs, bs[k]) = n
      BY <1>3, <2>1
    <3> QED BY <3>1, <3>2
  <2> HIDE DEF m, body
  <2>6. /\ Once(c.text)
        /\ ToSet(c.text) = ToSet(body.text) \cup {m.text[1], m.text[2]}
        /\ m.text[1] \in ToSet(m.text) /\ m.text[2] \in ToSet(m.text)
        /\ c.line = m.line /\ Last(c.text) = m.text[2]
        /\ c.type \in {body.type, "paragraph"}
    <3>1. /\ Once(JoinMarker(body, m).text)
          /\ ToSet(JoinMarker(body, m).text) = ToSet(body.text) \cup {m.text[1], m.text[2]}
          /\ m.text[1] \in ToSet(m.text) /\ m.text[2] \in ToSet(m.text)
          /\ JoinMarker(body, m).line = m.line
          /\ JoinMarker(body, m).type \in {body.type, "paragraph"}
          /\ Last(JoinMarker(body, m).text) = m.text[2]
      BY <2>4, JoinedText
    <3> QED BY <2>2, <3>1
  <2>7. c \notin Bare
    <3>1. c.line \in {"article", "provision"}
      BY <2>5, <2>6 DEF Marker, ArticleLine
    <3>2. c.type # "heading"
      BY <2>5, <2>6 DEF BodyOfMarker, IsHeading
    <3>3. Lined(m) /\ m.band # 0 /\ ArticleLine(m)
      <4>1. Lined(bs[k])
        BY <2>3 DEF Printed, N
      <4> QED BY <2>5, <4>1 DEF m, Marker
    <3>4. m.text[2].part # "mark"
      BY <3>3 DEF Lined
    <3>5. ~PageJunk(c)
      BY <2>6, <3>1, <3>4 DEF PageJunk
    <3>6. ~BareHeading(c)
      BY <3>2 DEF BareHeading, IsHeading
    <3> QED BY <3>5, <3>6 DEF Bare
  <2>8. \A t \in ToSet(c.text) : \E i \in 1..N : Source(bs, n, i) /\ t \in ToSet(bs[i].text)
    <3>1. Source(bs, n, n) /\ Source(bs, n, k)
      BY <2>1 DEF Source, M
    <3>2. \A t \in ToSet(c.text) : t \in ToSet(bs[n].text) \/ t \in ToSet(bs[k].text)
      BY <2>6 DEF body, m
    <3> QED BY <2>3, <3>1, <3>2
  <2>9. ToSet(bs[n].text) \subseteq ToSet(c.text) /\ {bs[k].text[1], bs[k].text[2]} \subseteq ToSet(c.text)
    BY <2>6 DEF body, m
  <2> QED BY <1>6, <2>1, <2>6, <2>7, <2>8, <2>9 DEF M, c, N, k
<1> QED BY <1>5, <1>6

\* No piece of text is in two repaired blocks.
LEMMA RepairedApart ==
  ASSUME NEW bs, Printed(bs), NEW j \in 1..Len(bs), NEW k \in 1..Len(bs),
         j \notin Joins(bs), k \notin Joins(bs), j # k
  PROVE  ToSet(RepairedAt(bs, j).text) \cap ToSet(RepairedAt(bs, k).text) = {}
<1>1. SUFFICES ASSUME NEW t, t \in ToSet(RepairedAt(bs, j).text), t \in ToSet(RepairedAt(bs, k).text)
               PROVE  FALSE
  OBVIOUS
<1>2. PICK i \in 1..Len(bs) : Source(bs, j, i) /\ t \in ToSet(bs[i].text)
  BY <1>1, RepairedText
<1>3. PICK h \in 1..Len(bs) : Source(bs, k, h) /\ t \in ToSet(bs[h].text)
  BY <1>1, RepairedText
<1>4. i = h
  BY <1>2, <1>3 DEF Printed, Owned
<1> QED BY <1>2, <1>3, <1>4 DEF Source, MarkersOf

\* Joining markers to their text keeps the texts of different blocks apart.
LEMMA RepairedOwned ==
  ASSUME NEW bs, Printed(bs)
  PROVE  Owned(RepairMarkers(bs))
<1> DEFINE cs == RepairMarkers(bs)
<1>1. Entries(cs) /\ ToSet(cs) = {RepairedAt(bs, n) : n \in DOMAIN bs \ Joins(bs)}
  BY RepairedEntries DEF Printed
<1>2. DOMAIN bs = 1..Len(bs)
  BY DEF Printed, Owned
<1> HIDE DEF cs
<1>3. cs \in Seq(Block) /\ \A n \in 1..Len(cs) : cs[n] \in ToSet(cs)
  BY <1>1 DEF Entries, ToSet
<1>4. \A i \in 1..Len(cs) : \E n \in 1..Len(bs) : n \notin Joins(bs) /\ cs[i] = RepairedAt(bs, n)
  BY <1>1, <1>2, <1>3
<1>5. ASSUME NEW i \in 1..Len(cs) PROVE Once(cs[i].text)
  BY <1>4, RepairedText
<1>6. ASSUME NEW i \in 1..Len(cs), NEW h \in 1..Len(cs), i # h
      PROVE  ToSet(cs[i].text) \cap ToSet(cs[h].text) = {}
  <2>1. PICK j \in 1..Len(bs) : j \notin Joins(bs) /\ cs[i] = RepairedAt(bs, j)
    BY <1>4
  <2>2. PICK k \in 1..Len(bs) : k \notin Joins(bs) /\ cs[h] = RepairedAt(bs, k)
    BY <1>4
  <2>3. cs[i] # cs[h]
    BY <1>1, <1>6, RisingOnce
  <2>4. j # k
    BY <2>1, <2>2, <2>3
  <2>5. ToSet(RepairedAt(bs, j).text) \cap ToSet(RepairedAt(bs, k).text) = {}
    BY <2>1, <2>2, <2>4, RepairedApart
  <2> QED BY <2>1, <2>2, <2>5
<1>7. Owned(cs)
  BY <1>3, <1>5, <1>6 DEF Owned
<1> QED BY <1>7 DEF cs

\* Another marker has the same text.
Rivalled(bs, b) ==
    \E m \in ToSet(bs) : m.id # b.id /\ Marker(m) /\ BestBody(bs, m) = BestBody(bs, b)
\* A piece of text is in a repaired block, or it is of a marker that is joined.
LEMMA RepairedHolds ==
  ASSUME NEW bs, Printed(bs), NEW b \in ToSet(bs), NEW t \in ToSet(b.text)
  PROVE  \/ \E c \in ToSet(RepairMarkers(bs)) : t \in ToSet(c.text) /\ (c \in Bare => c = b)
         \/ /\ Marker(b) /\ BestBody(bs, b) # 0
            /\ t.part \in {"more", "mark"} \/ Rivalled(bs, b)
<1> DEFINE cs == RepairMarkers(bs)
           N == Len(bs)
<1>1. bs \in Seq(Block) /\ DOMAIN bs = 1..N /\ N \in Nat
  BY DEF Printed, Owned
<1>2. ToSet(cs) = {RepairedAt(bs, n) : n \in DOMAIN bs \ Joins(bs)}
  BY RepairedEntries DEF Printed
<1> HIDE DEF cs, N
<1>3. PICK k \in 1..N : b = bs[k]
  BY <1>1 DEF ToSet
<1>4. CASE k \notin Joins(bs)
  <2> DEFINE c == RepairedAt(bs, k)
  <2>1. c \in ToSet(cs)
    BY <1>1, <1>2, <1>4
  <2>2. ToSet(b.text) \subseteq ToSet(c.text) /\ (MarkersOf(bs, k) = {} => c = b)
        /\ (MarkersOf(bs, k) # {} => c \notin Bare)
    BY <1>3, <1>4, RepairedText DEF N
  <2> HIDE DEF c
  <2> QED BY <2>1, <2>2 DEF cs
<1>5. CASE k \in Joins(bs)
  <2> DEFINE n == BestBody(bs, b)
             M == MarkersOf(bs, n)
             x == Max(M)
             c == RepairedAt(bs, n)
  <2>1. /\ Marker(b) /\ n \in 1..N /\ n \notin Joins(bs)
    BY <1>1, <1>3, <1>5, JoinsTo DEF N
  <2>2. n # 0
    BY <1>1, <2>1
  <2>3. k \in M
    BY <1>3, <1>5 DEF MarkersOf
  <2>4. M # {}
    BY <2>3
  <2>5. /\ c \notin Bare /\ x \in M
        /\ bs[x].text[1] \in ToSet(c.text) /\ bs[x].text[2] \in ToSet(c.text)
    <3>1. /\ RepairedAt(bs, n) \notin Bare
          /\ Max(MarkersOf(bs, n)) \in MarkersOf(bs, n)
          /\ LET m == bs[Max(MarkersOf(bs, n))]
             IN  {m.text[1], m.text[2]} \subseteq ToSet(RepairedAt(bs, n).text)
      <4> HIDE DEF n, c, x
      <4> QED BY <2>1, <2>4, RepairedText DEF N
    <3> QED BY <3>1
  <2>6. c \in ToSet(cs)
    BY <1>1, <1>2, <2>1
  <2> HIDE DEF n, c, x
  <2>7. CASE x = k
    <3>1. b \in Block /\ b.text \in Seq(Piece) /\ b.band # 0
      <4>1. b \in Block
        BY <1>1, <1>3
      <4>2. b.text \in Seq(Piece)
        BY <4>1 DEF Block
      <4> QED BY <2>1, <4>1, <4>2 DEF Marker
    <3>2. Lined(b)
      BY <1>3 DEF Printed, N
    <3>3. PICK i \in 1..Len(b.text) : t = b.text[i]
      <4>1. DOMAIN b.text = 1..Len(b.text)
        BY <3>1
      <4> QED BY <4>1 DEF ToSet
    <3>4. CASE i \in {1, 2}
      BY <1>3, <2>5, <2>6, <2>7, <3>3, <3>4 DEF cs
    <3>5. CASE i \notin {1, 2}
      <4>1. i \in 3..Len(b.text)
        BY <3>1, <3>5
      <4>2. t.part \in {"more", "mark"}
        BY <3>1, <3>2, <3>3, <4>1 DEF Lined
      <4> QED BY <2>1, <2>2, <4>2 DEF n
    <3> QED BY <3>4, <3>5
  <2>8. CASE x # k
    <3>1. x \in Joins(bs) /\ BestBody(bs, bs[x]) = n
      BY <2>5 DEF MarkersOf
    <3>2. x \in 1..N /\ Marker(bs[x])
      BY <1>1, <3>1, JoinsTo DEF N
    <3>3. bs[x].id # b.id
      BY <1>3, <2>8, <3>2 DEF Printed, N
    <3>4. bs[x] \in ToSet(bs)
      BY <1>1, <3>2 DEF ToSet
    <3>5. Rivalled(bs, b)
      BY <3>1, <3>2, <3>3, <3>4 DEF Rivalled, n
    <3> QED BY <2>1, <2>2, <3>5 DEF n
  <2> QED BY <2>7, <2>8
<1> QED BY <1>4, <1>5

\* The blocks of a document can be told apart by their text.
LEMMA PartPrinted ==
  ASSUME NEW bs, Orderly(bs), NEW cs, Entries(cs), \A n \in 1..Len(cs) : cs[n] \in ToSet(bs)
  PROVE  Printed(cs)
<1>1. /\ bs \in Seq(Block) /\ DOMAIN bs = 1..Len(bs) /\ Len(bs) \in Nat
      /\ \A k \in 1..Len(bs) : bs[k] \in Block /\ bs[k].id \in Nat
      /\ \A j \in 1..Len(bs), k \in 1..Len(bs) : bs[j].id = bs[k].id => j = k
  BY OrderlyIds
<1>2. \A n \in 1..Len(cs) : \E k \in 1..Len(bs) : cs[n] = bs[k]
  BY <1>1 DEF ToSet
<1>3. \A k \in 1..Len(bs) : Sound(bs[k])
  BY DEF Orderly
<1>4. \A n \in 1..Len(cs) : Sound(cs[n])
  BY <1>2, <1>3
<1>5. cs \in Seq(Block)
  BY DEF Entries
<1>6. ASSUME NEW n \in 1..Len(cs)
      PROVE  Len(cs[n].text) >= 2 /\ Lined(cs[n]) /\ Once(cs[n].text)
  <2> DEFINE c == cs[n]
  <2>1. c \in Block /\ Len(c.text) >= 2 /\ Lined(c) /\ IsInjective(c.text)
    BY <1>4 DEF Sound
  <2> HIDE DEF c
  <2>2. c.text \in Seq(Piece)
    BY <2>1 DEF Block
  <2>3. Once(c.text)
    BY <2>1, <2>2, OnceInjective
  <2> QED BY <2>1, <2>3 DEF c
<1>7. ASSUME NEW j \in 1..Len(bs), NEW k \in 1..Len(bs), j < k
      PROVE  ToSet(bs[j].text) \cap ToSet(bs[k].text) = {}
  <2> DEFINE b == bs[j]
             c == bs[k]
  <2>1. EndsBefore(b, c.id) /\ Sound(b) /\ Sound(c)
    BY <1>7 DEF Orderly
  <2> HIDE DEF b, c
  <2>2. b.text \in Seq(Piece) /\ c.text \in Seq(Piece) /\ c.id \in Nat
    BY <2>1 DEF Sound, Block
  <2>3. DOMAIN b.text = 1..Len(b.text) /\ DOMAIN c.text = 1..Len(c.text)
    BY <2>2
  <2>4. \A t \in ToSet(b.text) : t \in Piece /\ t.of < c.id
    <3>1. \A i \in 1..Len(b.text) : b.text[i] \in Piece
      BY <2>2
    <3>2. \A i \in 1..Len(b.text) : b.text[i].of < c.id
      BY <2>1 DEF EndsBefore
    <3> QED BY <2>3, <3>1, <3>2 DEF ToSet
  <2>5. \A t \in ToSet(c.text) : t \in Piece /\ c.id <= t.of
    <3>1. \A i \in 1..Len(c.text) : c.text[i] \in Piece
      BY <2>2
    <3>2. \A i \in 1..Len(c.text) : c.id <= c.text[i].of
      BY <2>1 DEF Sound
    <3> QED BY <2>3, <3>1, <3>2 DEF ToSet
  <2>6. \A t \in Piece : t.of \in Nat
    BY DEF Piece
  <2>7. ToSet(b.text) \cap ToSet(c.text) = {}
    BY <2>2, <2>4, <2>5, <2>6
  <2> QED BY <2>7 DEF b, c
<1>8. ASSUME NEW i \in 1..Len(cs), NEW h \in 1..Len(cs), i # h
      PROVE  ToSet(cs[i].text) \cap ToSet(cs[h].text) = {} /\ cs[i].id # cs[h].id
  <2>1. PICK j \in 1..Len(bs) : cs[i] = bs[j]
    BY <1>2
  <2>2. PICK k \in 1..Len(bs) : cs[h] = bs[k]
    BY <1>2
  <2>3. cs[i] # cs[h]
    BY <1>8, RisingOnce
  <2>4. j # k
    BY <2>1, <2>2, <2>3
  <2>5. j < k \/ k < j
    BY <1>1, <2>4
  <2>6. ToSet(bs[j].text) \cap ToSet(bs[k].text) = {}
    BY <1>7, <2>5
  <2> QED BY <1>1, <2>1, <2>2, <2>4, <2>6
<1>9. Owned(cs)
  BY <1>5, <1>6, <1>8 DEF Owned
<1>10. Texted(cs)
  BY <1>6 DEF Texted
<1> QED BY <1>6, <1>8, <1>9, <1>10 DEF Printed

\* What the template looks at has the text of the document.
LEMMA ChosenOwned ==
  ASSUME NEW bs, Orderly(bs), InPlace(bs), NEW template
  PROVE  Printed(ContentBlocks(bs)) /\ Owned(Chosen(template, bs))
<1> DEFINE content == ContentBlocks(bs)
           cs == Chosen(template, bs)
<1>1. Entries(content) /\ \A n \in 1..Len(content) : content[n] \in ToSet(bs)
  BY ContentEntries DEF InPlace
<1>2. Printed(content)
  <2> HIDE DEF content
  <2> QED BY <1>1, PartPrinted
<1>3. CASE template = "contract_terms"
  <2>1. cs = RepairMarkers(content)
    BY <1>3 DEF Chosen
  <2> HIDE DEF cs, content
  <2>2. Owned(RepairMarkers(content))
    BY <1>2, RepairedOwned
  <2> QED BY <1>2, <2>1, <2>2 DEF cs, content
<1>4. CASE template # "contract_terms"
  <2>1. Entries(cs) /\ \A n \in 1..Len(cs) : cs[n] \in ToSet(content)
    BY <1>4, ChosenEntries
  <2> HIDE DEF cs, content
  <2>2. \A x \in ToSet(content) : x \in ToSet(bs)
    <3>1. DOMAIN content = 1..Len(content)
      BY <1>1 DEF Entries
    <3> QED BY <1>1, <3>1 DEF ToSet
  <2>3. Printed(cs)
    BY <2>1, <2>2, PartPrinted
  <2> QED BY <1>2, <2>3 DEF Printed, cs, content
<1> QED BY <1>3, <1>4

\* A book has all blocks but for its contents.
LEMMA BookKeeps ==
  ASSUME NEW bs, InPlace(bs), NEW b \in ToSet(ContentBlocks(bs)), b.line # "toc"
  PROVE  b \in ToSet(Chosen("book", bs))
<1> DEFINE content == ContentBlocks(bs)
           P == {n \in DOMAIN content : content[n].line # "toc"}
           S == {c \in Block : c.line # "toc"}
           kept == Only(content, S)
<1>1. Entries(content)
  BY ContentEntries DEF InPlace
<1>2. Chosen("book", bs) = At(content, P)
  BY DEF Chosen
<1> HIDE DEF content
<1>3. content \in Seq(Block) /\ Rising(content)
  BY <1>1 DEF Entries
<1>4. \A n \in DOMAIN content : n \in P <=> content[n] \in S
  BY <1>3
<1>5. b \in ToSet(content) /\ b \in Block
  BY <1>3 DEF content, ToSet
<1>6. b \in ToSet(content) \cap S
  BY <1>5
<1> HIDE DEF P, S, kept
<1>7. At(content, P) = kept
  BY <1>4, AtIsOnly DEF kept
<1>8. kept \in Seq(Block) /\ \E n \in 1..Len(kept) : kept[n] = b
  BY <1>3, <1>6, RisingOnly DEF kept
<1>9. DOMAIN kept = 1..Len(kept)
  BY <1>8
<1>10. b \in ToSet(kept)
  BY <1>8, <1>9 DEF ToSet
<1> QED BY <1>2, <1>7, <1>10

\* Where the children do without the block, the template leaves out the other one on purpose.
SparedFor(c, b) ==
    \A g \in ToSet(GroupsOf(kind, Chosen(kind, blocks))) : c \in Spared(kind, g) => LeftOut(b)
\* A contract does without page junk and clauses of nothing but headings.
LEMMA ContractSpares ==
  ASSUME kind = "contract_terms", NEW c, NEW b, c \in Bare => c = b
  PROVE  SparedFor(c, b)
<1> DEFINE G == ToSet(GroupsOf(kind, Chosen(kind, blocks)))
<1>1. SUFFICES ASSUME NEW g \in G, c \in Spared(kind, g) PROVE LeftOut(b)
  BY DEF SparedFor
<1>2. c \in Block /\ (PageJunk(c) \/ HeadsNothing(c, g))
  BY <1>1 DEF Spared, Unwanted
<1>3. HeadsNothing(c, g) => BareHeading(c)
  BY DEF HeadsNothing
<1>4. c = b
  BY <1>2, <1>3 DEF Bare
<1>5. PageJunk(b) \/ \E h \in G : HeadsNothing(b, h)
  BY <1>1, <1>2, <1>4
<1> QED BY <1>5 DEF LeftOut

\* Every piece of text that the template looks at has a block that its children may hold.
LEMMA ChosenHolds ==
  ASSUME Orderly(blocks), InPlace(blocks), NEW b \in ToSet(Looked), NEW t \in ToSet(b.text)
  PROVE  \/ \E c \in ToSet(Chosen(kind, blocks)) : t \in ToSet(c.text) /\ SparedFor(c, b)
         \/ LeftOut(b) \/ Outbid(b)
         \/ Rejoined(b) /\ t.part \in {"more", "mark"}
<1> DEFINE cs == Chosen(kind, blocks)
<1>1. CASE kind = "contract_terms"
  <2>1. cs = RepairMarkers(Looked)
    BY <1>1 DEF Chosen, Looked
  <2>2. Printed(Looked)
    BY ChosenOwned DEF Looked
  <2> HIDE DEF cs, Looked
  <2>5. \/ \E c \in ToSet(RepairMarkers(Looked)) : t \in ToSet(c.text) /\ (c \in Bare => c = b)
        \/ /\ Marker(b) /\ BestBody(Looked, b) # 0
           /\ t.part \in {"more", "mark"} \/ Rivalled(Looked, b)
    BY <2>2, RepairedHolds
  <2>6. CASE \E c \in ToSet(RepairMarkers(Looked)) : t \in ToSet(c.text) /\ (c \in Bare => c = b)
    <3>1. PICK c \in ToSet(RepairMarkers(Looked)) : t \in ToSet(c.text) /\ (c \in Bare => c = b)
      BY <2>6
    <3>2. SparedFor(c, b)
      BY <1>1, <3>1, ContractSpares
    <3>3. c \in ToSet(cs)
      BY <2>1, <3>1
    <3> QED BY <3>1, <3>2, <3>3 DEF cs
  <2>7. CASE Marker(b) /\ BestBody(Looked, b) # 0 /\ (t.part \in {"more", "mark"} \/ Rivalled(Looked, b))
    <3>1. Rejoined(b)
      BY <1>1, <2>7 DEF Rejoined
    <3>2. Rivalled(Looked, b) => Outbid(b)
      BY <3>1 DEF Rivalled, Outbid
    <3> QED BY <2>7, <3>1, <3>2
  <2> QED BY <2>5, <2>6, <2>7
<1>2. CASE kind = "book"
  <2>1. b.line = "toc" => LeftOut(b)
    BY <1>2 DEF LeftOut
  <2>2. b.line # "toc" => b \in ToSet(cs)
    BY <1>2, BookKeeps DEF Looked
  <2>3. SparedFor(b, b)
    BY <1>2 DEF SparedFor, Spared
  <2> HIDE DEF cs, Looked, LeftOut
  <2> QED BY <2>1, <2>2, <2>3 DEF cs
<1>3. CASE kind \notin {"book", "contract_terms"}
  <2>1. cs = Looked
    BY <1>3 DEF Chosen, Looked
  <2>2. SparedFor(b, b)
    <3>1. CASE kind = "qa"
      <4>1. b \in Categories => LeftOut(b)
        BY <3>1 DEF Categories, LeftOut
      <4> HIDE DEF LeftOut
      <4> QED BY <3>1, <4>1 DEF SparedFor, Spared
    <3>2. CASE kind # "qa"
      BY <1>3, <3>2 DEF SparedFor, Spared
    <3> QED BY <3>1, <3>2
  <2> HIDE DEF cs, Looked, LeftOut
  <2> QED BY <2>1, <2>2 DEF cs
<1> QED BY <1>1, <1>2, <1>3

\* What is drawn from a sequence is of it.
LEMMA UptoWithin ==
  ASSUME NEW cs \in Seq(Block), NEW g \in Upto(cs, Len(cs))
  PROVE  ToSet(g) \subseteq ToSet(cs)
<1>1. DOMAIN g = 1..Len(g) /\ DOMAIN cs = 1..Len(cs)
  BY DEF Upto
<1>2. \A i \in 1..Len(g) : \E j \in 1..Len(cs) : g[i] = cs[j]
  BY DEF Upto
<1>3. ASSUME NEW x \in ToSet(g) PROVE x \in ToSet(cs)
  <2>1. PICK i \in 1..Len(g) : x = g[i]
    BY <1>1, <1>3 DEF ToSet
  <2>2. PICK j \in 1..Len(cs) : g[i] = cs[j]
    BY <1>2
  <2> QED BY <1>1, <2>1, <2>2 DEF ToSet
<1> QED BY <1>3

\* The blocks of a row are those of its drafts, from their group.
LEMMA RowPieces ==
  ASSUME NEW groups, NEW drafts, NEW U, NEW rows, Rows(groups, drafts, U, rows),
         NEW cs, NEW strict, PackageOf(cs, groups, drafts, strict), NEW k \in 1..Len(rows)
  PROVE  /\ BlocksOf(rows[k]) = BlocksOf(drafts[k])
         /\ BlocksOf(drafts[k]) \in Seq(Block) /\ Once(BlocksOf(drafts[k]))
         /\ ToSet(BlocksOf(drafts[k])) \subseteq ToSet(groups[k].blocks)
         /\ ToSet(groups[k].blocks) \subseteq ToSet(cs)
         /\ rows[k] \in Seq(U) /\ \A j \in 1..Len(rows[k]) : rows[k][j].blocks \in Seq(Block)
<1> DEFINE r == rows[k]
           d == drafts[k]
           g == groups[k].blocks
           T == Goods(groups[k].title)
           placed == BlocksOf(d)
<1>1. /\ r \in Seq(U) /\ Len(r) = Len(d) /\ k \in 1..Len(groups)
      /\ \A j \in 1..Len(r) : r[j].blocks = d[j].blocks
  BY DEF Rows
<1>2. d \in Seq(T) /\ placed \in Upto(g, Len(g))
  BY <1>1 DEF PackageOf, Whole
<1>3. g \in Upto(cs, Len(cs)) /\ cs \in Seq(Block)
  BY <1>1 DEF PackageOf, Filed, Entries
<1>4. d \in Seq(Draft)
  <2> DEFINE W == Draft
  <2>1. T \subseteq W
    BY DEF Goods
  <2> HIDE DEF T, W, d
  <2>2. d \in Seq(W)
    BY <1>2, <2>1
  <2> QED BY <2>2 DEF W
<1> HIDE DEF r, d, g, T
<1>5. BlocksOf(r) = placed
  BY <1>1, <1>4, SameBlocks
<1>6. \A j \in 1..Len(r) : r[j].blocks \in Seq(Block)
  <2> DEFINE W == Seq(Block)
  <2>1. \A x \in Draft : x.blocks \in W
    BY DEF Draft
  <2>2. \A j \in 1..Len(d) : d[j] \in Draft
    BY <1>4
  <2> HIDE DEF W
  <2>3. \A j \in 1..Len(r) : r[j].blocks \in W
    BY <1>1, <2>1, <2>2
  <2> QED BY <2>3 DEF W
<1> HIDE DEF placed
<1>7. placed \in Seq(Block) /\ g \in Seq(Block) /\ Rising(placed)
  BY <1>2, <1>3 DEF Upto
<1>9. ToSet(placed) \subseteq ToSet(g) /\ ToSet(g) \subseteq ToSet(cs)
  BY <1>2, <1>3, <1>7, UptoWithin
<1>10. Once(placed)
  <2>1. ASSUME NEW i \in 1..Len(placed), NEW j \in 1..Len(placed), placed[i] = placed[j] PROVE i = j
    <3>1. placed[i] \in Block
      BY <1>7
    <3>2. ~Precedes(placed[i], placed[i])
      BY <3>1, PrecedesOrders
    <3>3. ~(i < j) /\ ~(j < i)
      BY <1>7, <2>1, <3>2 DEF Rising
    <3>4. i \in Int /\ j \in Int
      BY <2>1
    <3> QED BY <3>3, <3>4
  <2> QED BY <2>1 DEF Once
<1> QED BY <1>1, <1>5, <1>6, <1>7, <1>9, <1>10 DEF r, d, g, placed

\* The blocks of all children
LEMMA AllBlocks ==
  ASSUME NEW groups, NEW drafts, NEW U, NEW rows, Rows(groups, drafts, U, rows),
         NEW cs, NEW strict, PackageOf(cs, groups, drafts, strict), NEW all, all = FlattenSeq(rows)
  PROVE  /\ BlocksOf(all) \in Seq(Block) /\ ToSet(BlocksOf(all)) \subseteq ToSet(cs)
         /\ strict => Once(BlocksOf(all))
         /\ \A k \in 1..Len(groups) : ToSet(BlocksOf(drafts[k])) \subseteq ToSet(BlocksOf(all))
<1>20. ASSUME NEW k \in 1..Len(rows)
       PROVE  /\ BlocksOf(rows[k]) = BlocksOf(drafts[k])
              /\ BlocksOf(drafts[k]) \in Seq(Block) /\ Once(BlocksOf(drafts[k]))
              /\ ToSet(BlocksOf(drafts[k])) \subseteq ToSet(groups[k].blocks)
              /\ ToSet(groups[k].blocks) \subseteq ToSet(cs)
              /\ rows[k] \in Seq(U) /\ \A j \in 1..Len(rows[k]) : rows[k][j].blocks \in Seq(Block)
  BY RowPieces
<1> DEFINE N == Len(rows)
           A == {u \in U : u.blocks \in Seq(Block)}
           W == Seq(A)
           L == [k \in 1..N |-> BlocksOf(rows[k])]
<1>1. N \in Nat /\ Len(groups) = N /\ rows \in Seq(Seq(U))
  BY DEF Rows
<1>2. rows = [k \in 1..N |-> rows[k]]
  <2> DEFINE V == Seq(U)
  <2>1. rows \in Seq(V)
    BY <1>1
  <2> HIDE DEF V
  <2> QED BY <2>1
<1>3. ASSUME NEW k \in 1..N PROVE rows[k] \in W
  <2> DEFINE r == rows[k]
  <2>1. r \in Seq(U) /\ \A j \in 1..Len(r) : r[j].blocks \in Seq(Block)
    BY <1>20
  <2> HIDE DEF r
  <2>2. r = [j \in 1..Len(r) |-> r[j]] /\ Len(r) \in Nat /\ \A j \in 1..Len(r) : r[j] \in U
    BY <2>1
  <2>3. \A j \in 1..Len(r) : r[j] \in A
    BY <2>1, <2>2
  <2> HIDE DEF A
  <2>4. r \in Seq(A)
    BY <2>2, <2>3, ListType
  <2> QED BY <2>4 DEF r
<1>4. Blocky(A)
  BY DEF Blocky
<1> HIDE DEF A
<1>5. rows \in Seq(Seq(A))
  <2> HIDE DEF W
  <2>1. rows \in Seq(W)
    BY <1>1, <1>2, <1>3, ListType
  <2> QED BY <2>1 DEF W
<1>6. L \in Seq(Seq(Block)) /\ BlocksOf(all) = FlattenSeq(L)
  <2>1. /\ [k \in 1..Len(rows) |-> BlocksOf(rows[k])] \in Seq(Seq(Block))
        /\ BlocksOf(FlattenSeq(rows)) = FlattenSeq([k \in 1..Len(rows) |-> BlocksOf(rows[k])])
    BY <1>4, <1>5, BlocksFlatten
  <2> QED BY <2>1
<1>7. Len(L) = N
  <2>1. L = [k \in 1..N |-> L[k]]
    OBVIOUS
  <2> HIDE DEF L
  <2> QED BY <1>1, <2>1, FunctionLen
<1>8. ASSUME NEW k \in 1..N
      PROVE  /\ L[k] = BlocksOf(drafts[k]) /\ Once(L[k])
             /\ ToSet(L[k]) \subseteq ToSet(groups[k].blocks)
             /\ ToSet(groups[k].blocks) \subseteq ToSet(cs)
  <2>1. L[k] = BlocksOf(rows[k])
    OBVIOUS
  <2>2. /\ BlocksOf(rows[k]) = BlocksOf(drafts[k])
        /\ BlocksOf(drafts[k]) \in Seq(Block) /\ Once(BlocksOf(drafts[k]))
        /\ ToSet(BlocksOf(drafts[k])) \subseteq ToSet(groups[k].blocks)
        /\ ToSet(groups[k].blocks) \subseteq ToSet(cs)
    BY <1>20
  <2> HIDE DEF L
  <2> QED BY <2>1, <2>2
<1> HIDE DEF L, N
<1>9. BlocksOf(all) \in Seq(Block) /\ Origins(BlocksOf(all), L) /\ (Disjoint(L) => Once(BlocksOf(all)))
  <2>1. Origins(FlattenSeq(L), L) /\ (Disjoint(L) => Once(FlattenSeq(L))) /\ FlattenSeq(L) \in Seq(Block)
    BY <1>6, FlattenOnce, FlattenType
  <2> QED BY <1>6, <2>1
<1>10. ToSet(BlocksOf(all)) \subseteq ToSet(cs)
  BY <1>7, <1>8, <1>9 DEF Origins
<1>11. ASSUME strict PROVE Once(BlocksOf(all))
  <2>1. Parted(groups)
    BY <1>11 DEF PackageOf, Filed
  <2>2. \A j, k \in 1..N : j # k => ToSet(groups[j].blocks) \cap ToSet(groups[k].blocks) = {}
    BY <1>1, <2>1 DEF Parted
  <2>3. \A j, k \in 1..N : j # k => ToSet(L[j]) \cap ToSet(L[k]) = {}
    BY <1>8, <2>2
  <2>4. Disjoint(L)
    BY <1>7, <1>8, <2>3 DEF Disjoint
  <2> QED BY <1>9, <2>4
<1>12. ASSUME NEW k \in 1..N PROVE ToSet(BlocksOf(drafts[k])) \subseteq ToSet(BlocksOf(all))
  <2>1. ASSUME NEW x \in ToSet(L[k]) PROVE x \in ToSet(FlattenSeq(L))
    <3> DEFINE T == Block
    <3>1. L \in Seq(Seq(T)) /\ k \in 1..Len(L)
      BY <1>6, <1>7
    <3> HIDE DEF T
    <3> QED BY <2>1, <3>1, FlattenHas
  <2> QED BY <1>6, <1>8, <2>1
<1> QED BY <1>1, <1>9, <1>10, <1>11, <1>12

\* TextPlaced (base.py and the template chunkers): every piece of text of the document is in a child
\* or is left out for a reason, and it is there once.
THEOREM TextAlwaysPlaced == Spec => []TextPlaced
<1>1. ASSUME ChunkingInv PROVE TextPlaced
  <2> DEFINE texts == FlattenSeq([k \in DOMAIN BlocksOf(children) |-> BlocksOf(children)[k].text])
  <2>1. SUFFICES ASSUME stage = "done"
                 PROVE  /\ IsInjective(texts) \/ Clash
                        /\ \A b \in ToSet(Looked) : \A t \in ToSet(b.text) :
                               \/ t \in ToSet(texts)
                               \/ LeftOut(b) \/ Outbid(b)
                               \/ Rejoined(b) /\ t.part \in {"more", "mark"}
    BY DEF TextPlaced
  <2>2. PICK groups, drafts :
            /\ PackageOf(Chosen(kind, blocks), groups, drafts, ~Clash)
            /\ Covering(kind, groups, drafts)
            /\ groups = GroupsOf(kind, Chosen(kind, blocks))
            /\ parents = Packed(FamiliesOf(groups, drafts), blocks).parents
            /\ children = Packed(FamiliesOf(groups, drafts), blocks).children
    BY <1>1, <2>1, PackageDone
  <2> DEFINE cs == Chosen(kind, blocks)
             s == BlocksOf(children)
  <2>3. groups \in Seq(Obj) /\ Somewhere(groups, cs) /\ cs \in Seq(Block)
        /\ \A k \in 1..Len(groups) : groups[k].blocks \in Seq(Block)
    BY <2>2 DEF PackageOf, Filed, Entries, Upto
  <2>4. children = InContext(FlattenSeq(Kin(groups, drafts)), blocks)
    <3> HIDE DEF cs, s, texts
    <3>1. groups \in Seq(Obj)
      BY <2>3
    <3>2. LET made == Packed(FamiliesOf(groups, drafts), blocks)
          IN  /\ made.children = InContext(FlattenSeq(Kin(groups, drafts)), blocks)
              /\ made.parents = [k \in 1..Len(groups) |-> made.parents[k]]
                 /\ Len(made.parents) = Len(groups)
              /\ \A k \in 1..Len(groups) :
                    LET p == made.parents[k]
                    IN  /\ p.id = groups[k].key /\ p.title = groups[k].title
                        /\ p.blocks = IdSet(groups[k].blocks) /\ p.kids = IdsOf(Kin(groups, drafts)[k])
      BY <3>1, PackedParts
    <3> QED BY <2>2, <3>2
  <2>5. PICK U, rows : Rows(groups, drafts, U, rows) /\ children = FlattenSeq(rows)
    BY <2>2, <2>4, RowsMade
  <2>6. Orderly(blocks) /\ InPlace(blocks)
    BY <1>1, <2>1, BlocksOrderly, DocumentInPlace
  <2>7. Owned(cs)
    BY <2>6, ChosenOwned
  <2>8. /\ s \in Seq(Block) /\ ToSet(s) \subseteq ToSet(cs)
        /\ ~Clash => Once(s)
        /\ \A k \in 1..Len(groups) : ToSet(BlocksOf(drafts[k])) \subseteq ToSet(s)
    BY <2>2, <2>5, AllBlocks
  <2>9. texts = FlattenSeq([k \in DOMAIN s |-> s[k].text])
    OBVIOUS
  <2> HIDE DEF cs, s, texts, Clash, Looked, LeftOut, Outbid, Rejoined
  <2>10. ASSUME ~Clash PROVE IsInjective(texts)
    <3>1. Once(FlattenSeq([k \in DOMAIN s |-> s[k].text]))
      BY <2>7, <2>8, <2>10, TextsOnce
    <3>2. FlattenSeq([k \in DOMAIN s |-> s[k].text]) \in Seq(Piece)
      <4>1. [k \in DOMAIN s |-> s[k].text] \in Seq(Seq(Piece))
        BY <2>8, TextsType
      <4> QED BY <4>1, FlattenType
    <3>3. texts \in Seq(Piece) /\ Once(texts)
      BY <2>9, <3>1, <3>2
    <3> QED BY <3>3, OnceInjective
  <2>11. ASSUME NEW c \in ToSet(cs), NEW b, SparedFor(c, b), NEW t \in ToSet(c.text)
         PROVE  t \in ToSet(texts) \/ LeftOut(b)
    <3>1. PICK i \in 1..Len(cs) : c = cs[i]
      BY <2>3 DEF ToSet
    <3>2. PICK k \in 1..Len(groups) : c \in ToSet(groups[k].blocks)
      BY <2>3, <3>1 DEF Somewhere
    <3>3. PICK j \in 1..Len(groups[k].blocks) : c = groups[k].blocks[j]
      BY <2>3, <3>2 DEF ToSet
    <3>4. c \in Spared(kind, groups[k]) \/ c \in ToSet(BlocksOf(drafts[k]))
      <4>1. Covered(Spared(kind, groups[k]), groups[k], drafts[k])
        BY <2>2 DEF Covering
      <4> QED BY <3>3, <4>1 DEF Covered
    <3>5. CASE c \in Spared(kind, groups[k])
      <4>1. DOMAIN groups = 1..Len(groups)
        BY <2>3
      <4>2. groups[k] \in ToSet(groups)
        BY <4>1 DEF ToSet
      <4>3. groups[k] \in ToSet(GroupsOf(kind, Chosen(kind, blocks)))
        BY <2>2, <4>2
      <4> QED BY <2>11, <3>5, <4>3 DEF SparedFor
    <3>6. CASE c \in ToSet(BlocksOf(drafts[k]))
      <4>1. c \in ToSet(s)
        BY <2>8, <3>6
      <4>2. t \in ToSet(FlattenSeq([n \in DOMAIN s |-> s[n].text]))
        BY <2>8, <2>11, <4>1, TextsHave
      <4> QED BY <2>9, <4>2
    <3> QED BY <3>4, <3>5, <3>6
  <2>12. ASSUME NEW b \in ToSet(Looked), NEW t \in ToSet(b.text)
         PROVE  \/ t \in ToSet(texts)
                \/ LeftOut(b) \/ Outbid(b)
                \/ Rejoined(b) /\ t.part \in {"more", "mark"}
    <3>1. \/ \E c \in ToSet(cs) : t \in ToSet(c.text) /\ SparedFor(c, b)
          \/ LeftOut(b) \/ Outbid(b)
          \/ Rejoined(b) /\ t.part \in {"more", "mark"}
      BY <2>6, ChosenHolds DEF cs
    <3> QED BY <2>11, <3>1
  <2> QED BY <2>10, <2>12
<1> QED
  BY <1>1, ChunkingInvAlways, PTL
===============================================================================
