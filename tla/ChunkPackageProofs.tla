-------------------------- MODULE ChunkPackageProofs --------------------------
(***************************************************************************)
(* Passing is an invariant of module ChunkPackage, and so are the           *)
(* properties it implies; each iteration leaves less to do.  For any shapes *)
(* of children, numbers of them and limits.                                 *)
(*                                                                          *)
(* The first part is about the operators of modules Texts and ChunkPackage, *)
(* for any text, list of chunks and sizes: cutting a text into parts loses  *)
(* nothing of it, and taking, replacing, joining and splitting chunks of a  *)
(* list keeps the chunks well formed and in order, the document's text and  *)
(* its media, and the agreement of parents and children.                    *)
(*                                                                          *)
(* Facts about a list are facts about what is around the place of an edit:  *)
(* Glued(cs, a, q, c) says that cs is a, then q, then c.                    *)
(***************************************************************************)
EXTENDS ChunkPackageInvariant, ListProofs

(***************************************************************************)
(* Texts cut into parts                                                     *)
(***************************************************************************)
\* The last part of a cut text, and one more token.
LEMMA LastExtended ==
  ASSUME NEW parts \in Seq(Text), parts # <<>>, NEW x \in Token
  PROVE  LET more == [parts EXCEPT ![Len(parts)] = Append(@, x)]
         IN  \E front \in Seq(Text), w \in Text :
                /\ parts = Append(front, w)
                /\ more = Append(front, Append(w, x))
                /\ Append(w, x) \in Text
<1> DEFINE more == [parts EXCEPT ![Len(parts)] = Append(@, x)]
<1>1. PICK front \in Seq(Text), w \in Text : parts = Append(front, w)
  BY SequenceEmptyOrAppend
<1> DEFINE N == Len(front)
           v == Append(w, x)
<1>2. v \in Text
  BY DEF Text
<1>3. Len(parts) = N + 1 /\ N \in Nat /\ parts[N + 1] = w /\ \A n \in 1..N : parts[n] = front[n]
  BY <1>1
<1>4. more = [n \in 1..(N + 1) |-> IF n = N + 1 THEN v ELSE parts[n]]
  <2>1. DOMAIN parts = 1..(N + 1)
    BY <1>3
  <2> QED BY <1>3, <2>1
<1>5. /\ Append(front, v) \in Seq(Text) /\ Len(Append(front, v)) = N + 1
      /\ Append(front, v)[N + 1] = v /\ \A n \in 1..N : Append(front, v)[n] = front[n]
  <2> HIDE DEF v
  <2> QED BY <1>2, AppendProperties
<1> DEFINE u == Append(front, v)
<1>6. u = [n \in 1..(N + 1) |-> u[n]]
  <2>1. u \in Seq(Text) /\ Len(u) = N + 1
    BY <1>5
  <2> HIDE DEF u, N
  <2> QED BY <2>1
<1>7. \A n \in 1..(N + 1) : n \in 1..N \/ n = N + 1
  BY <1>3
<1>8. \A n \in 1..(N + 1) : u[n] = IF n = N + 1 THEN v ELSE parts[n]
  BY <1>3, <1>5, <1>7
<1> HIDE DEF u, N, v, more
<1>9. more = u
  BY <1>4, <1>6, <1>8
<1> QED BY <1>1, <1>2, <1>9 DEF u, v, more

\* The steps of Cut.
CutStep(text, P) ==
    [k \in DOMAIN text |->
        [parts \in Seq(Text) |->
            IF parts = <<>> \/ k \in P THEN Append(parts, <<text[k]>>)
            ELSE [parts EXCEPT ![Len(parts)] = Append(@, text[k])]]]

\* Cut is a fold: its steps keep the type.
LEMMA CutSteps ==
  ASSUME NEW text \in Text, NEW P
  PROVE  /\ Steps(CutStep(text, P), Len(text), Seq(Text))
         /\ Cut(text, P) = Folded(<<>>, CutStep(text, P))
<1>1. /\ Len(text) \in Nat /\ DOMAIN text = 1..Len(text) /\ \A k \in DOMAIN text : text[k] \in Token
  BY DEF Text
<1>2. ASSUME NEW k \in DOMAIN text, NEW parts \in Seq(Text)
      PROVE  (IF parts = <<>> \/ k \in P THEN Append(parts, <<text[k]>>)
              ELSE [parts EXCEPT ![Len(parts)] = Append(@, text[k])]) \in Seq(Text)
  <2>1. <<text[k]>> \in Text
    BY <1>1 DEF Text
  <2>2. Append(parts, <<text[k]>>) \in Seq(Text)
    <3> HIDE DEF Text
    <3> QED BY <2>1, AppendProperties
  <2>3. parts # <<>> => [parts EXCEPT ![Len(parts)] = Append(@, text[k])] \in Seq(Text)
    <3>1. ASSUME parts # <<>> PROVE [parts EXCEPT ![Len(parts)] = Append(@, text[k])] \in Seq(Text)
      <4>1. PICK front \in Seq(Text), w \in Text :
               /\ [parts EXCEPT ![Len(parts)] = Append(@, text[k])] = Append(front, Append(w, text[k]))
               /\ Append(w, text[k]) \in Text
        BY <1>1, <3>1, LastExtended
      <4>2. Append(front, Append(w, text[k])) \in Seq(Text)
        BY <4>1, AppendProperties
      <4> QED BY <4>1, <4>2
    <3> QED BY <3>1
  <2> QED BY <2>2, <2>3
<1> DEFINE V == Seq(Text)
<1>3. CutStep(text, P) \in [1..Len(text) -> [V -> V]]
  BY <1>1, <1>2 DEF CutStep
<1> QED BY <1>1, <1>3 DEF Steps, Cut, CutStep

\* Nothing is lost, and each part is one of G when a token alone is, and when one stays one
\* until it is cut.
LEMMA CutParts ==
  ASSUME NEW text \in Text, NEW P, NEW G \in SUBSET Text,
         \A k \in DOMAIN text : /\ <<text[k]>> \in G
                                /\ k \notin P => \A w \in G : Append(w, text[k]) \in G
  PROVE  Cut(text, P) \in Seq(G) /\ FlattenSeq(Cut(text, P)) = text
<1> DEFINE V == Seq(Text)
           N == Len(text)
           step == CutStep(text, P)
           Good(parts, n) == parts \in Seq(G) /\ FlattenSeq(parts) = SubSeq(text, 1, n)
           Q == [n \in 0..N |-> {parts \in V : Good(parts, n)}]
<1>1. Steps(step, N, V) /\ Cut(text, P) = Folded(<<>>, step)
  BY CutSteps
<1>2. <<>> \in V /\ <<>> \in Q[0] /\ N \in Nat
  <2>1. N \in Nat /\ SubSeq(text, 1, 0) = <<>>
    BY DEF Text
  <2>2. Good(<<>>, 0)
    <3>1. <<>> \in Seq(G)
      OBVIOUS
    <3>2. FlattenSeq(<<>>) = SubSeq(text, 1, 0)
      BY <2>1, FlattenEmpty, Zenon
    <3> QED BY <3>1, <3>2, Zenon
  <2>3. <<>> \in V
    OBVIOUS
  <2> HIDE DEF Good
  <2> QED BY <2>1, <2>2, <2>3
<1>3. ASSUME NEW n \in 1..N, NEW v \in V, v \in Q[n - 1] PROVE step[n][v] \in Q[n]
  <2>1. n \in DOMAIN text /\ text[n] \in Token /\ n \in 0..N /\ n - 1 \in 0..N
    BY DEF Text
  <2>2. v \in Seq(G) /\ FlattenSeq(v) = SubSeq(text, 1, n - 1)
    <3> HIDE DEF Good
    <3>1. Good(v, n - 1)
      BY <1>3, <2>1
    <3> QED BY <3>1 DEF Good
  <2>3. SubSeq(text, 1, n) = Append(SubSeq(text, 1, n - 1), text[n])
    BY DEF Text
  <2> DEFINE x == text[n]
             r == step[n][v]
  <2>4. r = IF v = <<>> \/ n \in P THEN Append(v, <<x>>)
            ELSE [v EXCEPT ![Len(v)] = Append(@, x)]
    BY <2>1 DEF CutStep
  <2>5. <<x>> \in G /\ (n \notin P => \A w \in G : Append(w, x) \in G)
    BY <2>1
  <2>6. SubSeq(text, 1, n - 1) \in Text
    BY DEF Text
  <2>7. ASSUME NEW s \in Text PROVE s \o <<x>> = Append(s, x)
    BY <2>1 DEF Text
  <2> DEFINE one == <<x>>
  <2>8. CASE v = <<>> \/ n \in P
    <3>1. r = Append(v, one)
      BY <2>4, <2>8
    <3>2. one \in G /\ one \in Text
      BY <2>5
    <3> HIDE DEF r, one
    <3>3. Append(v, one) \in Seq(G)
      BY <2>2, <3>2, AppendProperties
    <3>4. FlattenSeq(Append(v, one)) = FlattenSeq(v) \o one
      BY <3>2, FlattenAppend DEF Text
    <3>5. FlattenSeq(r) = SubSeq(text, 1, n)
      BY <2>2, <2>3, <2>6, <2>7, <3>1, <3>4 DEF one
    <3>6. r \in V /\ Good(r, n)
      <4>1. r \in Seq(Text)
        BY <3>1, <3>2, AppendProperties
      <4> QED BY <3>1, <3>3, <3>5, <4>1
    <3> HIDE DEF Good, V
    <3> QED BY <2>1, <3>6 DEF r
  <2>9. CASE ~(v = <<>> \/ n \in P)
    <3>1. PICK front \in Seq(Text), w \in Text :
               /\ v = Append(front, w)
               /\ [v EXCEPT ![Len(v)] = Append(@, x)] = Append(front, Append(w, x))
               /\ Append(w, x) \in Text
      BY <2>1, <2>9, LastExtended
    <3> DEFINE wx == Append(w, x)
    <3>2. r = Append(front, wx)
      BY <2>4, <2>9, <3>1
    <3>3. front \in Seq(G) /\ w \in G
      <4>1. Len(v) = Len(front) + 1 /\ v[Len(front) + 1] = w /\ \A i \in 1..Len(front) : v[i] = front[i]
        BY <3>1
      <4>2. Len(front) \in Nat /\ \A i \in 1..Len(v) : v[i] \in G
        BY <2>2, <3>1
      <4>3. w \in G
        BY <4>1, <4>2
      <4>4. \A i \in 1..Len(front) : front[i] \in G
        BY <4>1, <4>2
      <4> QED BY <4>2, <4>3, <4>4
    <3>4. wx \in G /\ wx \in Text
      BY <2>5, <2>9, <3>1, <3>3
    <3> HIDE DEF r, wx
    <3>5. Append(front, wx) \in Seq(G)
      BY <3>3, <3>4, AppendProperties
    <3>6. FlattenSeq(Append(front, wx)) = FlattenSeq(front) \o wx /\ FlattenSeq(front) \in Text
      BY <3>4, FlattenAppend DEF Text
    <3>7. FlattenSeq(v) = FlattenSeq(front) \o w
      BY <3>1, FlattenAppend DEF Text
    <3>8. ASSUME NEW s \in Text PROVE s \o wx = Append(s \o w, x)
      BY <2>1 DEF wx, Text
    <3>9. FlattenSeq(r) = SubSeq(text, 1, n)
      BY <2>2, <2>3, <3>2, <3>6, <3>7, <3>8
    <3>10. r \in V /\ Good(r, n)
      <4>1. r \in Seq(Text)
        BY <3>2, <3>4, AppendProperties
      <4> QED BY <3>2, <3>5, <3>9, <4>1
    <3> HIDE DEF Good, V
    <3> QED BY <2>1, <3>10 DEF r
  <2> QED BY <2>8, <2>9
<1>4. Folded(<<>>, step) \in V \cap Q[N]
  <2> HIDE DEF V, Q, step, N
  <2> QED BY <1>1, <1>2, <1>3, FoldedInvariant
<1>5. Good(Cut(text, P), N)
  <2> HIDE DEF Good, V, step
  <2> QED BY <1>1, <1>2, <1>4
<1>6. SubSeq(text, 1, N) = text
  BY SubSeqFull DEF Text
<1> QED BY <1>5, <1>6


\* A word: nothing but its first token has a space before it.
OneWord(w) == w # <<>> /\ \A k \in 2..Len(w) : ~w[k].gap
Word == {w \in Text : OneWord(w)}

\* Cutting at spaces gives words, and loses nothing.
LEMMA WordsAreWords ==
  ASSUME NEW text \in Text
  PROVE  Words(text) \in Seq(Word) /\ FlattenSeq(Words(text)) = text
<1> DEFINE P == {k \in DOMAIN text : text[k].gap}
<1>1. ASSUME NEW k \in DOMAIN text PROVE <<text[k]>> \in Word
  BY DEF Word, OneWord, Text
<1>2. ASSUME NEW k \in DOMAIN text, k \notin P, NEW w \in Word PROVE Append(w, text[k]) \in Word
  <2>1. text[k] \in Token /\ ~text[k].gap
    BY <1>2 DEF Text
  <2> DEFINE v == Append(w, text[k])
  <2>2. v \in Text /\ Len(v) = Len(w) + 1 /\ Len(w) \in Nat /\ v[Len(w) + 1] = text[k]
        /\ \A i \in 1..Len(w) : v[i] = w[i]
    BY <2>1 DEF Word, Text
  <2>3. ASSUME NEW i \in 2..Len(v) PROVE ~v[i].gap
    <3>1. i \in 2..Len(w) \/ i = Len(w) + 1
      BY <2>2
    <3> QED BY <2>1, <2>2, <3>1 DEF Word, OneWord
  <2>4. v # <<>>
    BY <2>2
  <2> HIDE DEF v
  <2> QED BY <2>2, <2>3, <2>4 DEF Word, OneWord, v
<1>3. Word \in SUBSET Text
  BY DEF Word
<1> HIDE DEF P
<1>4. Cut(text, P) \in Seq(Word) /\ FlattenSeq(Cut(text, P)) = text
  BY <1>1, <1>2, <1>3, CutParts
<1> QED BY <1>4 DEF P, Words

\* Cutting into paragraphs and sentences loses nothing.
LEMMA UnitsAreTexts ==
  ASSUME NEW text \in Text
  PROVE  Units(text) \in Seq(Text) /\ FlattenSeq(Units(text)) = text
<1> DEFINE P == {k \in 2..Len(text) : \/ ParagraphEnds(text[k - 1], text[k])
                                     \/ SentenceEnds(text[k - 1], text[k])}
<1>1. ASSUME NEW k \in DOMAIN text
      PROVE  /\ <<text[k]>> \in Text
             /\ k \notin P => \A w \in Text : Append(w, text[k]) \in Text
  BY DEF Text
<1> HIDE DEF P
<1>2. Cut(text, P) \in Seq(Text) /\ FlattenSeq(Cut(text, P)) = text
  BY <1>1, CutParts
<1> QED BY <1>2 DEF P, Units

\* Words does not cut a word.
LEMMA OneWordIsOne ==
  ASSUME NEW w \in Word
  PROVE  Len(Words(w)) = 1
<1> DEFINE P == {k \in DOMAIN w : w[k].gap}
           V == Seq(Text)
           N == Len(w)
           step == CutStep(w, P)
           Q == [n \in 0..N |-> {parts \in V : Len(parts) = IF n = 0 THEN 0 ELSE 1}]
<1>0. w \in Text /\ N \in Nat \ {0} /\ DOMAIN w = 1..N /\ \A k \in 2..N : k \notin P
  BY DEF Word, OneWord, Text
<1>1. Steps(step, N, V) /\ Cut(w, P) = Folded(<<>>, step)
  BY <1>0, CutSteps
<1>2. <<>> \in V /\ <<>> \in Q[0]
  BY <1>0
<1>3. ASSUME NEW n \in 1..N, NEW v \in V, v \in Q[n - 1] PROVE step[n][v] \in Q[n]
  <2>1. n \in DOMAIN w /\ w[n] \in Token /\ n \in 0..N /\ n - 1 \in 0..N /\ n # 0
    BY <1>0 DEF Text
  <2>2. Len(v) = IF n - 1 = 0 THEN 0 ELSE 1
    BY <1>3, <2>1
  <2> DEFINE x == w[n]
             r == step[n][v]
  <2>3. r = IF v = <<>> \/ n \in P THEN Append(v, <<x>>)
            ELSE [v EXCEPT ![Len(v)] = Append(@, x)]
    BY <2>1 DEF CutStep
  <2>4. r \in V
    <3>1. step[n] \in [V -> V]
      BY <1>1 DEF Steps
    <3> HIDE DEF step, V
    <3> QED BY <3>1
  <2>5. Len(r) = 1
    <3>1. CASE n = 1
      <4>1. v = <<>>
        BY <2>2, <3>1
      <4>2. r = Append(v, <<x>>)
        BY <2>3, <4>1
      <4> HIDE DEF r
      <4> QED BY <4>1, <4>2
    <3>2. CASE n # 1
      <4>1. v # <<>> /\ n \notin P /\ Len(v) = 1
        BY <1>0, <2>2, <3>2
      <4>2. r = [v EXCEPT ![Len(v)] = Append(@, x)]
        BY <2>3, <4>1
      <4> HIDE DEF r
      <4> QED BY <4>1, <4>2, <2>4
    <3> QED BY <3>1, <3>2
  <2> HIDE DEF r, V
  <2> QED BY <2>1, <2>4, <2>5 DEF r
<1>4. Folded(<<>>, step) \in V \cap Q[N]
  <2> HIDE DEF V, Q, step, N
  <2> QED BY <1>0, <1>1, <1>2, <1>3, FoldedInvariant
<1>5. Len(Cut(w, P)) = 1
  <2>1. N \in 0..N /\ N # 0
    BY <1>0
  <2> HIDE DEF V, step
  <2> QED BY <1>1, <1>4, <2>1
<1> QED BY <1>5 DEF Words

\* The tokens that Count counts.
Counted == {x \in Token : x.role # "punct"}

\* Tokens of two texts, one after the other.
LEMMA CountConcat ==
  ASSUME NEW s \in Text, NEW t \in Text
  PROVE  Count(s) \in Nat /\ s \o t \in Text /\ Count(s \o t) = Count(s) + Count(t)
<1>1. ASSUME NEW u \in Text PROVE Count(u) = Len(Only(u, Counted)) /\ Only(u, Counted) \in Text
  <2> DEFINE P == {k \in DOMAIN u : u[k].role # "punct"}
  <2>1. \A n \in DOMAIN u : n \in P <=> u[n] \in Counted
    BY DEF Counted, Text
  <2> HIDE DEF P
  <2>2. At(u, P) = Only(u, Counted)
    BY <2>1, AtIsOnly
  <2> QED BY <2>2, OnlyType DEF P, Count, Text
<1>2. s \o t \in Text
  BY DEF Text
<1>3. Only(s \o t, Counted) = Only(s, Counted) \o Only(t, Counted)
  BY OnlyConcat DEF Text
<1> DEFINE a == Only(s, Counted)
           b == Only(t, Counted)
<1>4. a \in Text /\ b \in Text /\ Count(s) = Len(a) /\ Count(t) = Len(b) /\ Count(s \o t) = Len(a \o b)
  BY <1>1, <1>2, <1>3
<1> HIDE DEF a, b
<1> QED BY <1>2, <1>4 DEF Text

\* The empty text has no tokens.
LEMMA CountEmpty == Count(<<>>) = 0
<1>1. At(<<>>, {k \in DOMAIN <<>> : <<>>[k].role # "punct"}) = <<>>
  BY AtIsOnly, OnlyEmpty
<1> QED BY <1>1 DEF Count


\* What a selection leaves out of a sequence of sequences is not missed when it is empty.
LEMMA FlattenOnly ==
  ASSUME NEW T, NEW ss \in Seq(Seq(T)), NEW S, \A k \in 1..Len(ss) : ss[k] \notin S => ss[k] = <<>>
  PROVE  FlattenSeq(Only(ss, S)) = FlattenSeq(ss)
<1> DEFINE TT == Seq(T)
           U == {u \in TT : u \notin S => u = <<>>}
           P == {vv \in Seq(TT) : FlattenSeq(Only(vv, S)) = FlattenSeq(vv)}
<1>1. <<>> \in P
  <2>1. FlattenSeq(Only(<<>>, S)) = FlattenSeq(<<>>)
    BY OnlyEmpty, Zenon
  <2> QED BY <2>1
<1>2. ASSUME NEW vv \in Seq(U), NEW u \in U, vv \in P PROVE Append(vv, u) \in P
  <2>1. vv \in Seq(TT) /\ FlattenSeq(Only(vv, S)) = FlattenSeq(vv) /\ u \in TT
    BY <1>2
  <2>2. Append(vv, u) \in Seq(TT)
    BY <2>1, AppendProperties
  <2>3. Only(Append(vv, u), S) = IF u \in S THEN Append(Only(vv, S), u) ELSE Only(vv, S)
    <3> HIDE DEF TT, P, U
    <3> QED BY <2>1, OnlyAppend
  <2>4. Only(vv, S) \in Seq(TT)
    <3> HIDE DEF TT, P, U
    <3> QED BY <2>1, OnlyType
  <2>5. FlattenSeq(Append(vv, u)) = FlattenSeq(vv) \o u /\ FlattenSeq(vv) \in Seq(T)
    <3> HIDE DEF U, P
    <3> QED BY <2>1, FlattenAppend
  <2>6. FlattenSeq(Append(Only(vv, S), u)) = FlattenSeq(Only(vv, S)) \o u
    <3> HIDE DEF U, P
    <3> QED BY <2>1, <2>4, FlattenAppend
  <2>7. u \notin S => FlattenSeq(vv) \o u = FlattenSeq(vv)
    <3>1. u \notin S => u = <<>>
      BY <1>2
    <3> DEFINE w == FlattenSeq(vv)
    <3>2. w \in Seq(T)
      BY <2>5
    <3> HIDE DEF w
    <3>3. w \o <<>> = w
      BY <3>2
    <3> QED BY <3>1, <3>3 DEF w
  <2>8. FlattenSeq(Only(Append(vv, u), S)) = FlattenSeq(Append(vv, u))
    BY <2>1, <2>3, <2>5, <2>6, <2>7, Zenon
  <2> QED BY <2>2, <2>8
<1>3. Seq(U) \subseteq P
  <2> HIDE DEF U, P
  <2> QED BY <1>1, <1>2, SeqInduction
<1>4. ss \in Seq(U)
  <2>1. \A k \in 1..Len(ss) : ss[k] \in U
    BY DEF TT
  <2>2. ss = [k \in 1..Len(ss) |-> ss[k]] /\ Len(ss) \in Nat
    OBVIOUS
  <2> HIDE DEF U
  <2> QED BY <2>1, <2>2
<1> QED BY <1>3, <1>4

\* The parts that splitting may leave: within the limit, or one word.
Fit(limit) == {w \in Text : w # <<>> /\ (Count(w) <= limit \/ OneWord(w))}

\* The parts that are kept are not empty, and hold all the text.
LEMMA NonEmptyParts ==
  ASSUME NEW limit, NEW parts \in Seq(Fit(limit) \cup {<<>>})
  PROVE  NonEmpty(parts) \in Seq(Fit(limit)) /\ FlattenSeq(NonEmpty(parts)) = FlattenSeq(parts)
<1> DEFINE G == Fit(limit)
           E == G \cup {<<>>}
           P == {k \in DOMAIN parts : parts[k] # <<>>}
           r == Only(parts, G)
<1>0. G \subseteq Seq(Token) /\ <<>> \notin G /\ E \subseteq Seq(Token)
  <2>1. G \subseteq Seq(Token) /\ <<>> \notin G
    BY DEF Fit, Text
  <2>2. <<>> \in Seq(Token)
    OBVIOUS
  <2> HIDE DEF G
  <2> QED BY <2>1, <2>2
<1> HIDE DEF G
<1>1. parts \in Seq(E) /\ \A k \in DOMAIN parts : parts[k] \in G \/ parts[k] = <<>>
  BY DEF G
<1>2. \A k \in DOMAIN parts : k \in P <=> parts[k] \in G
  BY <1>0, <1>1
<1>3. NonEmpty(parts) = r
  <2> HIDE DEF P
  <2>1. At(parts, P) = Only(parts, G)
    BY <1>2, AtIsOnly
  <2> QED BY <2>1 DEF P, NonEmpty
<1>4. r \in Seq(E)
  <2> HIDE DEF E, r
  <2> QED BY <1>1, OnlyType DEF r
<1>5. \A n \in 1..Len(r) : r[n] \in G
  <2> HIDE DEF E
  <2> QED BY <1>1, OnlyElements
<1>6. r \in Seq(G)
  <2>1. r = [n \in 1..Len(r) |-> r[n]] /\ Len(r) \in Nat
    <3> HIDE DEF r, E
    <3> QED BY <1>4
  <2> HIDE DEF r
  <2> QED BY <2>1, <1>5
<1>7. parts \in Seq(Seq(Token)) /\ \A k \in 1..Len(parts) : parts[k] \notin G => parts[k] = <<>>
  BY <1>0, <1>1
<1>8. FlattenSeq(r) = FlattenSeq(parts)
  BY <1>7, FlattenOnly
<1> QED BY <1>3, <1>6, <1>8 DEF G

\* The first n sequences, and one more.
LEMMA FlattenPrefix ==
  ASSUME NEW T, NEW ss \in Seq(Seq(T)), NEW n \in 1..Len(ss)
  PROVE  FlattenSeq(SubSeq(ss, 1, n)) = FlattenSeq(SubSeq(ss, 1, n - 1)) \o ss[n]
<1> DEFINE TT == Seq(T)
           p == SubSeq(ss, 1, n - 1)
<1>1. ss \in Seq(TT)
  OBVIOUS
<1> HIDE DEF TT
<1>2. p \in Seq(TT) /\ SubSeq(ss, 1, n) = Append(p, ss[n]) /\ ss[n] \in TT
  BY <1>1
<1> HIDE DEF p
<1>3. FlattenSeq(Append(p, ss[n])) = FlattenSeq(p) \o ss[n]
  BY <1>2, FlattenAppend DEF TT
<1> QED BY <1>2, <1>3 DEF p

\* The texts of an accumulator, and what an item adds to it.
Total(acc) == FlattenSeq(acc.parts) \o acc.current
\* An item over the limit comes with parts that fit and make it up.
Breaks(item, limit, broken) ==
    Count(item) > limit => broken \in Seq(Fit(limit)) /\ FlattenSeq(broken) = item
\* Accumulators whose texts fit, or are empty.
Packs(limit) == {acc \in Packing : /\ acc.parts \in Seq(Fit(limit) \cup {<<>>})
                                   /\ acc.current \in Fit(limit) \cup {<<>>}}

\* A step of packing: every part fits, and the text so far is in the parts.
LEMMA PackedStep ==
  ASSUME NEW limit \in Nat, NEW acc \in Packs(limit), NEW item \in Text, NEW broken,
         Breaks(item, limit, broken)
  PROVE  /\ Packed(acc, item, limit, broken) \in Packs(limit)
         /\ Total(Packed(acc, item, limit, broken)) = Total(acc) \o item
<1> DEFINE r == Packed(acc, item, limit, broken)
           E == Fit(limit) \cup {<<>>}
           pp == acc.parts
           cc == acc.current
<1>1. pp \in Seq(E) /\ cc \in E /\ cc \in Text /\ pp \in Seq(Text)
  BY DEF Packs, Packing
<1>2. E \subseteq Text /\ Fit(limit) \subseteq E /\ <<>> \in E
  <2>1. Fit(limit) \subseteq Text
    BY DEF Fit
  <2>2. <<>> \in Text
    BY DEF Text
  <2> QED BY <2>1, <2>2
<1>3. ASSUME NEW w \in Text, Count(w) <= limit PROVE w \in E
  BY <1>3 DEF Fit
<1> HIDE DEF E
<1>4. ASSUME NEW s \in Seq(E) PROVE s \in Seq(Text) /\ FlattenSeq(s) \in Text
  <2>1. s \in Seq(Text)
    BY <1>2
  <2> QED BY <2>1, FlattenType DEF Text
<1>5. ASSUME NEW s \in Seq(E), NEW t \in E PROVE [parts |-> s, current |-> t] \in Packs(limit)
  <2>1. s \in Seq(Text) /\ t \in Text
    BY <1>2, <1>4
  <2> QED BY <2>1 DEF Packs, Packing, E
<1>6. Total(acc) = FlattenSeq(pp) \o cc /\ FlattenSeq(pp) \in Text
  BY <1>1, <1>4 DEF Total
<1>7. CASE Count(item) > limit
  <2> DEFINE s == (pp \o <<cc>>) \o broken
             t == pp \o <<cc>>
             one == <<cc>>
  <2>1. r = [parts |-> s, current |-> <<>>]
    BY <1>7 DEF Packed
  <2>2. broken \in Seq(E) /\ FlattenSeq(broken) = item
    <3>1. broken \in Seq(Fit(limit)) /\ FlattenSeq(broken) = item
      BY <1>7 DEF Breaks
    <3> QED BY <3>1, <1>2
  <2>3. one \in Seq(E) /\ t \in Seq(E)
    <3>1. one \in Seq(E)
      BY <1>1
    <3> HIDE DEF one
    <3>2. pp \o one \in Seq(E)
      BY <3>1, <1>1, ConcatType
    <3> QED BY <3>1, <3>2 DEF one
  <2>4. FlattenSeq(t) = FlattenSeq(pp) \o cc
    <3>1. one \in Seq(Text) /\ FlattenSeq(one) = cc
      <4>1. FlattenSeq(one) = cc
        BY <1>1, FlattenOne DEF Text
      <4> QED BY <4>1, <1>4, <2>3
    <3> HIDE DEF one
    <3>2. FlattenSeq(pp \o one) = FlattenSeq(pp) \o FlattenSeq(one)
      BY <3>1, <1>1, FlattenConcat DEF Text
    <3> QED BY <3>1, <3>2 DEF one
  <2> HIDE DEF t
  <2>5. s \in Seq(E)
    BY <2>2, <2>3, ConcatType DEF t
  <2>6. FlattenSeq(t \o broken) = FlattenSeq(t) \o FlattenSeq(broken)
    <3>1. t \in Seq(Text) /\ broken \in Seq(Text)
      BY <1>4, <2>2, <2>3
    <3> QED BY <3>1, FlattenConcat DEF Text
  <2>7. FlattenSeq(s) = Total(acc) \o item
    BY <1>6, <2>2, <2>4, <2>6, Zenon DEF t
  <2>8. FlattenSeq(s) \in Text
    BY <1>4, <2>5
  <2>9. r \in Packs(limit)
    <3> HIDE DEF s, r
    <3> QED BY <1>2, <1>5, <2>1, <2>5
  <2>10. Total(r) = FlattenSeq(s)
    <3> DEFINE w == FlattenSeq(s)
    <3> HIDE DEF w
    <3>1. w \o <<>> = w
      BY <2>8 DEF w, Text
    <3>2. r.parts = s /\ r.current = <<>>
      BY <2>1
    <3> QED BY <3>1, <3>2 DEF Total, w
  <2> QED BY <2>7, <2>9, <2>10, Zenon
<1>8. CASE ~(Count(item) > limit) /\ Count(cc \o item) > limit
  <2> DEFINE s == Append(pp, cc)
  <2>1. r = [parts |-> s, current |-> item]
    BY <1>8 DEF Packed
  <2>2. item \in E
    <3>1. Count(item) \in Nat
      BY CountConcat
    <3>2. Count(item) <= limit
      BY <1>8, <3>1
    <3> QED BY <1>3, <3>2
  <2>3. s \in Seq(E)
    BY <1>1, AppendProperties
  <2>4. FlattenSeq(s) = FlattenSeq(pp) \o cc
    BY <1>1, FlattenAppend DEF Text
  <2>5. r \in Packs(limit)
    <3> HIDE DEF s, r
    <3> QED BY <1>5, <2>1, <2>2, <2>3
  <2>6. r.parts = s /\ r.current = item
    BY <2>1
  <2> QED BY <1>6, <2>4, <2>5, <2>6, Zenon DEF Total
<1>9. CASE ~(Count(item) > limit) /\ ~(Count(cc \o item) > limit)
  <2> DEFINE t == cc \o item
  <2>1. r = [parts |-> pp, current |-> t]
    BY <1>9 DEF Packed
  <2>2. t \in Text /\ Count(t) \in Nat
    <3>1. t \in Text
      BY <1>1, CountConcat
    <3> HIDE DEF t
    <3> QED BY <3>1, CountConcat
  <2>3. t \in E
    <3>1. Count(t) <= limit
      BY <1>9, <2>2
    <3> HIDE DEF t
    <3> QED BY <1>3, <2>2, <3>1
  <2>4. r \in Packs(limit)
    <3> HIDE DEF t, r
    <3> QED BY <1>1, <1>5, <2>1, <2>3
  <2>5. r.parts = pp /\ r.current = t
    BY <2>1
  <2> DEFINE ff == FlattenSeq(pp)
  <2>6. ff \o (cc \o item) = (ff \o cc) \o item
    <3>1. ff \in Text
      BY <1>6
    <3>2. cc \in Text /\ item \in Text
      BY <1>1
    <3> HIDE DEF ff, cc
    <3> QED BY <3>1, <3>2, ConcatAssociative DEF Text
  <2> QED BY <1>6, <2>4, <2>5, <2>6, Zenon DEF Total
<1> QED BY <1>7, <1>8, <1>9


\* A step of packing keeps the type.
LEMMA PackedType ==
  ASSUME NEW limit \in Nat, NEW acc \in Packing, NEW item \in Text, NEW broken,
         Breaks(item, limit, broken)
  PROVE  Packed(acc, item, limit, broken) \in Packing
<1> DEFINE pp == acc.parts
           cc == acc.current
           one == <<cc>>
<1>1. pp \in Seq(Text) /\ cc \in Text /\ one \in Seq(Text)
  BY DEF Packing
<1>2. ASSUME NEW s \in Seq(Text), NEW t \in Text PROVE [parts |-> s, current |-> t] \in Packing
  BY DEF Packing
<1>3. <<>> \in Text
  BY DEF Text
<1>4. Append(pp, cc) \in Seq(Text) /\ cc \o item \in Text
  BY <1>1, AppendProperties, CountConcat
<1>5. Count(item) > limit => (pp \o one) \o broken \in Seq(Text)
  <2>1. Fit(limit) \subseteq Text
    BY DEF Fit
  <2>2. Count(item) > limit => broken \in Seq(Text)
    BY <2>1 DEF Breaks
  <2> HIDE DEF pp, one
  <2>3. pp \o one \in Seq(Text)
    BY <1>1, ConcatType
  <2> QED BY <2>2, <2>3, ConcatType
<1> QED BY <1>1, <1>2, <1>3, <1>4, <1>5 DEF Packed

\* Packing: every part fits, and the parts, one after the other, are the items.
LEMMA PackWhole ==
  ASSUME NEW limit \in Nat, NEW items \in Seq(Text), NEW broken,
         \A n \in 1..Len(items) : Breaks(items[n], limit, broken[n])
  PROVE  /\ Pack(items, limit, broken) \in Seq(Fit(limit))
         /\ FlattenSeq(Pack(items, limit, broken)) = FlattenSeq(items)
<1> DEFINE V == Packing
           N == Len(items)
           base == [parts |-> <<>>, current |-> <<>>]
           step == [n \in DOMAIN items |-> [acc \in Packing |-> Packed(acc, items[n], limit, broken[n])]]
           Good(acc, n) == acc \in Packs(limit) /\ Total(acc) = FlattenSeq(SubSeq(items, 1, n))
           Q == [n \in 0..N |-> {acc \in V : Good(acc, n)}]
           E == Fit(limit) \cup {<<>>}
<1>0. N \in Nat /\ DOMAIN items = 1..N /\ \A n \in 1..N : items[n] \in Text
  OBVIOUS
<1>1. Steps(step, N, V)
  <2>1. \A n \in 1..N : \A acc \in Packing : Packed(acc, items[n], limit, broken[n]) \in Packing
    BY <1>0, PackedType
  <2> QED BY <1>0, <2>1 DEF Steps
<1>2. base \in V /\ base \in Q[0]
  <2>1. <<>> \in Seq(Text) /\ <<>> \in Text
    BY DEF Text
  <2>2. <<>> \in Seq(E)
    OBVIOUS
  <2>3. base \in Packing
    BY <2>1 DEF Packing
  <2>4. base \in Packs(limit)
    BY <2>2, <2>3 DEF Packs
  <2>5. SubSeq(items, 1, 0) = <<>> /\ base.parts = <<>> /\ base.current = <<>>
    OBVIOUS
  <2>6. <<>> \o <<>> = <<>>
    OBVIOUS
  <2>7. Total(base) = FlattenSeq(SubSeq(items, 1, 0))
    BY <2>5, <2>6, FlattenEmpty, Zenon DEF Total
  <2>8. Good(base, 0)
    BY <2>4, <2>7
  <2> HIDE DEF Good, base
  <2> QED BY <1>0, <2>3, <2>8
<1>3. ASSUME NEW n \in 1..N, NEW v \in V, v \in Q[n - 1] PROVE step[n][v] \in Q[n]
  <2>1. n \in 0..N /\ n - 1 \in 0..N
    BY <1>0
  <2>2. Good(v, n - 1)
    <3> HIDE DEF Good
    <3> QED BY <1>3, <2>1
  <2> DEFINE r == Packed(v, items[n], limit, broken[n])
  <2>3. step[n][v] = r
    BY <1>0
  <2>4. r \in Packs(limit) /\ Total(r) = Total(v) \o items[n]
    <3> HIDE DEF V, Q, step
    <3> QED BY <1>0, <2>2, PackedStep
  <2>5. FlattenSeq(SubSeq(items, 1, n)) = FlattenSeq(SubSeq(items, 1, n - 1)) \o items[n]
    BY FlattenPrefix DEF Text
  <2>6. Total(v) = FlattenSeq(SubSeq(items, 1, n - 1))
    BY <2>2
  <2> HIDE DEF r
  <2>7. Good(r, n)
    BY <2>4, <2>5, <2>6
  <2>8. r \in V
    BY <2>4 DEF Packs
  <2> HIDE DEF Good, V, step
  <2> QED BY <2>1, <2>3, <2>7, <2>8
<1>4. Folded(base, step) \in V \cap Q[N]
  <2> HIDE DEF V, Q, step, N, base
  <2> QED BY <1>1, <1>2, <1>3, FoldedInvariant
<1> DEFINE packed == Folded(base, step)
<1>5. Good(packed, N)
  <2>1. N \in 0..N
    BY <1>0
  <2> HIDE DEF Good, V, packed
  <2> QED BY <1>4, <2>1 DEF packed
<1>6. SubSeq(items, 1, N) = items
  BY SubSeqFull
<1> DEFINE parts == Append(packed.parts, packed.current)
<1>7. packed.parts \in Seq(E) /\ packed.current \in E /\ packed.parts \in Seq(Text) /\ packed.current \in Text
  BY <1>5 DEF Packs, Packing
<1>8. parts \in Seq(E)
  BY <1>7, AppendProperties
<1>9. FlattenSeq(parts) = FlattenSeq(items)
  <2>1. FlattenSeq(parts) = FlattenSeq(packed.parts) \o packed.current
    <3> HIDE DEF packed
    <3> QED BY <1>7, FlattenAppend DEF Text
  <2>2. Total(packed) = FlattenSeq(items)
    BY <1>5, <1>6
  <2> HIDE DEF packed, parts
  <2> QED BY <2>1, <2>2 DEF Total
<1>10. Pack(items, limit, broken) = NonEmpty(parts)
  BY DEF Pack
<1> HIDE DEF parts
<1> QED BY <1>8, <1>9, <1>10, NonEmptyParts

\* Halving a size leaves at least 1.
LEMMA HalvedBound ==
  ASSUME NEW word, NEW k, NEW size \in 1..WordBatch, NEW limit
  PROVE  Halved(word, k, size, limit) \in 1..WordBatch
<1> DEFINE V == 1..WordBatch
           N == size
           step == [n \in 1..size |->
                     [h \in 1..WordBatch |->
                         IF h > 1 /\ Count(Slice(word, k, h)) > limit THEN h \div 2 ELSE h]]
           Q == [n \in 0..N |-> V]
<1>1. WordBatch \in Nat \ {0} /\ N \in Nat
  BY WordBatchPositive
<1>2. ASSUME NEW h \in V, h > 1 PROVE h \div 2 \in V
  <2>1. h \in Nat /\ h <= WordBatch
    BY <1>1
  <2>2. h \div 2 \in Nat /\ h \div 2 >= 1 /\ h \div 2 <= h
    BY <1>2, <2>1, Z3
  <2> QED BY <1>1, <2>1, <2>2
<1>3. Steps(step, N, V)
  BY <1>1, <1>2 DEF Steps
<1>4. size \in V /\ size \in Q[0]
  BY <1>1
<1>5. ASSUME NEW n \in 1..N, NEW v \in V, v \in Q[n - 1] PROVE step[n][v] \in Q[n]
  BY <1>1, <1>2
<1>6. Folded(size, step) \in V \cap Q[N]
  <2> HIDE DEF V, Q, step, N
  <2> QED BY <1>3, <1>4, <1>5, FoldedInvariant
<1> QED BY <1>6 DEF Halved


\* The smaller one of two.
LEMMA MinPair ==
  ASSUME NEW a \in Int, NEW b \in Int
  PROVE  Min({a, b}) = IF a <= b THEN a ELSE b
<1> DEFINE S == {a, b}
           m == IF a <= b THEN a ELSE b
<1>1. m \in S /\ \A y \in S : m <= y
  OBVIOUS
<1>2. \A x \in S : (\A y \in S : x <= y) => x = m
  OBVIOUS
<1>3. (CHOOSE x \in S : \A y \in S : x <= y) = m
  <2> HIDE DEF S, m
  <2> QED BY <1>1, <1>2
<1> QED BY <1>3 DEF Min

\* The larger one of two.
LEMMA MaxPair ==
  ASSUME NEW a \in Int, NEW b \in Int
  PROVE  Max({a, b}) = IF a >= b THEN a ELSE b
<1> DEFINE S == {a, b}
           m == IF a >= b THEN a ELSE b
<1>1. m \in S /\ \A y \in S : m >= y
  OBVIOUS
<1>2. \A x \in S : (\A y \in S : x >= y) => x = m
  OBVIOUS
<1>3. (CHOOSE x \in S : \A y \in S : x >= y) = m
  <2> HIDE DEF S, m
  <2> QED BY <1>1, <1>2
<1> QED BY <1>3 DEF Max

\* A slice is a word, and follows what comes before it.
LEMMA SliceIsWord ==
  ASSUME NEW word \in Word, NEW k \in 1..Len(word), NEW size \in Nat \ {0}
  PROVE  /\ Slice(word, k, size) \in Word
         /\ SubSeq(word, 1, k - 1) \o Slice(word, k, size) =
              SubSeq(word, 1, Min({k + size - 1, Len(word)}))
<1> DEFINE e == Min({k + size - 1, Len(word)})
           s == Slice(word, k, size)
<1>1. word \in Text /\ Len(word) \in Nat /\ \A i \in 2..Len(word) : ~word[i].gap
  BY DEF Word, OneWord, Text
<1>2. e \in k..Len(word)
  BY <1>1, MinPair
<1> HIDE DEF e
<1>3. s = SubSeq(word, k, e)
  BY DEF s, Slice, e
<1> HIDE DEF s
<1>4. /\ s \in Text /\ Len(s) = e - k + 1 /\ Len(s) \in Nat \ {0}
      /\ \A i \in 1..Len(s) : s[i] = word[k + i - 1]
  BY <1>1, <1>2, <1>3, SubSeqProperties DEF Text
<1>5. \A i \in 2..Len(s) : ~s[i].gap
  <2>1. ASSUME NEW i \in 2..Len(s) PROVE s[i] = word[k + i - 1] /\ k + i - 1 \in 2..Len(word)
    BY <1>1, <1>2, <1>4
  <2> QED BY <1>1, <2>1
<1>6. s \in Word
  <2>1. s # <<>>
    BY <1>4
  <2> QED BY <1>4, <1>5, <2>1 DEF Word, OneWord
<1>7. SubSeq(word, 1, k - 1) \o SubSeq(word, k, e) = SubSeq(word, 1, e)
  <2>1. k - 1 \in (1 - 1)..e /\ e \in (1 - 1)..Len(word) /\ (k - 1) + 1 = k
    BY <1>1, <1>2
  <2> QED BY <1>1, <1>2, <2>1, ConcatAdjacentSubSeq DEF Text
<1> QED BY <1>3, <1>6, <1>7 DEF s, e


\* Slices are words, and make the word.
LEMMA SlicesAreWords ==
  ASSUME NEW word \in Word, NEW limit
  PROVE  Slices(word, limit) \in Seq(Word) /\ FlattenSeq(Slices(word, limit)) = word
<1> DEFINE V == Slicing
           N == Len(word)
           base == [parts |-> <<>>, next |-> 1, size |-> Min({Len(word), WordBatch})]
           step == [n \in DOMAIN word |-> [acc \in Slicing |-> Sliced(acc, word, limit)]]
           Good(acc, n) == /\ acc.parts \in Seq(Word)
                           /\ FlattenSeq(acc.parts) = SubSeq(word, 1, Min({acc.next - 1, N}))
                           /\ acc.next > n
           Q == [n \in 0..N |-> {acc \in V : Good(acc, n)}]
<1>0. /\ N \in Nat \ {0} /\ DOMAIN word = 1..N /\ word \in Text
      /\ WordBatch \in Nat \ {0}
  BY WordBatchPositive DEF Word, OneWord, Text
<1>00. ASSUME NEW s \in Seq(Word) PROVE s \in Seq(Text) /\ FlattenSeq(s) \in Text
  <2>1. Word \subseteq Text
    BY DEF Word
  <2>2. s \in Seq(Text)
    BY <2>1
  <2> QED BY <2>2, FlattenType DEF Text
<1>1. ASSUME NEW acc \in Slicing, acc.next <= N
      PROVE  \E h \in 1..WordBatch : \E s \in Word :
                /\ SubSeq(word, 1, acc.next - 1) \o s = SubSeq(word, 1, Min({acc.next + h - 1, N}))
                /\ Sliced(acc, word, limit) = [parts |-> Append(acc.parts, s), next |-> acc.next + h, size |-> h]
  <2>1. acc.next \in 1..N /\ acc.size \in 1..WordBatch
    BY <1>0, <1>1 DEF Slicing
  <2> DEFINE h == Halved(word, acc.next, acc.size, limit)
             s == Slice(word, acc.next, h)
  <2>2. h \in 1..WordBatch
    BY <2>1, HalvedBound
  <2>3. h \in Nat \ {0}
    BY <1>0, <2>2
  <2>4. Sliced(acc, word, limit) = [parts |-> Append(acc.parts, s), next |-> acc.next + h, size |-> h]
    <3>1. ~(acc.next > N)
      BY <1>0, <2>1
    <3> QED BY <3>1 DEF Sliced
  <2> HIDE DEF h
  <2>5. s \in Word /\ SubSeq(word, 1, acc.next - 1) \o s = SubSeq(word, 1, Min({acc.next + h - 1, N}))
    BY <2>1, <2>3, SliceIsWord
  <2> HIDE DEF s
  <2> QED BY <2>2, <2>4, <2>5
<1>2. ASSUME NEW acc \in Slicing PROVE Sliced(acc, word, limit) \in Slicing
  <2>1. CASE acc.next > N
    BY <2>1 DEF Sliced
  <2>2. CASE ~(acc.next > N)
    <3>1. acc.next <= N /\ acc.parts \in Seq(Text) /\ acc.next \in Nat \ {0}
      BY <1>0, <2>2 DEF Slicing
    <3>2. PICK h \in 1..WordBatch, s \in Word :
                Sliced(acc, word, limit) = [parts |-> Append(acc.parts, s), next |-> acc.next + h, size |-> h]
      BY <3>1, <1>1
    <3>3. Append(acc.parts, s) \in Seq(Text) /\ acc.next + h \in Nat \ {0}
      <4>1. s \in Text
        BY DEF Word
      <4>2. Append(acc.parts, s) \in Seq(Text)
        BY <3>1, <4>1, AppendProperties
      <4> QED BY <1>0, <3>1, <4>2
    <3> QED BY <3>2, <3>3 DEF Slicing
  <2> QED BY <2>1, <2>2
<1>3. Steps(step, N, V)
  BY <1>0, <1>2 DEF Steps
<1>4. base \in V /\ base \in Q[0]
  <2>1. Min({N, WordBatch}) \in 1..WordBatch
    BY <1>0, MinPair
  <2>2. base \in Slicing
    <3>1. <<>> \in Seq(Text)
      OBVIOUS
    <3> QED BY <2>1, <3>1 DEF Slicing
  <2>3. Min({1 - 1, N}) = 0
    BY <1>0, MinPair
  <2>4. SubSeq(word, 1, 0) = <<>> /\ base.parts = <<>> /\ base.next = 1 /\ 1 > 0
    OBVIOUS
  <2>5. <<>> \in Seq(Word)
    OBVIOUS
  <2>6. Good(base, 0)
    BY <2>3, <2>4, <2>5, FlattenEmpty, Zenon
  <2> HIDE DEF Good, base
  <2> QED BY <1>0, <2>2, <2>6
<1>5. ASSUME NEW n \in 1..N, NEW v \in V, v \in Q[n - 1] PROVE step[n][v] \in Q[n]
  <2>1. n \in 0..N /\ n - 1 \in 0..N
    BY <1>0
  <2>2. Good(v, n - 1)
    <3> HIDE DEF Good
    <3> QED BY <1>5, <2>1
  <2> DEFINE r == Sliced(v, word, limit)
  <2>3. step[n][v] = r /\ r \in V
    BY <1>0, <1>2
  <2>4. Good(r, n)
    <3>1. CASE v.next > N
      <4>1. r = v
        BY <3>1 DEF Sliced
      <4>2. v.next > n
        BY <1>0, <3>1 DEF Slicing
      <4> HIDE DEF r
      <4> QED BY <2>2, <4>1, <4>2
    <3>2. CASE ~(v.next > N)
      <4>1. v.next <= N /\ v.next \in Nat \ {0}
        BY <1>0, <3>2 DEF Slicing
      <4>2. PICK h \in 1..WordBatch, s \in Word :
              /\ SubSeq(word, 1, v.next - 1) \o s = SubSeq(word, 1, Min({v.next + h - 1, N}))
              /\ r = [parts |-> Append(v.parts, s), next |-> v.next + h, size |-> h]
        BY <4>1, <1>1
      <4> HIDE DEF r
      <4>3. r.parts = Append(v.parts, s) /\ r.next = v.next + h /\ r.next - 1 = v.next + h - 1
        BY <1>0, <4>1, <4>2
      <4>4. r.next > n
        BY <1>0, <2>2, <4>1, <4>3
      <4>5. v.parts \in Seq(Word) /\ FlattenSeq(v.parts) = SubSeq(word, 1, v.next - 1)
        <5>1. Min({v.next - 1, N}) = v.next - 1
          BY <1>0, <4>1, MinPair
        <5> QED BY <2>2, <5>1
      <4>6. Append(v.parts, s) \in Seq(Word)
        BY <4>5, AppendProperties
      <4>7. FlattenSeq(Append(v.parts, s)) = FlattenSeq(v.parts) \o s
        <5>1. v.parts \in Seq(Text) /\ s \in Text
          BY <1>00, <4>5 DEF Word
        <5> QED BY <5>1, FlattenAppend DEF Text
      <4>8. FlattenSeq(r.parts) = SubSeq(word, 1, Min({r.next - 1, N}))
        BY <4>2, <4>3, <4>5, <4>7, Zenon
      <4>9. r.parts \in Seq(Word)
        BY <4>3, <4>6
      <4> QED BY <4>4, <4>8, <4>9
    <3> QED BY <3>1, <3>2
  <2> HIDE DEF Good, V, step, r
  <2> QED BY <2>1, <2>3, <2>4
<1>6. Folded(base, step) \in V \cap Q[N]
  <2> HIDE DEF V, Q, step, N, base
  <2> QED BY <1>3, <1>4, <1>5, FoldedInvariant
<1> DEFINE done == Folded(base, step)
<1>7. Good(done, N) /\ done \in Slicing
  <2>1. N \in 0..N
    BY <1>0
  <2> HIDE DEF Good, done
  <2> QED BY <1>6, <2>1 DEF done
<1>8. Slices(word, limit) = done.parts
  BY DEF Slices
<1> HIDE DEF done
<1>9. Min({done.next - 1, N}) = N
  <2>1. done.next > N /\ done.next \in Nat
    BY <1>7 DEF Slicing
  <2> DEFINE m == done.next - 1
  <2>2. m \in Int /\ N \in Int /\ N <= m
    BY <1>0, <2>1
  <2> HIDE DEF m, N
  <2>3. Min({m, N}) = N
    BY <2>2, MinPair
  <2> QED BY <2>3 DEF m
<1>10. SubSeq(word, 1, N) = word
  BY <1>0, SubSeqFull DEF Text
<1> QED BY <1>7, <1>8, <1>9, <1>10

\* _hard_split: the pieces fit, or are words that no space cuts, and make the unit.
LEMMA HardSplitBreaks ==
  ASSUME NEW unit \in Text, NEW limit \in Nat
  PROVE  Breaks(unit, limit, HardSplit(unit, limit))
<1> DEFINE words == Words(unit)
           broken == [n \in DOMAIN words |-> <<words[n]>>]
           r == HardSplit(unit, limit)
<1>1. words \in Seq(Word) /\ FlattenSeq(words) = unit
  BY WordsAreWords
<1>2. Word \subseteq Fit(limit) /\ Word \subseteq Text /\ \A w \in Word : w # <<>>
  BY DEF Word, Fit, OneWord
<1>3. words \in Seq(Text) /\ Len(words) \in Nat /\ \A n \in 1..Len(words) : words[n] \in Word
  <2> HIDE DEF words
  <2> QED BY <1>1, <1>2
<1>4. CASE Len(words) > 1
  <2>1. r = Pack(words, limit, broken)
    BY <1>4 DEF HardSplit
  <2>2. \A n \in 1..Len(words) : Breaks(words[n], limit, broken[n])
    <3>1. SUFFICES ASSUME NEW n \in 1..Len(words) PROVE Breaks(words[n], limit, broken[n])
      OBVIOUS
    <3> DEFINE w == words[n]
    <3>2. w \in Word /\ w \in Text /\ broken[n] = <<w>>
      BY <1>2, <1>3
    <3> HIDE DEF w
    <3>3. <<w>> \in Seq(Fit(limit))
      BY <1>2, <3>2
    <3>4. FlattenSeq(<<w>>) = w
      BY <3>2, FlattenOne DEF Text
    <3> QED BY <3>2, <3>3, <3>4 DEF Breaks, w
  <2> HIDE DEF words, broken, r
  <2>3. Pack(words, limit, broken) \in Seq(Fit(limit)) /\ FlattenSeq(Pack(words, limit, broken)) = FlattenSeq(words)
    BY <1>3, <2>2, PackWhole
  <2> QED BY <1>1, <2>1, <2>3 DEF Breaks, r
<1>5. CASE ~(Len(words) > 1)
  <2>1. r = Slices(unit, limit)
    BY <1>5 DEF HardSplit
  <2>2. CASE Len(words) = 0
    <3>1. words = <<>>
      <4> HIDE DEF words
      <4> QED BY <1>3, <2>2
    <3>2. unit = <<>>
      BY <1>1, <3>1, FlattenEmpty
    <3>3. ~(Count(unit) > limit)
      BY <3>2, CountEmpty
    <3> QED BY <3>3 DEF Breaks
  <2>3. CASE Len(words) # 0
    <3>1. Len(words) = 1
      <4> DEFINE n == Len(words)
      <4>1. n \in Nat /\ ~(n > 1) /\ n # 0
        BY <1>3, <1>5, <2>3, Zenon
      <4> HIDE DEF n
      <4>2. n = 1
        BY <4>1
      <4> QED BY <4>2 DEF n
    <3> DEFINE w == words[1]
    <3>2. words = <<w>> /\ w \in Word
      <4>1. words = [n \in 1..Len(words) |-> words[n]]
        <5> HIDE DEF words
        <5> QED BY <1>3
      <4> HIDE DEF words
      <4>2. <<words[1]>> = [n \in 1..1 |-> words[n]]
        OBVIOUS
      <4> QED BY <1>3, <3>1, <4>1, <4>2
    <3>3. unit = w
      <4>1. w \in Text
        BY <1>2, <3>2
      <4> HIDE DEF w, words
      <4>2. FlattenSeq(<<w>>) = w
        BY <4>1, FlattenOne DEF Text
      <4> QED BY <1>1, <3>2, <4>2
    <3>4. unit \in Word
      BY <3>2, <3>3
    <3>5. Slices(unit, limit) \in Seq(Word) /\ FlattenSeq(Slices(unit, limit)) = unit
      BY <3>4, SlicesAreWords
    <3>6. Slices(unit, limit) \in Seq(Fit(limit))
      BY <1>2, <3>5
    <3> HIDE DEF r
    <3> QED BY <2>1, <3>5, <3>6 DEF Breaks, r
  <2> QED BY <2>2, <2>3
<1> QED BY <1>4, <1>5

\* Splitting (_split_text) loses nothing, and a part above the limit is one word or a slice of one.
THEOREM SplitTextParts ==
  ASSUME NEW text \in Text, NEW limit \in Nat
  PROVE  /\ SplitText(text, limit) \in Seq(Fit(limit))
         /\ FlattenSeq(SplitText(text, limit)) = text
<1> DEFINE units == Units(text)
           broken == [n \in DOMAIN units |-> HardSplit(units[n], limit)]
<1>1. units \in Seq(Text) /\ FlattenSeq(units) = text
  BY UnitsAreTexts
<1>2. SplitText(text, limit) = Pack(units, limit, broken)
  BY DEF SplitText
<1>3. \A n \in 1..Len(units) : Breaks(units[n], limit, broken[n])
  <2> HIDE DEF units
  <2>1. \A n \in 1..Len(units) : units[n] \in Text /\ broken[n] = HardSplit(units[n], limit)
    BY <1>1
  <2> HIDE DEF broken
  <2> QED BY <2>1, HardSplitBreaks
<1> HIDE DEF units, broken
<1>4. /\ Pack(units, limit, broken) \in Seq(Fit(limit))
      /\ FlattenSeq(Pack(units, limit, broken)) = FlattenSeq(units)
  BY <1>1, <1>3, PackWhole
<1> QED BY <1>1, <1>2, <1>4

(***************************************************************************)
(* Selections and substitutions of chunks, on lists put together            *)
(***************************************************************************)
LEMMA OfIsOnly ==
  ASSUME NEW cs \in Seq(Chunk), NEW p
  PROVE  Of(p, cs) = Only(cs, {c \in Chunk : c.parent = p})
<1> DEFINE S == {c \in Chunk : c.parent = p}
           P == {k \in DOMAIN cs : cs[k].parent = p}
<1>1. \A n \in DOMAIN cs : n \in P <=> cs[n] \in S
  OBVIOUS
<1>2. At(cs, P) = Only(cs, S)
  <2> HIDE DEF S, P
  <2> QED BY <1>1, AtIsOnly
<1> QED BY <1>2 DEF Of

\* Without as a selection.
LEMMA WithoutIsOnly ==
  ASSUME NEW cs \in Seq(Chunk), NEW x
  PROVE  Without(cs, x) = Only(cs, {c \in Chunk : c.id # x.id})
<1> DEFINE S == {c \in Chunk : c.id # x.id}
           P == {k \in DOMAIN cs : cs[k].id # x.id}
<1>1. \A n \in DOMAIN cs : n \in P <=> cs[n] \in S
  OBVIOUS
<1>2. At(cs, P) = Only(cs, S)
  <2> HIDE DEF S, P
  <2> QED BY <1>1, AtIsOnly
<1> QED BY <1>2 DEF Without

\* Unlisted as a selection.
LEMMA UnlistedIsOnly ==
  ASSUME NEW T, NEW ids \in Seq(T), NEW id
  PROVE  Unlisted(ids, id) = Only(ids, T \ {id})
<1> DEFINE S == T \ {id}
           P == {k \in DOMAIN ids : ids[k] # id}
<1>1. \A n \in DOMAIN ids : n \in P <=> ids[n] \in S
  OBVIOUS
<1>2. At(ids, P) = Only(ids, S)
  <2> HIDE DEF S, P
  <2> QED BY <1>1, AtIsOnly
<1> QED BY <1>2 DEF Unlisted

\* Media as a selection.
LEMMA MediaIsOnly ==
  ASSUME NEW cs \in Seq(Chunk)
  PROVE  Media(cs) = Only(cs, {c \in Chunk : Protected(c)})
<1> DEFINE S == {c \in Chunk : Protected(c)}
           P == {k \in DOMAIN cs : Protected(cs[k])}
<1>1. \A n \in DOMAIN cs : n \in P <=> cs[n] \in S
  OBVIOUS
<1>2. At(cs, P) = Only(cs, S)
  <2> HIDE DEF S, P
  <2> QED BY <1>1, AtIsOnly
<1> QED BY <1>2 DEF Media

\* The children of a parent, from two lists.
LEMMA OfConcat ==
  ASSUME NEW s \in Seq(Chunk), NEW t \in Seq(Chunk), NEW p
  PROVE  Of(p, s) \in Seq(Chunk) /\ Of(p, s \o t) = Of(p, s) \o Of(p, t)
<1> DEFINE S == {c \in Chunk : c.parent = p}
<1>1. s \o t \in Seq(Chunk)
  BY ConcatProperties
<1>2. Of(p, s) = Only(s, S) /\ Of(p, t) = Only(t, S) /\ Of(p, s \o t) = Only(s \o t, S)
  BY <1>1, OfIsOnly
<1> HIDE DEF S
<1>3. Only(s \o t, S) = Only(s, S) \o Only(t, S)
  BY OnlyConcat
<1>4. Only(s, S) \in Seq(Chunk)
  BY OnlyType
<1> QED BY <1>2, <1>3, <1>4

\* The children of a parent, from one chunk.
LEMMA OfOne ==
  ASSUME NEW x \in Chunk, NEW p
  PROVE  Of(p, <<x>>) = IF x.parent = p THEN <<x>> ELSE <<>>
<1>1. <<x>> \in Seq(Chunk)
  OBVIOUS
<1>2. Of(p, <<x>>) = Only(<<x>>, {c \in Chunk : c.parent = p})
  BY <1>1, OfIsOnly
<1> QED BY <1>2, OnlyOne

\* The children of a parent are the chunks that name it.
LEMMA OfElements ==
  ASSUME NEW s \in Seq(Chunk), NEW p
  PROVE  ToSet(Of(p, s)) = {c \in ToSet(s) : c.parent = p} /\ Len(Of(p, s)) <= Len(s)
<1> DEFINE S == {c \in Chunk : c.parent = p}
           o == Only(s, S)
<1>1. Of(p, s) = o
  BY OfIsOnly
<1>2. /\ \A n \in 1..Len(o) : o[n] \in S /\ \E m \in 1..Len(s) : s[m] = o[n]
      /\ \A m \in 1..Len(s) : s[m] \in S => \E n \in 1..Len(o) : s[m] = o[n]
      /\ Len(o) <= Len(s)
  <2> HIDE DEF S
  <2> QED BY OnlyElements
<1>3. DOMAIN s = 1..Len(s) /\ DOMAIN o = 1..Len(o) /\ \A m \in 1..Len(s) : s[m] \in Chunk
  <2>1. o \in Seq(Chunk)
    <3> HIDE DEF S
    <3> QED BY OnlyType
  <2> HIDE DEF o
  <2> QED BY <2>1, LenProperties
<1> HIDE DEF o
<1>4. ASSUME NEW n \in 1..Len(o) PROVE o[n] \in ToSet(s) /\ o[n].parent = p
  <2>1. PICK m \in 1..Len(s) : s[m] = o[n]
    BY <1>2
  <2>2. o[n].parent = p
    BY <1>2
  <2> QED BY <1>3, <2>1, <2>2 DEF ToSet
<1>5. ASSUME NEW m \in 1..Len(s), s[m].parent = p PROVE s[m] \in ToSet(o)
  <2>1. s[m] \in S
    BY <1>3, <1>5
  <2>2. PICK n \in 1..Len(o) : s[m] = o[n]
    BY <1>2, <2>1
  <2> QED BY <1>3, <2>2 DEF ToSet
<1>6. ToSet(o) = {o[n] : n \in 1..Len(o)} /\ ToSet(s) = {s[m] : m \in 1..Len(s)}
  BY <1>3 DEF ToSet
<1>7. ToSet(o) = {c \in ToSet(s) : c.parent = p}
  <2> HIDE DEF S
  <2> QED BY <1>4, <1>5, <1>6
<1> QED BY <1>1, <1>2, <1>7

\* Taking a chunk out of two lists.
LEMMA WithoutConcat ==
  ASSUME NEW s \in Seq(Chunk), NEW t \in Seq(Chunk), NEW x
  PROVE  Without(s \o t, x) = Without(s, x) \o Without(t, x)
<1> DEFINE S == {c \in Chunk : c.id # x.id}
<1>1. s \o t \in Seq(Chunk)
  BY ConcatProperties
<1>2. Without(s, x) = Only(s, S) /\ Without(t, x) = Only(t, S) /\ Without(s \o t, x) = Only(s \o t, S)
  BY <1>1, WithoutIsOnly
<1> HIDE DEF S
<1> QED BY <1>2, OnlyConcat

\* Taking out what is not there.
LEMMA WithoutNone ==
  ASSUME NEW s \in Seq(Chunk), NEW x, \A c \in ToSet(s) : c.id # x.id
  PROVE  Without(s, x) = s
<1> DEFINE S == {c \in Chunk : c.id # x.id}
<1>1. ToSet(s) \subseteq S
  BY ToSetType
<1>2. Only(s, S) = s
  <2> HIDE DEF S
  <2> QED BY <1>1, OnlyAll
<1> QED BY <1>2, WithoutIsOnly

\* Taking a chunk out of a list of one.
LEMMA WithoutOne ==
  ASSUME NEW y \in Chunk, NEW x
  PROVE  Without(<<y>>, x) = IF y.id = x.id THEN <<>> ELSE <<y>>
<1>1. <<y>> \in Seq(Chunk)
  OBVIOUS
<1>2. Without(<<y>>, x) = Only(<<y>>, {c \in Chunk : c.id # x.id})
  BY <1>1, WithoutIsOnly
<1> QED BY <1>2, OnlyOne

\* What a chunk with the id of x becomes.
Swap(x) == [c \in Chunk |-> IF c.id = x.id THEN x ELSE c]

\* The type of Swap.
LEMMA SwapType == ASSUME NEW x \in Chunk PROVE Swap(x) \in [Chunk -> Chunk]
  BY DEF Swap

\* With as a function applied to each chunk.
LEMMA WithIsMapped ==
  ASSUME NEW cs \in Seq(Chunk), NEW x
  PROVE  With(cs, x) = Mapped(Swap(x), cs)
<1>1. \A k \in DOMAIN cs : cs[k] \in Chunk
  OBVIOUS
<1>2. \A k \in DOMAIN cs : Swap(x)[cs[k]] = IF cs[k].id = x.id THEN x ELSE cs[k]
  BY <1>1 DEF Swap
<1> QED BY <1>2 DEF With, Mapped

\* Replacing a chunk in two lists.
LEMMA WithConcat ==
  ASSUME NEW s \in Seq(Chunk), NEW t \in Seq(Chunk), NEW x \in Chunk
  PROVE  With(s, x) \in Seq(Chunk) /\ With(s \o t, x) = With(s, x) \o With(t, x)
<1>1. s \o t \in Seq(Chunk)
  BY ConcatProperties
<1>2. /\ With(s, x) = Mapped(Swap(x), s) /\ With(t, x) = Mapped(Swap(x), t)
      /\ With(s \o t, x) = Mapped(Swap(x), s \o t)
  BY <1>1, WithIsMapped
<1> DEFINE h == Swap(x)
<1>3. h \in [Chunk -> Chunk]
  BY SwapType
<1> HIDE DEF h
<1>4. Mapped(h, s) \in Seq(Chunk)
  BY <1>3, MapType
<1>5. Mapped(h, s \o t) = Mapped(h, s) \o Mapped(h, t)
  BY MapConcat
<1> QED BY <1>2, <1>4, <1>5 DEF h

\* Replacing what is not there.
LEMMA WithNone ==
  ASSUME NEW s \in Seq(Chunk), NEW x, \A c \in ToSet(s) : c.id # x.id
  PROVE  With(s, x) = s
<1>1. \A k \in DOMAIN s : s[k].id # x.id
  BY DEF ToSet
<1>2. With(s, x) = [k \in DOMAIN s |-> s[k]]
  BY <1>1 DEF With
<1>3. s = [k \in DOMAIN s |-> s[k]]
  OBVIOUS
<1> QED BY <1>2, <1>3

\* Replacing a chunk in a list of one.
LEMMA WithOne ==
  ASSUME NEW y \in Chunk, NEW x
  PROVE  With(<<y>>, x) = IF y.id = x.id THEN <<x>> ELSE <<y>>
<1>1. <<y>> \in Seq(Chunk)
  OBVIOUS
<1>2. Swap(x)[y] = IF y.id = x.id THEN x ELSE y
  BY DEF Swap
<1>3. With(<<y>>, x) = <<Swap(x)[y]>>
  BY <1>1, WithIsMapped, MapOne
<1> QED BY <1>2, <1>3

\* The id of a chunk, as a function.
IdOf == [c \in Chunk |-> c.id]

\* Ids as a function applied to each chunk.
LEMMA IdsIsMapped ==
  ASSUME NEW cs \in Seq(Chunk)
  PROVE  Ids(cs) = Mapped(IdOf, cs) /\ IdOf \in [Chunk -> Seq(Nat)]
<1>1. \A k \in DOMAIN cs : cs[k] \in Chunk
  OBVIOUS
<1>2. \A k \in DOMAIN cs : IdOf[cs[k]] = cs[k].id
  BY <1>1 DEF IdOf
<1>3. IdOf \in [Chunk -> Seq(Nat)]
  BY DEF IdOf, Chunk
<1> QED BY <1>2, <1>3 DEF Ids, Mapped

\* The ids of two lists.
LEMMA IdsConcat ==
  ASSUME NEW s \in Seq(Chunk), NEW t \in Seq(Chunk)
  PROVE  /\ Ids(s) \in Seq(Seq(Nat)) /\ Len(Ids(s)) = Len(s)
         /\ Ids(s \o t) = Ids(s) \o Ids(t)
<1> DEFINE I == Seq(Nat)
<1>1. s \o t \in Seq(Chunk)
  BY ConcatProperties
<1>2. /\ Ids(s) = Mapped(IdOf, s) /\ Ids(t) = Mapped(IdOf, t)
      /\ Ids(s \o t) = Mapped(IdOf, s \o t) /\ IdOf \in [Chunk -> I]
  BY <1>1, IdsIsMapped
<1> DEFINE h == IdOf
<1>3. h \in [Chunk -> I]
  BY <1>2
<1> HIDE DEF I, h
<1>4. Mapped(h, s) \in Seq(I)
  BY <1>3, MapType
<1>6. Len(Mapped(h, s)) = Len(s)
  BY MapLen
<1>5. Mapped(h, s \o t) = Mapped(h, s) \o Mapped(h, t)
  BY MapConcat
<1> QED BY <1>2, <1>4, <1>5, <1>6 DEF I, h

\* The ids of a list of one.
LEMMA IdsOne == ASSUME NEW x \in Chunk PROVE Ids(<<x>>) = <<x.id>>
<1>1. <<x>> \in Seq(Chunk) /\ IdOf[x] = x.id
  BY DEF IdOf
<1>2. Ids(<<x>>) = Mapped(IdOf, <<x>>)
  BY <1>1, IdsIsMapped
<1> QED BY <1>1, <1>2, MapOne

\* The ids are those of the chunks.
LEMMA IdsElements ==
  ASSUME NEW s \in Seq(Chunk)
  PROVE  ToSet(Ids(s)) = {c.id : c \in ToSet(s)}
  BY DEF Ids, ToSet

(***************************************************************************)
(* The order of the chunks                                                  *)
(***************************************************************************)
LEMMA InOrderConcat ==
  ASSUME NEW s \in Seq(Chunk), NEW t \in Seq(Chunk)
  PROVE  InOrder(s \o t) <=> /\ InOrder(s) /\ InOrder(t)
                             /\ \A c \in ToSet(s), d \in ToSet(t) : Before(c, d)
<1> DEFINE u == s \o t
           N == Len(s)
           M == Len(t)
<1>1. /\ u \in Seq(Chunk) /\ N \in Nat /\ M \in Nat /\ Len(u) = N + M
      /\ \A n \in 1..N : n \in 1..Len(u) /\ u[n] = s[n]
      /\ \A n \in 1..M : N + n \in 1..Len(u) /\ u[N + n] = t[n]
      /\ \A n \in 1..Len(u) : n \in 1..N \/ \E m \in 1..M : n = N + m
  BY ConcatIndex
<1>2. DOMAIN s = 1..N /\ DOMAIN t = 1..M /\ DOMAIN u = 1..Len(u)
  BY <1>1
<1> HIDE DEF u, N, M
<1>3. ASSUME InOrder(u)
      PROVE  InOrder(s) /\ InOrder(t) /\ \A c \in ToSet(s), d \in ToSet(t) : Before(c, d)
  <2>1. ASSUME NEW i \in 1..N, NEW j \in 1..N, i < j PROVE Before(s[i], s[j])
    BY <1>1, <1>2, <1>3, <2>1 DEF InOrder
  <2>2. ASSUME NEW i \in 1..M, NEW j \in 1..M, i < j PROVE Before(t[i], t[j])
    <3>1. N + i < N + j
      BY <1>1, <2>2
    <3>2. N + i \in DOMAIN u /\ N + j \in DOMAIN u /\ u[N + i] = t[i] /\ u[N + j] = t[j]
      BY <1>1, <1>2
    <3>3. Before(u[N + i], u[N + j])
      BY <1>3, <3>1, <3>2 DEF InOrder
    <3> QED BY <3>2, <3>3
  <2>3. ASSUME NEW i \in 1..N, NEW j \in 1..M PROVE Before(s[i], t[j])
    <3>1. i < N + j
      BY <1>1, <2>3
    <3> QED BY <1>1, <1>2, <1>3, <3>1 DEF InOrder
  <2> QED BY <1>2, <2>1, <2>2, <2>3 DEF InOrder, ToSet
<1>4. ASSUME InOrder(s), InOrder(t), \A c \in ToSet(s), d \in ToSet(t) : Before(c, d)
      PROVE  InOrder(u)
  <2>1. SUFFICES ASSUME NEW i \in 1..Len(u), NEW j \in 1..Len(u), i < j
                 PROVE  Before(u[i], u[j])
    BY <1>2 DEF InOrder
  <2>2. CASE i \in 1..N /\ j \in 1..N
    BY <1>1, <1>2, <1>4, <2>1, <2>2 DEF InOrder
  <2>3. ASSUME i \in 1..N, NEW m \in 1..M, j = N + m PROVE Before(u[i], u[j])
    BY <1>1, <1>2, <1>4, <2>3 DEF ToSet
  <2>4. ASSUME NEW n \in 1..M, i = N + n, NEW m \in 1..M, j = N + m PROVE Before(u[i], u[j])
    <3>1. n < m
      BY <1>1, <2>1, <2>4
    <3>2. Before(t[n], t[m])
      BY <1>2, <1>4, <3>1 DEF InOrder
    <3> QED BY <1>1, <2>4, <3>2
  <2>5. ASSUME NEW n \in 1..M, i = N + n, j \in 1..N PROVE FALSE
    BY <1>1, <2>1, <2>5
  <2> QED BY <1>1, <2>2, <2>3, <2>4, <2>5
<1> QED BY <1>3, <1>4 DEF u

\* The order of no, one and two chunks.
LEMMA InOrderShort ==
  /\ InOrder(<<>>)
  /\ \A x : InOrder(<<x>>)
  /\ \A x, y : InOrder(<<x, y>>) <=> Before(x, y)
<1>1. InOrder(<<>>)
  BY DEF InOrder
<1>2. ASSUME NEW x PROVE InOrder(<<x>>)
  BY DEF InOrder
<1>3. ASSUME NEW x, NEW y PROVE InOrder(<<x, y>>) <=> Before(x, y)
  <2>1. DOMAIN <<x, y>> = 1..2 /\ <<x, y>>[1] = x /\ <<x, y>>[2] = y
    OBVIOUS
  <2> DEFINE s == <<x, y>>
  <2> HIDE DEF s
  <2>2. DOMAIN s = 1..2 /\ s[1] = x /\ s[2] = y
    BY <2>1 DEF s
  <2>3. \A i \in 1..2, j \in 1..2 : i < j <=> i = 1 /\ j = 2
    OBVIOUS
  <2>4. InOrder(s) <=> Before(x, y)
    BY <2>2, <2>3 DEF InOrder
  <2> QED BY <2>4 DEF s
<1> QED BY <1>1, <1>2, <1>3

\* A list of which the middle Q is looked at.
LEMMA InOrderAround ==
  ASSUME NEW a \in Seq(Chunk), NEW q \in Seq(Chunk), NEW c \in Seq(Chunk)
  PROVE  InOrder((a \o q) \o c) <=>
            /\ InOrder(a) /\ InOrder(q) /\ InOrder(c)
            /\ \A x \in ToSet(a), y \in ToSet(q) : Before(x, y)
            /\ \A x \in ToSet(a), y \in ToSet(c) : Before(x, y)
            /\ \A x \in ToSet(q), y \in ToSet(c) : Before(x, y)
<1> DEFINE b == a \o q
<1>1. b \in Seq(Chunk)
  BY ConcatProperties
<1>2. ToSet(b) = ToSet(a) \cup ToSet(q)
  BY ToSetConcat
<1>3. InOrder(b) <=> /\ InOrder(a) /\ InOrder(q)
                     /\ \A x \in ToSet(a), y \in ToSet(q) : Before(x, y)
  BY InOrderConcat
<1> HIDE DEF b
<1>4. InOrder(b \o c) <=> /\ InOrder(b) /\ InOrder(c)
                          /\ \A x \in ToSet(b), y \in ToSet(c) : Before(x, y)
  BY <1>1, InOrderConcat
<1>5. InOrder(b \o c) <=>
        /\ InOrder(a) /\ InOrder(q) /\ InOrder(c)
        /\ \A x \in ToSet(a), y \in ToSet(q) : Before(x, y)
        /\ \A x \in ToSet(a), y \in ToSet(c) : Before(x, y)
        /\ \A x \in ToSet(q), y \in ToSet(c) : Before(x, y)
  BY <1>2, <1>3, <1>4
<1> QED BY <1>5 DEF b

\* The elements of three lists.
LEMMA ToSetAround ==
  ASSUME NEW T, NEW a \in Seq(T), NEW q \in Seq(T), NEW c \in Seq(T)
  PROVE  /\ (a \o q) \o c \in Seq(T)
         /\ ToSet((a \o q) \o c) = ToSet(a) \cup ToSet(q) \cup ToSet(c)
<1> DEFINE b == a \o q
<1>1. b \in Seq(T)
  BY ConcatProperties
<1>2. ToSet(b) = ToSet(a) \cup ToSet(q)
  BY ToSetConcat
<1> HIDE DEF b
<1>3. b \o c \in Seq(T)
  BY <1>1, ConcatProperties
<1>4. ToSet(b \o c) = ToSet(b) \cup ToSet(c)
  BY <1>1, ToSetConcat
<1> QED BY <1>2, <1>3, <1>4 DEF b

\* A chunk emitted, or a part of one.
Sized(c) == c \in Chunk /\ Len(c.id) \in {1, 2}

\* A chunk that comes before another has another id.
LEMMA BeforeDiffers ==
  ASSUME NEW c, NEW d, Sized(c), Sized(d), Before(c, d)
  PROVE  c.id # d.id
<1>1. c.id \in Seq(Nat) /\ Len(c.id) \in {1, 2}
  BY DEF Sized, Chunk
<1>2. c.id[1] \in Nat /\ (Len(c.id) = 2 => c.id[2] \in Nat)
  BY <1>1
<1> QED BY <1>2 DEF Before

\* No chunk of a list in order has the id of another one.
LEMMA DistinctAround ==
  ASSUME NEW a \in Seq(Chunk), NEW q \in Seq(Chunk), NEW c \in Seq(Chunk),
         InOrder((a \o q) \o c), \A x \in ToSet((a \o q) \o c) : Sized(x)
  PROVE  /\ \A x \in ToSet(a), y \in ToSet(q) : x.id # y.id
         /\ \A x \in ToSet(c), y \in ToSet(q) : x.id # y.id
<1>1. /\ \A x \in ToSet(a), y \in ToSet(q) : Before(x, y)
      /\ \A x \in ToSet(q), y \in ToSet(c) : Before(x, y)
  BY InOrderAround
<1>2. \A x \in ToSet(a) \cup ToSet(q) \cup ToSet(c) : Sized(x)
  BY ToSetAround
<1>3. ASSUME NEW x \in ToSet(a), NEW y \in ToSet(q) PROVE x.id # y.id
  BY <1>1, <1>2, BeforeDiffers
<1>4. ASSUME NEW x \in ToSet(c), NEW y \in ToSet(q) PROVE x.id # y.id
  BY <1>1, <1>2, BeforeDiffers
<1> QED BY <1>3, <1>4

\* Chunks in order do not share an id.
LEMMA DistinctIds ==
  ASSUME NEW cs \in Seq(Chunk), InOrder(cs), \A x \in ToSet(cs) : Sized(x)
  PROVE  IsInjective(Ids(cs))
<1>1. ASSUME NEW i \in DOMAIN cs, NEW j \in DOMAIN cs, i < j PROVE cs[i].id # cs[j].id
  <2>1. Before(cs[i], cs[j])
    BY <1>1 DEF InOrder
  <2>2. Sized(cs[i]) /\ Sized(cs[j])
    BY DEF ToSet
  <2> QED BY <2>1, <2>2, BeforeDiffers
<1>2. \A i, j \in DOMAIN cs : i < j \/ j < i \/ i = j
  OBVIOUS
<1>3. \A i, j \in DOMAIN cs : cs[i].id = cs[j].id => i = j
  BY <1>1, <1>2
<1> QED BY <1>3 DEF IsInjective, Ids

(***************************************************************************)
(* Neighbours: two chunks of a parent next to each other among its children *)
(* are next to each other in the package.                                   *)
(***************************************************************************)
ParentOf == [c \in Chunk |-> c.parent]

\* Chunks in order have the children of a parent next to each other.
LEMMA SiblingsTogether ==
  ASSUME NEW cs \in Seq(Chunk), InOrder(cs), NEW p \in Nat
  PROVE  Around(Chunk, cs, Of(p, cs))
<1> DEFINE key == ParentOf
           Below == {x \in Chunk : x.parent < p}
           Equal == {x \in Chunk : x.parent = p}
           Above == {x \in Chunk : x.parent > p}
           below == Only(cs, Below)
           equal == Only(cs, Equal)
           above == Only(cs, Above)
<1>1. key \in [Chunk -> Int]
  <2>1. \A x \in Chunk : x.parent \in Int
    BY DEF Chunk
  <2> QED BY <2>1 DEF ParentOf
<1>2. \A x \in Chunk : key[x] = x.parent
  BY DEF ParentOf
<1>3. \A i \in 1..Len(cs), j \in 1..Len(cs) : i < j => key[cs[i]] <= key[cs[j]]
  <2>1. \A i \in 1..Len(cs) : cs[i] \in Chunk
    OBVIOUS
  <2>2. \A i \in 1..Len(cs) : i \in DOMAIN cs
    OBVIOUS
  <2> QED BY <2>1, <2>2 DEF InOrder, Before, ParentOf
<1>4. equal = Of(p, cs)
  BY OfIsOnly
<1>5. \A x \in Chunk : /\ x \in Below <=> key[x] < p
                       /\ x \in Equal <=> key[x] = p
                       /\ x \in Above <=> key[x] > p
  BY <1>2
<1>6. p \in Int
  OBVIOUS
<1>7. Glued(cs, below, equal, above)
  <2> HIDE DEF key, Below, Equal, Above
  <2>1. Banded(Chunk, key, p, Below, Equal, Above)
    BY <1>1, <1>5, <1>6 DEF Banded
  <2>2. Growing(key, cs)
    <3> HIDE DEF Growing
    <3> QED BY <1>3, Zenon DEF Growing
  <2> QED BY <2>1, <2>2, OnlyBands
<1> HIDE DEF Below, Above
<1>8. below \in Seq(Chunk) /\ above \in Seq(Chunk)
  BY OnlyType
<1> HIDE DEF below, equal, above
<1> QED BY <1>4, <1>7, <1>8 DEF Around

\* So neighbours among the children of a parent are neighbours in the list of all.
LEMMA Neighbours ==
  ASSUME NEW cs \in Seq(Chunk), InOrder(cs), NEW p \in Nat,
         NEW k \in 1..Len(Of(p, cs)), k < Len(Of(p, cs))
  PROVE  Around(Chunk, cs, <<Of(p, cs)[k], Of(p, cs)[k + 1]>>)
<1> DEFINE o == Of(p, cs)
           q == <<o[k], o[k + 1]>>
<1>1. o \in Seq(Chunk)
  BY OfConcat
<1>2. Around(Chunk, cs, o)
  BY SiblingsTogether
<1>3. k \in 1..Len(o) /\ k < Len(o)
  OBVIOUS
<1> HIDE DEF o
<1>4. Around(Chunk, o, <<o[k], o[k + 1]>>)
  <2>1. \E b \in Seq(Chunk), d \in Seq(Chunk) :
           o = (b \o <<o[k], o[k + 1]>>) \o d /\ Len(b) = k - 1
    BY <1>1, <1>3, AroundTwo
  <2> QED BY <2>1 DEF Around, Glued
<1>5. q \in Seq(Chunk)
  <2>1. k + 1 \in 1..Len(o)
    BY <1>1, <1>3
  <2>2. o[k] \in Chunk /\ o[k + 1] \in Chunk
    BY <1>1, <1>3, <2>1, ElementOfSeq
  <2> QED BY <2>2
<1> HIDE DEF q
<1>6. Around(Chunk, cs, q)
  BY <1>2, <1>4, <1>5, AroundAround DEF q
<1> QED BY <1>6 DEF q, o

(***************************************************************************)
(* What the passes do to a list of chunks, around the chunks they look at   *)
(***************************************************************************)
LEMMA WithoutAround ==
  ASSUME NEW a \in Seq(Chunk), NEW c \in Seq(Chunk), NEW x \in Chunk, NEW y \in Chunk, NEW y2,
         NEW cs, Glued(cs, a, <<x, y>>, c), y2.id = y.id, x.id # y.id,
         \A z \in ToSet(a) \cup ToSet(c) : z.id # y.id
  PROVE  Glued(Without(cs, y2), a, <<x>>, c)
<1> DEFINE sx == <<x>>
           sy == <<y>>
           q == <<x, y>>
           b == a \o q
<1>1. sx \in Seq(Chunk) /\ sy \in Seq(Chunk) /\ q \in Seq(Chunk) /\ q = sx \o sy
  <2>1. sx \o sy = q
    BY PairConcat
  <2>2. sx \in Seq(Chunk) /\ sy \in Seq(Chunk) /\ q \in Seq(Chunk)
    OBVIOUS
  <2> HIDE DEF sx, sy, q
  <2> QED BY <2>1, <2>2
<1>2. Without(sx, y2) = sx /\ Without(sy, y2) = <<>>
  BY WithoutOne
<1> HIDE DEF sx, sy, q
<1>3. b \in Seq(Chunk)
  BY <1>1, ConcatProperties
<1>4. Without(q, y2) = sx
  <2>1. Without(sx \o sy, y2) = Without(sx, y2) \o Without(sy, y2)
    BY <1>1, WithoutConcat
  <2>2. sx \o <<>> = sx
    BY <1>1, ConcatEmptySeq
  <2> QED BY <1>1, <1>2, <2>1, <2>2
<1>5. Without(a, y2) = a /\ Without(c, y2) = c
  <2>1. \A z \in ToSet(a) : z.id # y2.id
    OBVIOUS
  <2>2. \A z \in ToSet(c) : z.id # y2.id
    OBVIOUS
  <2>3. Without(a, y2) = a
    BY <2>1, WithoutNone
  <2>4. Without(c, y2) = c
    BY <2>2, WithoutNone
  <2> QED BY <2>3, <2>4
<1>6. Without(b, y2) = a \o sx
  <2>0. q \in Seq(Chunk)
    BY <1>1
  <2>1. Without(a \o q, y2) = Without(a, y2) \o Without(q, y2)
    BY <2>0, WithoutConcat
  <2> QED BY <1>4, <1>5, <2>1
<1> HIDE DEF b
<1>7. Without(b \o c, y2) = Without(b, y2) \o Without(c, y2)
  BY <1>3, WithoutConcat
<1>8. cs = b \o c
  BY DEF Glued, b, q
<1> QED BY <1>5, <1>6, <1>7, <1>8 DEF Glued, sx

\* Replacing one chunk leaves what is around it.
LEMMA WithAround ==
  ASSUME NEW a \in Seq(Chunk), NEW c \in Seq(Chunk), NEW x \in Chunk, NEW d \in Chunk,
         NEW cs, Glued(cs, a, <<x>>, c),
         d.id = x.id, \A z \in ToSet(a) \cup ToSet(c) : z.id # x.id
  PROVE  Glued(With(cs, d), a, <<d>>, c)
<1> DEFINE sx == <<x>>
           sd == <<d>>
           b == a \o sx
<1>1. sx \in Seq(Chunk)
  OBVIOUS
<1>2. With(sx, d) = sd
  BY WithOne
<1> HIDE DEF sx, sd
<1>3. b \in Seq(Chunk)
  BY <1>1, ConcatProperties
<1>4. With(a, d) = a /\ With(c, d) = c
  <2>1. \A z \in ToSet(a) : z.id # d.id
    OBVIOUS
  <2>2. \A z \in ToSet(c) : z.id # d.id
    OBVIOUS
  <2>3. With(a, d) = a
    BY <2>1, WithNone
  <2>4. With(c, d) = c
    BY <2>2, WithNone
  <2> QED BY <2>3, <2>4
<1>5. With(b, d) = a \o sd
  <2>1. With(a \o sx, d) = With(a, d) \o With(sx, d)
    BY <1>1, WithConcat
  <2> QED BY <1>2, <1>4, <2>1
<1> HIDE DEF b
<1>6. With(b \o c, d) = With(b, d) \o With(c, d)
  BY <1>3, WithConcat
<1>7. cs = b \o c
  BY DEF Glued, b, sx
<1> QED BY <1>4, <1>5, <1>6, <1>7 DEF Glued, sd

(***************************************************************************)
(* What a parent lists: the ids of its children                             *)
(***************************************************************************)
Id == Seq(Nat)
\* What a parent lists, when it agrees with the chunks.
Kids(p, cs) == Ids(Of(p, cs))

\* The ids of the children of a parent, from two lists.
LEMMA KidsConcat ==
  ASSUME NEW s \in Seq(Chunk), NEW t \in Seq(Chunk), NEW p
  PROVE  Kids(p, s) \in Seq(Id) /\ Kids(p, s \o t) = Kids(p, s) \o Kids(p, t)
<1> DEFINE os == Of(p, s)
           ot == Of(p, t)
<1>1. os \in Seq(Chunk) /\ Of(p, s \o t) = os \o ot
  BY OfConcat
<1>2. ot \in Seq(Chunk)
  BY OfConcat
<1> HIDE DEF os, ot
<1>3. Ids(os \o ot) = Ids(os) \o Ids(ot)
  BY <1>1, <1>2, IdsConcat
<1>4. Ids(os) \in Seq(Id)
  BY <1>1, IdsConcat DEF Id
<1> QED BY <1>1, <1>3, <1>4 DEF Kids, os, ot

\* The ids of the children of a parent, from three lists.
LEMMA KidsGlued ==
  ASSUME NEW a \in Seq(Chunk), NEW q \in Seq(Chunk), NEW c \in Seq(Chunk), NEW s,
         Glued(s, a, q, c), NEW p
  PROVE  Glued(Kids(p, s), Kids(p, a), Kids(p, q), Kids(p, c))
<1> DEFINE b == a \o q
<1>1. b \in Seq(Chunk)
  BY ConcatType
<1>2. Kids(p, b) = Kids(p, a) \o Kids(p, q)
  BY KidsConcat
<1>3. s = b \o c
  BY DEF Glued
<1> HIDE DEF b
<1>4. Kids(p, b \o c) = Kids(p, b) \o Kids(p, c)
  BY <1>1, KidsConcat
<1> QED BY <1>2, <1>3, <1>4 DEF Glued

\* The ids of the children of a parent, from one chunk.
LEMMA KidsOne ==
  ASSUME NEW x \in Chunk, NEW p
  PROVE  Kids(p, <<x>>) = IF x.parent = p THEN <<x.id>> ELSE <<>>
<1>1. Of(p, <<x>>) = IF x.parent = p THEN <<x>> ELSE <<>>
  BY OfOne
<1>2. Ids(<<x>>) = <<x.id>>
  BY IdsOne
<1>3. Ids(<<>>) = <<>>
  BY DEF Ids
<1> QED BY <1>1, <1>2, <1>3 DEF Kids

\* The ids of the children of a parent are those of the chunks that name it.
LEMMA KidsElements ==
  ASSUME NEW s \in Seq(Chunk), NEW p
  PROVE  ToSet(Kids(p, s)) = {c.id : c \in {d \in ToSet(s) : d.parent = p}}
<1>1. Of(p, s) \in Seq(Chunk) /\ ToSet(Of(p, s)) = {d \in ToSet(s) : d.parent = p}
  BY OfConcat, OfElements
<1> QED BY <1>1, IdsElements DEF Kids

\* Taking an id out of two lists.
LEMMA UnlistedConcat ==
  ASSUME NEW T, NEW s \in Seq(T), NEW t \in Seq(T), NEW id
  PROVE  Joined(Unlisted(s \o t, id), Unlisted(s, id), Unlisted(t, id))
<1> DEFINE S == T \ {id}
<1>1. s \o t \in Seq(T)
  BY ConcatType
<1>2. Unlisted(s, id) = Only(s, S) /\ Unlisted(t, id) = Only(t, S)
  BY UnlistedIsOnly
<1>3. Unlisted(s \o t, id) = Only(s \o t, S)
  BY <1>1, UnlistedIsOnly
<1> HIDE DEF S
<1>4. Only(s \o t, S) = Only(s, S) \o Only(t, S)
  BY OnlyConcat
<1> QED BY <1>2, <1>3, <1>4 DEF Joined

\* Taking out an id that is not there.
LEMMA UnlistedNone ==
  ASSUME NEW T, NEW s \in Seq(T), NEW id, id \notin ToSet(s)
  PROVE  Unlisted(s, id) = s
<1> DEFINE S == T \ {id}
<1>1. ToSet(s) \subseteq S
  BY ToSetType
<1>2. Unlisted(s, id) = Only(s, S)
  BY UnlistedIsOnly
<1> HIDE DEF S
<1> QED BY <1>1, <1>2, OnlyAll

\* Taking an id out of a list of one.
LEMMA UnlistedOne == ASSUME NEW id PROVE Unlisted(<<id>>, id) = <<>>
<1> DEFINE T == {id}
           s == <<id>>
<1>1. s \in Seq(T)
  OBVIOUS
<1> HIDE DEF T, s
<1>2. Unlisted(s, id) = Only(s, T \ {id})
  BY <1>1, UnlistedIsOnly
<1>3. Only(<<id>>, T \ {id}) = <<>>
  BY OnlyOne
<1> QED BY <1>2, <1>3 DEF s

\* A chunk y goes that one before it has taken: its parent no longer lists it.
LEMMA KidsJoined ==
  ASSUME NEW a \in Seq(Chunk), NEW c \in Seq(Chunk), NEW x \in Chunk, NEW y \in Chunk,
         NEW d \in Chunk, NEW cs, NEW ds,
         Glued(cs, a, <<x, y>>, c), Glued(ds, a, <<d>>, c),
         d.id = x.id, d.parent = x.parent, x.id # y.id,
         \A z \in ToSet(a) \cup ToSet(c) : z.id # y.id,
         NEW p
  PROVE  Kids(p, ds) = Unlisted(Kids(p, cs), y.id)
<1> DEFINE sx == <<x>>
           sy == <<y>>
           sd == <<d>>
           q == <<x, y>>
           U(s) == Unlisted(s, y.id)
<1>1. sx \in Seq(Chunk) /\ sy \in Seq(Chunk) /\ sd \in Seq(Chunk) /\ q \in Seq(Chunk)
  OBVIOUS
<1>2. q = sx \o sy
  BY PairConcat
<1>3. Kids(p, sx) = Kids(p, sd) /\ U(Kids(p, sx)) = Kids(p, sx)
  <2>1. Kids(p, sx) = (IF x.parent = p THEN <<x.id>> ELSE <<>>)
    BY KidsOne
  <2>2. Kids(p, sd) = (IF d.parent = p THEN <<d.id>> ELSE <<>>)
    BY KidsOne
  <2>3. ToSet(Kids(p, sx)) \subseteq {x.id}
    BY <2>1, ToSetOne, ToSetEmpty
  <2>4. Kids(p, sx) \in Seq(Id)
    BY <1>1, KidsConcat
  <2>5. U(Kids(p, sx)) = Kids(p, sx)
    BY <2>3, <2>4, UnlistedNone
  <2> QED BY <2>1, <2>2, <2>5
<1>4. U(Kids(p, sy)) = <<>>
  <2>1. Kids(p, sy) = (IF y.parent = p THEN <<y.id>> ELSE <<>>)
    BY KidsOne
  <2>2. U(<<>>) = <<>>
    <3>1. <<>> \in Seq(Id) /\ y.id \notin ToSet(<<>>)
      BY ToSetEmpty
    <3> QED BY <3>1, UnlistedNone
  <2>3. U(<<y.id>>) = <<>>
    BY UnlistedOne
  <2> QED BY <2>1, <2>2, <2>3
<1> HIDE DEF sx, sy, sd, q
<1>5. Kids(p, q) = Kids(p, sx) \o Kids(p, sy)
  BY <1>1, <1>2, KidsConcat
<1>6. /\ Kids(p, a) \in Seq(Id) /\ Kids(p, c) \in Seq(Id) /\ Kids(p, q) \in Seq(Id)
      /\ Kids(p, sx) \in Seq(Id) /\ Kids(p, sy) \in Seq(Id)
  BY <1>1, KidsConcat
<1>7. Glued(Kids(p, cs), Kids(p, a), Kids(p, q), Kids(p, c))
  BY <1>1, KidsGlued DEF q
<1>8. Glued(Kids(p, ds), Kids(p, a), Kids(p, sd), Kids(p, c))
  BY <1>1, KidsGlued DEF sd
<1>9. U(Kids(p, a)) = Kids(p, a) /\ U(Kids(p, c)) = Kids(p, c)
  <2>1. y.id \notin ToSet(Kids(p, a))
    BY KidsElements
  <2>2. y.id \notin ToSet(Kids(p, c))
    BY KidsElements
  <2>3. U(Kids(p, a)) = Kids(p, a)
    BY <1>6, <2>1, UnlistedNone
  <2>4. U(Kids(p, c)) = Kids(p, c)
    BY <1>6, <2>2, UnlistedNone
  <2> QED BY <2>3, <2>4
<1> DEFINE ka == Kids(p, a)
           kc == Kids(p, c)
           kq == Kids(p, q)
           kx == Kids(p, sx)
           ky == Kids(p, sy)
<1>10. ka \in Seq(Id) /\ kc \in Seq(Id) /\ kq \in Seq(Id) /\ kx \in Seq(Id) /\ ky \in Seq(Id)
  BY <1>6
<1>15. kq = kx \o ky
  BY <1>5
<1>11. Kids(p, cs) = (ka \o kq) \o kc /\ Kids(p, ds) = (ka \o kx) \o kc
  BY <1>3, <1>7, <1>8 DEF Glued
<1>12. U(ka) = ka /\ U(kc) = kc /\ U(kx) = kx /\ U(ky) = <<>>
  BY <1>3, <1>4, <1>9
<1> HIDE DEF ka, kc, kq, kx, ky
<1>13. U(kq) = kx
  <2>1. Joined(U(kx \o ky), U(kx), U(ky))
    BY <1>10, UnlistedConcat
  <2>2. kx \o <<>> = kx
    BY <1>10, ConcatEmptySeq
  <2> QED BY <1>12, <1>15, <2>1, <2>2 DEF Joined
<1>14. U((ka \o kq) \o kc) = (ka \o kx) \o kc
  <2>1. Joined(U(ka \o kq), U(ka), U(kq))
    BY <1>10, UnlistedConcat
  <2> DEFINE k == ka \o kq
  <2>2. k \in Seq(Id)
    BY <1>10, ConcatType
  <2> HIDE DEF k
  <2>3. Joined(U(k \o kc), U(k), U(kc))
    BY <1>10, <2>2, UnlistedConcat
  <2> QED BY <1>12, <1>13, <2>1, <2>3 DEF k, Joined
<1> QED BY <1>11, <1>14

\* A list in which js takes the place of i.
Spread(ids, i, js) == FlattenSeq([k \in DOMAIN ids |-> IF ids[k] = i THEN js ELSE <<ids[k]>>])
SpreadOf(i, js) == [x \in Id |-> IF x = i THEN js ELSE <<x>>]

\* Spread as lists put together.
LEMMA SpreadIsFlat ==
  ASSUME NEW i, NEW js \in Seq(Id), NEW s \in Seq(Id)
  PROVE  /\ Spread(s, i, js) = FlattenSeq(Mapped(SpreadOf(i, js), s))
         /\ Mapped(SpreadOf(i, js), s) \in Seq(Seq(Id))
<1> DEFINE h == SpreadOf(i, js)
           J == Seq(Id)
<1>1. h \in [Id -> J]
  <2>1. ASSUME NEW x \in Id PROVE <<x>> \in J
    OBVIOUS
  <2>2. js \in J
    OBVIOUS
  <2> HIDE DEF J
  <2> QED BY <2>1, <2>2 DEF SpreadOf
<1>2. \A k \in DOMAIN s : s[k] \in Id
  OBVIOUS
<1>3. \A k \in DOMAIN s : h[s[k]] = IF s[k] = i THEN js ELSE <<s[k]>>
  BY <1>2 DEF SpreadOf
<1> HIDE DEF h, J
<1>4. Spread(s, i, js) = FlattenSeq(Mapped(h, s))
  BY <1>3 DEF Spread, Mapped
<1>5. Mapped(h, s) \in Seq(J)
  BY <1>1, MapType
<1> QED BY <1>4, <1>5 DEF h, J

\* Putting ids in the place of one, in two lists.
LEMMA SpreadConcat ==
  ASSUME NEW i, NEW js \in Seq(Id), NEW s \in Seq(Id), NEW t \in Seq(Id)
  PROVE  Joined(Spread(s \o t, i, js), Spread(s, i, js), Spread(t, i, js))
<1> DEFINE h == SpreadOf(i, js)
           ms == Mapped(h, s)
           mt == Mapped(h, t)
<1>1. s \o t \in Seq(Id)
  BY ConcatType
<1>2. /\ Spread(s, i, js) = FlattenSeq(ms) /\ ms \in Seq(Seq(Id))
      /\ Spread(t, i, js) = FlattenSeq(mt) /\ mt \in Seq(Seq(Id))
  BY SpreadIsFlat
<1>3. Spread(s \o t, i, js) = FlattenSeq(Mapped(h, s \o t))
  BY <1>1, SpreadIsFlat
<1> HIDE DEF h
<1>4. Mapped(h, s \o t) = ms \o mt
  BY MapConcat
<1> HIDE DEF ms, mt
<1>5. FlattenSeq(ms \o mt) = FlattenSeq(ms) \o FlattenSeq(mt)
  BY <1>2, FlattenConcat
<1> QED BY <1>2, <1>3, <1>4, <1>5 DEF Joined

\* Putting ids in the place of one that is not there.
LEMMA SpreadNone ==
  ASSUME NEW i, NEW js, NEW s \in Seq(Id), i \notin ToSet(s)
  PROVE  Spread(s, i, js) = s
<1> DEFINE S == ToSet(s)
<1>1. \A k \in DOMAIN s : s[k] # i /\ s[k] \in S
  BY DEF ToSet
<1> HIDE DEF S
<1>2. Spread(s, i, js) = Only(s, S)
  BY <1>1 DEF Spread, Only
<1>3. Only(s, S) = s
  BY OnlyAll DEF S
<1> QED BY <1>2, <1>3

\* Putting ids in the place of the only one.
LEMMA SpreadOne == ASSUME NEW i, NEW js \in Seq(Id) PROVE Spread(<<i>>, i, js) = js
<1>1. [k \in DOMAIN <<i>> |-> IF <<i>>[k] = i THEN js ELSE <<<<i>>[k]>>] = <<js>>
  OBVIOUS
<1>2. FlattenSeq(<<js>>) = js
  BY FlattenOne
<1> QED BY <1>1, <1>2 DEF Spread

\* The parts of a chunk take its place: its parent lists them instead.
LEMMA KidsSplit ==
  ASSUME NEW a \in Seq(Chunk), NEW e \in Seq(Chunk), NEW c \in Chunk, NEW q \in Seq(Chunk),
         NEW cs, NEW ds, Glued(cs, a, <<c>>, e), Glued(ds, a, q, e),
         \A d \in ToSet(q) : d.parent = c.parent,
         \A z \in ToSet(a) \cup ToSet(e) : z.id # c.id,
         NEW p
  PROVE  Kids(p, ds) = Spread(Kids(p, cs), c.id, Ids(q))
<1> DEFINE sc == <<c>>
           S(s) == Spread(s, c.id, Ids(q))
           ka == Kids(p, a)
           ke == Kids(p, e)
           kc == Kids(p, sc)
           kq == Kids(p, q)
<1>1. sc \in Seq(Chunk)
  OBVIOUS
<1>2. Ids(q) \in Seq(Id)
  BY IdsConcat DEF Id
<1>3. kc = (IF c.parent = p THEN <<c.id>> ELSE <<>>)
  BY KidsOne
<1>4. kq = (IF c.parent = p THEN Ids(q) ELSE <<>>)
  <2> DEFINE R == {d \in Chunk : d.parent = p}
  <2>1. Of(p, q) = Only(q, R)
    BY OfIsOnly
  <2>2. CASE c.parent = p
    <3>1. ToSet(q) \subseteq R
      BY <2>2, ToSetType
    <3>2. Only(q, R) = q
      <4> HIDE DEF R
      <4> QED BY <3>1, OnlyAll
    <3> QED BY <2>1, <2>2, <3>2 DEF Kids
  <2>3. CASE c.parent # p
    <3>1. ToSet(q) \cap R = {}
      BY <2>3
    <3>2. Only(q, R) = <<>>
      <4> HIDE DEF R
      <4> QED BY <3>1, OnlyNone
    <3>3. Ids(<<>>) = <<>>
      BY DEF Ids
    <3> QED BY <2>1, <2>3, <3>2, <3>3 DEF Kids
  <2> QED BY <2>2, <2>3
<1>5. S(kc) = kq
  <2>1. S(<<c.id>>) = Ids(q)
    BY <1>2, SpreadOne
  <2>2. S(<<>>) = <<>>
    <3>1. <<>> \in Seq(Id) /\ c.id \notin ToSet(<<>>)
      BY ToSetEmpty
    <3> QED BY <3>1, SpreadNone
  <2> QED BY <1>3, <1>4, <2>1, <2>2
<1>6. S(ka) = ka /\ S(ke) = ke
  <2>1. c.id \notin ToSet(ka)
    BY KidsElements
  <2>2. c.id \notin ToSet(ke)
    BY KidsElements
  <2>3. ka \in Seq(Id)
    BY KidsConcat
  <2>4. ke \in Seq(Id)
    BY KidsConcat
  <2>5. S(ka) = ka
    BY <2>1, <2>3, SpreadNone
  <2>6. S(ke) = ke
    BY <2>2, <2>4, SpreadNone
  <2> QED BY <2>5, <2>6
<1> HIDE DEF sc
<1>7. ka \in Seq(Id) /\ ke \in Seq(Id) /\ kc \in Seq(Id)
  BY <1>1, KidsConcat
<1>8. Kids(p, cs) = (ka \o kc) \o ke
  <2>1. Glued(Kids(p, cs), ka, kc, ke)
    BY <1>1, KidsGlued DEF sc
  <2> QED BY <2>1 DEF Glued
<1>9. Kids(p, ds) = (ka \o kq) \o ke
  <2>1. Glued(Kids(p, ds), ka, kq, ke)
    BY KidsGlued
  <2> QED BY <2>1 DEF Glued
<1> HIDE DEF ka, ke, kc, kq
<1>10. S((ka \o kc) \o ke) = (ka \o kq) \o ke
  <2>1. Joined(S(ka \o kc), S(ka), S(kc))
    BY <1>2, <1>7, SpreadConcat
  <2> DEFINE k == ka \o kc
  <2>2. k \in Seq(Id)
    BY <1>7, ConcatType
  <2> HIDE DEF k
  <2>3. Joined(S(k \o ke), S(k), S(ke))
    BY <1>2, <1>7, <2>2, SpreadConcat
  <2> QED BY <1>5, <1>6, <2>1, <2>3 DEF k, Joined
<1> QED BY <1>8, <1>9, <1>10

(***************************************************************************)
(* Both sides of parent and child, when the lists change                    *)
(***************************************************************************)
LEMMA LinkedReplaced ==
  ASSUME NEW ps, NEW cs, Linked(ps, cs), NEW qs \in Seq(Family), NEW ds, Len(qs) = Len(ps),
         \A i \in DOMAIN ps : /\ qs[i].id = ps[i].id
                              /\ qs[i].kids = Kids(ps[i].id, ds),
         \A d \in ToSet(ds) :
             /\ \E x \in ToSet(cs) : d.parent = x.parent
             /\ \A i \in DOMAIN ps : ps[i].id = d.parent => d.blocks \subseteq qs[i].blocks
  PROVE  Linked(qs, ds)
<1>1. ps \in Seq(Family) /\ DOMAIN ps = DOMAIN qs
  BY DEF Linked
<1>2. \A i, j \in DOMAIN qs : qs[i].id = qs[j].id => i = j
  BY <1>1 DEF Linked
<1>3. ASSUME NEW d \in ToSet(ds) PROVE \E q \in ToSet(qs) : q.id = d.parent
  <2>1. PICK x \in ToSet(cs) : d.parent = x.parent
    OBVIOUS
  <2>2. PICK p \in ToSet(ps) : p.id = x.parent
    BY DEF Linked
  <2>3. PICK i \in DOMAIN ps : p = ps[i]
    BY DEF ToSet
  <2>4. qs[i] \in ToSet(qs) /\ qs[i].id = d.parent
    BY <1>1, <2>1, <2>2, <2>3 DEF ToSet
  <2> QED BY <2>4
<1>4. ASSUME NEW q \in ToSet(qs)
      PROVE  /\ q.kids = Ids(Of(q.id, ds))
             /\ \A d \in ToSet(ds) : d.parent = q.id => d.blocks \subseteq q.blocks
  <2>1. PICK i \in DOMAIN ps : q = qs[i]
    BY <1>1 DEF ToSet
  <2>2. q.id = ps[i].id /\ q.kids = Kids(ps[i].id, ds)
    BY <2>1
  <2>3. q.kids = Ids(Of(q.id, ds))
    BY <2>2 DEF Kids
  <2> QED BY <2>1, <2>2, <2>3
<1> QED BY <1>2, <1>3, <1>4 DEF Linked

\* A parent that goes had no children.
LEMMA LinkedKept ==
  ASSUME NEW ps, NEW cs \in Seq(Chunk), Linked(ps, cs)
  PROVE  Linked(At(ps, {q \in DOMAIN ps : ps[q].kids # <<>>}), cs)
<1> DEFINE S == {p \in Family : p.kids # <<>>}
           P == {q \in DOMAIN ps : ps[q].kids # <<>>}
           qs == Only(ps, S)
<1>1. ps \in Seq(Family)
  BY DEF Linked
<1>2. \A n \in DOMAIN ps : n \in P <=> ps[n] \in S
  BY <1>1
<1>3. At(ps, P) = qs
  <2> HIDE DEF P, S
  <2> QED BY <1>2, AtIsOnly
<1>4. qs \in Seq(Family)
  <2> HIDE DEF S
  <2> QED BY <1>1, OnlyType
<1>5. PICK f : Places(f, qs, ps)
  <2> HIDE DEF S
  <2> QED BY <1>1, OnlyPlaces
<1>6. /\ \A n \in 1..Len(qs) : qs[n] \in S /\ \E m \in 1..Len(ps) : ps[m] = qs[n]
      /\ \A m \in 1..Len(ps) : ps[m] \in S => \E n \in 1..Len(qs) : ps[m] = qs[n]
  <2> HIDE DEF S
  <2> QED BY <1>1, OnlyElements
<1> HIDE DEF qs
<1>7. DOMAIN qs = 1..Len(qs) /\ DOMAIN ps = 1..Len(ps)
  BY <1>1, <1>4
<1>8. \A i, j \in DOMAIN qs : qs[i].id = qs[j].id => i = j
  <2>1. SUFFICES ASSUME NEW i \in 1..Len(qs), NEW j \in 1..Len(qs), qs[i].id = qs[j].id, i # j
                 PROVE  FALSE
    BY <1>7
  <2>2. f[i] \in 1..Len(ps) /\ f[j] \in 1..Len(ps) /\ qs[i] = ps[f[i]] /\ qs[j] = ps[f[j]]
    BY <1>5 DEF Places
  <2>3. f[i] = f[j]
    BY <1>7, <2>1, <2>2 DEF Linked
  <2>4. i < j \/ j < i
    BY <2>1
  <2>5. f[i] < f[j] \/ f[j] < f[i]
    BY <1>5, <2>4 DEF Places
  <2> QED BY <2>2, <2>3, <2>5
<1>9. ToSet(qs) \subseteq ToSet(ps)
  <2>1. \A n \in 1..Len(qs) : \E m \in 1..Len(ps) : ps[m] = qs[n]
    BY <1>6
  <2> QED BY <1>7, <2>1 DEF ToSet
<1>10. ASSUME NEW c \in ToSet(cs) PROVE \E q \in ToSet(qs) : q.id = c.parent
  <2>1. PICK p \in ToSet(ps) : p.id = c.parent
    BY DEF Linked
  <2>2. PICK m \in 1..Len(ps) : p = ps[m]
    BY <1>7 DEF ToSet
  <2>3. c \in {d \in ToSet(cs) : d.parent = p.id}
    BY <2>1
  <2>4. c \in ToSet(Of(p.id, cs))
    BY <2>3, OfElements
  <2>5. Ids(Of(p.id, cs)) # <<>>
    <3>1. Of(p.id, cs) \in Seq(Chunk)
      BY OfConcat
    <3>2. c.id \in ToSet(Ids(Of(p.id, cs)))
      BY <2>4, <3>1, IdsElements
    <3> QED BY <3>2, ToSetEmpty
  <2>6. p.kids = Ids(Of(p.id, cs))
    BY DEF Linked
  <2>7. ps[m] \in S
    BY <1>1, <2>2, <2>5, <2>6
  <2>8. PICK n \in 1..Len(qs) : ps[m] = qs[n]
    BY <1>6, <2>7
  <2>9. qs[n] \in ToSet(qs)
    BY <1>7 DEF ToSet
  <2> QED BY <2>1, <2>2, <2>8, <2>9
<1>11. Linked(qs, cs)
  BY <1>4, <1>8, <1>9, <1>10 DEF Linked
<1> QED BY <1>3, <1>11

(***************************************************************************)
(* What the chunks hold of the text of the document                         *)
(***************************************************************************)
\* Of the tokens of a text, those that are the document's, and their places there; of the chunks
\* of a list, all they say.
OwnTokens == {x \in Token : x.role \in {"body", "punct"}}
PlaceOf == [x \in Token |-> <<x.of, x.role, x.at>>]
Spot == Nat \X Role \X (Nat \X Nat)
Own(text) == Mapped(PlaceOf, Only(text, OwnTokens))
TextOf == [c \in Chunk |-> c.text]
Whole(cs) == FlattenSeq(Mapped(TextOf, cs))

\* The type of Own.
LEMMA OwnType ==
  ASSUME NEW s \in Text
  PROVE  Own(s) \in Seq(Spot) /\ Only(s, OwnTokens) \in Seq(Token)
<1>1. PlaceOf \in [Token -> Spot]
  BY DEF PlaceOf, Token, Spot
<1>2. Only(s, OwnTokens) \in Seq(Token)
  BY OnlyType DEF Text
<1> DEFINE r == Only(s, OwnTokens)
<1> HIDE DEF r
<1>3. Mapped(PlaceOf, r) \in Seq(Spot)
  BY <1>1, <1>2, MapType DEF r
<1> QED BY <1>2, <1>3 DEF Own, r

\* The document's text in two texts.
LEMMA OwnConcat ==
  ASSUME NEW s \in Text, NEW t \in Text
  PROVE  Joined(Own(s \o t), Own(s), Own(t))
<1> DEFINE a == Only(s, OwnTokens)
           b == Only(t, OwnTokens)
<1>1. Only(s \o t, OwnTokens) = a \o b
  BY OnlyConcat DEF Text
<1>2. a \in Seq(Token) /\ b \in Seq(Token)
  BY OwnType
<1> HIDE DEF a, b
<1>3. Mapped(PlaceOf, a \o b) = Mapped(PlaceOf, a) \o Mapped(PlaceOf, b)
  BY <1>2, MapConcat
<1> QED BY <1>1, <1>3 DEF Own, Joined, a, b

\* The document's text in one token.
LEMMA OwnOne ==
  ASSUME NEW x \in Token
  PROVE  Own(<<x>>) = IF x.role \in {"body", "punct"} THEN <<PlaceOf[x]>> ELSE <<>>
<1>1. Only(<<x>>, OwnTokens) = IF x \in OwnTokens THEN <<x>> ELSE <<>>
  BY OnlyOne
<1>2. x \in OwnTokens <=> x.role \in {"body", "punct"}
  BY DEF OwnTokens
<1>3. Mapped(PlaceOf, <<x>>) = <<PlaceOf[x]>> /\ Mapped(PlaceOf, <<>>) = <<>>
  BY MapOne, MapEmpty
<1> QED BY <1>1, <1>2, <1>3 DEF Own

\* A text without words of the document.
LEMMA OwnNone ==
  ASSUME NEW s \in Text, \A x \in ToSet(s) : x.role \notin {"body", "punct"}
  PROVE  Own(s) = <<>>
<1>1. ToSet(s) \cap OwnTokens = {}
  BY DEF OwnTokens
<1>2. Only(s, OwnTokens) = <<>>
  BY <1>1, OnlyNone DEF Text
<1> QED BY <1>2, MapEmpty DEF Own

\* The empty text.
LEMMA OwnEmpty == Own(<<>>) = <<>>
  BY OnlyEmpty, MapEmpty DEF Own

\* All the text of two lists of chunks.
LEMMA WholeConcat ==
  ASSUME NEW s \in Seq(Chunk), NEW t \in Seq(Chunk)
  PROVE  /\ Whole(s) \in Text
         /\ Joined(Whole(s \o t), Whole(s), Whole(t))
<1>1. TextOf \in [Chunk -> Text]
  BY DEF TextOf, Chunk, Text
<1> DEFINE a == Mapped(TextOf, s)
           b == Mapped(TextOf, t)
<1>2. a \in Seq(Text) /\ b \in Seq(Text) /\ Mapped(TextOf, s \o t) = a \o b
  <2>1. a \in Seq(Text)
    BY <1>1, MapType
  <2>2. b \in Seq(Text)
    BY <1>1, MapType
  <2>3. Mapped(TextOf, s \o t) = a \o b
    BY MapConcat
  <2> QED BY <2>1, <2>2, <2>3, Zenon
<1> HIDE DEF a, b
<1>3. FlattenSeq(a) \in Text
  BY <1>2, FlattenType DEF Text
<1>4. FlattenSeq(a \o b) = FlattenSeq(a) \o FlattenSeq(b)
  BY <1>2, FlattenConcat DEF Text
<1> QED BY <1>2, <1>3, <1>4 DEF Whole, Joined, a, b

\* All the text of one chunk.
LEMMA WholeOne ==
  ASSUME NEW x \in Chunk
  PROVE  Whole(<<x>>) = x.text /\ x.text \in Text
<1>1. Mapped(TextOf, <<x>>) = <<x.text>>
  BY MapOne DEF TextOf
<1>2. x.text \in Text
  BY DEF Chunk, Text
<1>3. FlattenSeq(<<x.text>>) = x.text
  BY <1>2, FlattenOne DEF Text
<1> QED BY <1>1, <1>2, <1>3 DEF Whole

\* Written is the document's text in all the text.
LEMMA WrittenIsOwn ==
  ASSUME NEW cs \in Seq(Chunk)
  PROVE  Written(cs) = Own(Whole(cs))
<1> DEFINE texts == FlattenSeq([k \in DOMAIN cs |-> cs[k].text])
           P == {k \in DOMAIN texts : texts[k].role \in {"body", "punct"}}
           kept == At(texts, P)
<1>1. Whole(cs) = texts
  <2>1. [k \in DOMAIN cs |-> cs[k].text] = Mapped(TextOf, cs)
    <3>1. \A k \in DOMAIN cs : TextOf[cs[k]] = cs[k].text
      BY DEF TextOf
    <3> QED BY <3>1 DEF Mapped
  <2> QED BY <2>1 DEF Whole
<1>2. texts \in Text
  BY <1>1, WholeConcat
<1>3. kept = Only(texts, OwnTokens)
  <2> HIDE DEF texts
  <2>1. \A k \in DOMAIN texts : k \in P <=> texts[k] \in OwnTokens
    BY <1>2 DEF OwnTokens, Text
  <2> HIDE DEF P
  <2> QED BY <2>1, AtIsOnly
<1>4. Written(cs) = [k \in DOMAIN kept |-> <<kept[k].of, kept[k].role, kept[k].at>>]
  BY DEF Written
<1> HIDE DEF texts
<1>5. kept \in Seq(Token)
  BY <1>2, <1>3, OwnType
<1> HIDE DEF kept
<1>6. \A k \in DOMAIN kept : PlaceOf[kept[k]] = <<kept[k].of, kept[k].role, kept[k].at>>
  BY <1>5 DEF PlaceOf
<1>7. Mapped(PlaceOf, kept) = [k \in DOMAIN kept |-> <<kept[k].of, kept[k].role, kept[k].at>>]
  BY <1>6 DEF Mapped
<1> QED BY <1>1, <1>3, <1>4, <1>7 DEF Own

\* Written, for two lists of chunks.
LEMMA WrittenConcat ==
  ASSUME NEW s \in Seq(Chunk), NEW t \in Seq(Chunk)
  PROVE  Joined(Written(s \o t), Written(s), Written(t)) /\ Written(s) \in Seq(Spot)
<1>1. s \o t \in Seq(Chunk)
  BY ConcatType
<1>2. Written(s) = Own(Whole(s)) /\ Written(t) = Own(Whole(t)) /\ Written(s \o t) = Own(Whole(s \o t))
  BY <1>1, WrittenIsOwn
<1> DEFINE a == Whole(s)
           b == Whole(t)
<1>3. a \in Text /\ b \in Text /\ Whole(s \o t) = a \o b
  BY WholeConcat DEF Joined
<1> HIDE DEF a, b
<1>4. Joined(Own(a \o b), Own(a), Own(b)) /\ Own(a) \in Seq(Spot)
  BY <1>3, OwnConcat, OwnType
<1> QED BY <1>2, <1>3, <1>4 DEF a, b

\* Written, for one chunk.
LEMMA WrittenOne ==
  ASSUME NEW x \in Chunk
  PROVE  Written(<<x>>) = Own(x.text)
<1>1. <<x>> \in Seq(Chunk)
  OBVIOUS
<1> QED BY <1>1, WrittenIsOwn, WholeOne

\* A replacement within the list that writes the same writes the same in the list.
LEMMA WrittenAround ==
  ASSUME NEW a \in Seq(Chunk), NEW q \in Seq(Chunk), NEW r \in Seq(Chunk), NEW c \in Seq(Chunk),
         NEW cs, NEW ds, Glued(cs, a, q, c), Glued(ds, a, r, c), Written(q) = Written(r)
  PROVE  Written(cs) = Written(ds)
<1>1. ASSUME NEW u \in Seq(Chunk)
      PROVE  Written((a \o u) \o c) = (Written(a) \o Written(u)) \o Written(c)
  <2>1. a \o u \in Seq(Chunk)
    BY ConcatType
  <2>2. Joined(Written((a \o u) \o c), Written(a \o u), Written(c))
    <3> DEFINE v == a \o u
    <3>1. v \in Seq(Chunk)
      BY <2>1
    <3> HIDE DEF v
    <3>2. Joined(Written(v \o c), Written(v), Written(c))
      BY <3>1, WrittenConcat
    <3> QED BY <3>2 DEF v
  <2>3. Joined(Written(a \o u), Written(a), Written(u))
    BY WrittenConcat
  <2> QED BY <2>2, <2>3 DEF Joined
<1> QED BY <1>1 DEF Glued

\* The media of two lists.
LEMMA MediaConcat ==
  ASSUME NEW s \in Seq(Chunk), NEW t \in Seq(Chunk)
  PROVE  Joined(Media(s \o t), Media(s), Media(t))
<1> DEFINE S == {c \in Chunk : Protected(c)}
<1>1. s \o t \in Seq(Chunk)
  BY ConcatType
<1>2. Media(s) = Only(s, S) /\ Media(t) = Only(t, S) /\ Media(s \o t) = Only(s \o t, S)
  BY <1>1, MediaIsOnly
<1> HIDE DEF S
<1>3. Only(s \o t, S) = Only(s, S) \o Only(t, S)
  BY OnlyConcat
<1> QED BY <1>2, <1>3 DEF Joined

\* An exchange that keeps the media of a part keeps those of the list.
LEMMA MediaAround ==
  ASSUME NEW a \in Seq(Chunk), NEW q \in Seq(Chunk), NEW r \in Seq(Chunk), NEW c \in Seq(Chunk),
         NEW cs, NEW ds, Glued(cs, a, q, c), Glued(ds, a, r, c), Media(q) = Media(r)
  PROVE  Media(cs) = Media(ds)
<1>1. ASSUME NEW u \in Seq(Chunk)
      PROVE  Media((a \o u) \o c) = (Media(a) \o Media(u)) \o Media(c)
  <2> DEFINE v == a \o u
  <2>1. v \in Seq(Chunk)
    BY ConcatType
  <2>2. Joined(Media(v), Media(a), Media(u))
    BY MediaConcat
  <2> HIDE DEF v
  <2>3. Joined(Media(v \o c), Media(v), Media(c))
    BY <2>1, MediaConcat
  <2> QED BY <2>2, <2>3 DEF Joined, v
<1> QED BY <1>1 DEF Glued

\* A list without media.
LEMMA MediaNone ==
  ASSUME NEW s \in Seq(Chunk), \A c \in ToSet(s) : ~Protected(c)
  PROVE  Media(s) = <<>>
<1> DEFINE S == {c \in Chunk : Protected(c)}
<1>1. ToSet(s) \cap S = {}
  OBVIOUS
<1>2. Media(s) = Only(s, S)
  BY MediaIsOnly
<1> HIDE DEF S
<1> QED BY <1>1, <1>2, OnlyNone


(***************************************************************************)
(* What a step does to a text                                               *)
(***************************************************************************)
\* No words in text are new.
Within(text, old) ==
    \A t \in ToSet(text) : t.role = "body" =>
        \E u \in ToSet(old) : u.role = "body" /\ u.starts = t.starts /\ u.of = t.of

\* Two texts with words of an old one.
LEMMA WithinConcat ==
  ASSUME NEW s \in Text, NEW t \in Text, NEW old, Within(s, old), Within(t, old)
  PROVE  Within(s \o t, old)
<1>1. ToSet(s \o t) = ToSet(s) \cup ToSet(t)
  BY ToSetConcat DEF Text
<1> QED BY <1>1 DEF Within

\* Some of the tokens of an old text.
LEMMA WithinPart ==
  ASSUME NEW s, NEW old, ToSet(s) \subseteq ToSet(old)
  PROVE  Within(s, old)
BY DEF Within

\* The first token of a text and the others.
LEMMA HeadAndTail ==
  ASSUME NEW s \in Text, s # <<>>
  PROVE  Head(s) \in Token /\ Tail(s) \in Text /\ Joined(s, <<Head(s)>>, Tail(s))
<1>1. Head(s) \in Token /\ Tail(s) \in Seq(Token) /\ Len(Tail(s)) = Len(s) - 1
      /\ \A i \in 1..Len(Tail(s)) : Tail(s)[i] = s[i + 1]
  BY HeadTailProperties DEF Text
<1>2. s = <<Head(s)>> \o Tail(s)
  BY DEF Text
<1> QED BY <1>1, <1>2 DEF Joined, Text

\* A space before a text: its words stay.
LEMMA SpacedText ==
  ASSUME NEW s \in Text, NEW gap \in BOOLEAN
  PROVE  Spaced(s, gap) \in Text /\ Own(Spaced(s, gap)) = Own(s) /\ Within(Spaced(s, gap), s)
<1>1. CASE s = <<>>
  <2>1. Spaced(s, gap) = s
    BY <1>1 DEF Spaced
  <2> QED BY <2>1, WithinPart
<1>2. CASE s # <<>>
  <2> DEFINE h == [s[1] EXCEPT !.gap = gap]
             r == [s EXCEPT ![1].gap = gap]
             t == Tail(s)
             h1 == s[1]
             one == <<h>>
             one1 == <<h1>>
  <2>1. Spaced(s, gap) = r
    BY <1>2 DEF Spaced
  <2>2. s[1] \in Token /\ t \in Text /\ s = <<s[1]>> \o t
    <3>1. Head(s) = s[1]
      OBVIOUS
    <3> QED BY <1>2, <3>1, HeadAndTail DEF Joined
  <2>3. /\ h \in Token /\ h.role = s[1].role /\ h.of = s[1].of /\ h.at = s[1].at
        /\ h.starts = s[1].starts
    BY <2>2 DEF Token
  <2>4. r = <<h>> \o t
    <3>1. Len(s) \in Nat \ {0} /\ DOMAIN s = 1..Len(s)
      BY <1>2 DEF Text
    <3>2. r = [i \in 1..Len(s) |-> IF i = 1 THEN h ELSE s[i]]
      BY <3>1
    <3>3. Len(t) = Len(s) - 1 /\ \A i \in 1..Len(t) : t[i] = s[i + 1]
      BY <1>2, HeadTailProperties DEF Text
    <3> HIDE DEF h, r, t
    <3>4. <<h>> \o t = [i \in 1..(1 + Len(t)) |-> IF i <= 1 THEN <<h>>[i] ELSE t[i - 1]]
      BY <2>2 DEF Text
    <3>5. \A i \in 1..Len(s) : (IF i <= 1 THEN <<h>>[i] ELSE t[i - 1]) = IF i = 1 THEN h ELSE s[i]
      BY <3>1, <3>3
    <3>6. 1 + Len(t) = Len(s)
      BY <3>1, <3>3
    <3> QED BY <3>2, <3>4, <3>5, <3>6
  <2>5. one \in Text /\ one1 \in Text
    BY <2>2, <2>3 DEF Text
  <2>6. Own(one) = Own(one1)
    <3>0. \A x \in Token : PlaceOf[x] = <<x.of, x.role, x.at>>
      BY DEF PlaceOf
    <3>1. PlaceOf[h] = PlaceOf[h1]
      <4>1. h1 \in Token /\ h \in Token /\ h.role = h1.role /\ h.of = h1.of /\ h.at = h1.at
        BY <2>2, <2>3
      <4> HIDE DEF h, h1
      <4> QED BY <3>0, <4>1
    <3> HIDE DEF h, h1
    <3> QED BY <2>2, <2>3, <3>1, OwnOne DEF h1
  <2> HIDE DEF one, one1, t, r, h, h1
  <2>7. Joined(Own(one \o t), Own(one), Own(t)) /\ Joined(Own(one1 \o t), Own(one1), Own(t))
    BY <2>2, <2>5, OwnConcat
  <2>8. Own(r) = Own(s)
    BY <2>2, <2>4, <2>6, <2>7 DEF Joined, one, one1, h1
  <2>9. r \in Text
    BY <2>2, <2>4, <2>5, ConcatType DEF Text, one
  <2>10. Within(r, s)
    <3>1. ToSet(one \o t) = ToSet(one) \cup ToSet(t)
      BY <2>2, <2>5, ToSetConcat DEF Text
    <3>2. ToSet(one1 \o t) = ToSet(one1) \cup ToSet(t)
      BY <2>2, <2>5, ToSetConcat DEF Text
    <3>3. ToSet(one) = {h} /\ ToSet(one1) = {h1}
      BY ToSetOne DEF one, one1
    <3>4. ToSet(r) = {h} \cup ToSet(t) /\ ToSet(s) = {h1} \cup ToSet(t)
      BY <2>2, <2>4, <3>1, <3>2, <3>3 DEF one, one1, h1
    <3> QED BY <2>3, <3>4 DEF Within, h1
  <2> QED BY <2>1, <2>8, <2>9, <2>10
<1> QED BY <1>1, <1>2

\* A text without its running headers: its words stay.
LEMMA StrippedText ==
  ASSUME NEW s \in Text
  PROVE  /\ StripHeaders(s) \in Text /\ Own(StripHeaders(s)) = Own(s) /\ Within(StripHeaders(s), s)
<1> DEFINE others == {k \in DOMAIN s : s[k].role # "header"}
<1>1. Len(s) \in Nat /\ DOMAIN s = 1..Len(s) /\ \A k \in 1..Len(s) : s[k] \in Token
  BY DEF Text
<1>2. CASE others = {}
  <2>1. StripHeaders(s) = <<>>
    BY <1>2 DEF StripHeaders
  <2>2. \A x \in ToSet(s) : x.role \notin {"body", "punct"}
    BY <1>1, <1>2 DEF ToSet
  <2>3. Own(s) = <<>>
    BY <2>2, OwnNone
  <2>4. <<>> \in Text /\ ToSet(<<>>) = {}
    BY ToSetEmpty DEF Text
  <2> QED BY <2>1, <2>3, <2>4, OwnEmpty DEF Within
<1>3. CASE others # {}
  <2>1. others \subseteq Nat
    BY <1>1
  <2>2. PICK m \in others : \A n \in others : m <= n
    <3> HIDE DEF others
    <3> QED BY <1>3, <2>1, LeastElement
  <2>3. Min(others) = m
    <3>1. \A x \in others : (\A y \in others : x <= y) => x = m
      BY <2>1, <2>2
    <3> HIDE DEF others
    <3> QED BY <2>2, <3>1 DEF Min
  <2> DEFINE a == SubSeq(s, 1, m - 1)
             r == SubSeq(s, m, Len(s))
  <2>4. StripHeaders(s) = r
    BY <1>3, <2>3 DEF StripHeaders
  <2>5. m \in 1..Len(s)
    BY <1>1, <2>2
  <2> HIDE DEF others
  <2>6. a \in Text /\ Len(a) = m - 1 /\ \A i \in 1..(m - 1) : a[i] = s[i]
    BY <1>1, <2>5 DEF Text
  <2>7. r \in Text
    BY <1>1, <2>5 DEF Text
  <2>8. s = a \o r
    <3>1. m - 1 \in (1 - 1)..Len(s) /\ Len(s) \in (m - 1)..Len(s) /\ (m - 1) + 1 = m /\ 1 \in 1..Len(s) + 1
      BY <1>1, <2>5
    <3>2. SubSeq(s, 1, m - 1) \o SubSeq(s, (m - 1) + 1, Len(s)) = SubSeq(s, 1, Len(s))
      BY <3>1, ConcatAdjacentSubSeq DEF Text
    <3>3. SubSeq(s, 1, Len(s)) = s
      BY SubSeqFull DEF Text
    <3> QED BY <3>1, <3>2, <3>3
  <2>9. \A x \in ToSet(a) : x.role \notin {"body", "punct"}
    <3>1. ASSUME NEW i \in 1..(m - 1) PROVE s[i].role = "header"
      <4>1. i \in 1..Len(s) /\ ~(m <= i)
        BY <1>1, <2>5
      <4>2. i \notin others
        BY <2>2, <4>1
      <4> QED BY <1>1, <4>1, <4>2 DEF others
    <3>2. ASSUME NEW x \in ToSet(a) PROVE x.role = "header"
      <4>1. PICK i \in DOMAIN a : x = a[i]
        BY DEF ToSet
      <4>2. i \in 1..(m - 1)
        BY <2>6, <4>1 DEF Text
      <4> QED BY <2>6, <3>1, <4>1, <4>2
    <3> QED BY <3>2
  <2> HIDE DEF a, r
  <2>10. Own(a) = <<>>
    BY <2>6, <2>9, OwnNone
  <2>11. Joined(Own(a \o r), Own(a), Own(r))
    BY <2>6, <2>7, OwnConcat
  <2>12. Own(s) = Own(r)
    <3> DEFINE w == Own(r)
    <3>1. w \in Seq(Spot)
      BY <2>7, OwnType
    <3> HIDE DEF w
    <3>2. <<>> \o w = w
      BY <3>1
    <3> QED BY <2>8, <2>10, <2>11, <3>2 DEF Joined, w
  <2>13. Within(r, s)
    <3>1. ToSet(a \o r) = ToSet(a) \cup ToSet(r)
      BY <2>6, <2>7, ToSetConcat DEF Text
    <3> QED BY <2>8, <3>1, WithinPart
  <2> QED BY <2>4, <2>7, <2>12, <2>13
<1> QED BY <1>2, <1>3


\* The first token of a text, which is no body, moves to the end of another: nothing is lost.
LEMMA MovedText ==
  ASSUME NEW s \in Text, NEW t \in Text, t # <<>>, Head(t).role # "body",
         NEW to, to = Append(s, [Head(t) EXCEPT !.gap = FALSE])
  PROVE  /\ to \in Text /\ Tail(t) \in Text
         /\ Own(s) \o Own(t) = Own(to) \o Own(Tail(t))
         /\ Within(to, s) /\ Within(Tail(t), t)
<1> DEFINE h1 == Head(t)
           h == [h1 EXCEPT !.gap = FALSE]
           one == <<h>>
           one1 == <<h1>>
           r == Tail(t)
<1>1. h1 \in Token /\ r \in Text /\ t = one1 \o r
  BY HeadAndTail DEF Joined
<1>2. h \in Token /\ h.role = h1.role /\ h.of = h1.of /\ h.at = h1.at
  BY <1>1 DEF Token
<1>3. one \in Text /\ one1 \in Text
  BY <1>1, <1>2 DEF Text
<1>4. h1.role # "body"
  OBVIOUS
<1>5. to = s \o one
  <2>1. Append(s, h) = s \o <<h>>
    <3> HIDE DEF h
    <3> QED BY <1>2 DEF Text
  <2> QED BY <2>1
<1>6. Own(one) = Own(one1)
  <2>0. \A x \in Token : PlaceOf[x] = <<x.of, x.role, x.at>>
    BY DEF PlaceOf
  <2> HIDE DEF h, h1
  <2>1. PlaceOf[h] = PlaceOf[h1]
    BY <1>1, <1>2, <2>0
  <2> QED BY <1>1, <1>2, <2>1, OwnOne
<1>7. ToSet(one) = {h} /\ ToSet(one1) = {h1}
  BY ToSetOne
<1> HIDE DEF one, one1, r, h, h1
<1>8. to \in Text
  BY <1>3, <1>5, ConcatType DEF Text
<1>9. Joined(Own(s \o one), Own(s), Own(one)) /\ Joined(Own(one1 \o r), Own(one1), Own(r))
  BY <1>1, <1>3, OwnConcat
<1>10. Own(s) \o Own(t) = Own(to) \o Own(r)
  <2> DEFINE a == Own(s)
             b == Own(one)
             c == Own(r)
  <2>1. a \in Seq(Spot) /\ b \in Seq(Spot) /\ c \in Seq(Spot)
    BY <1>1, <1>3, OwnType
  <2>2. Own(t) = b \o c /\ Own(to) = a \o b
    BY <1>1, <1>5, <1>6, <1>9 DEF Joined
  <2> HIDE DEF a, b, c
  <2>3. (a \o b) \o c = a \o (b \o c)
    BY <2>1, ConcatAssociative
  <2> QED BY <2>2, <2>3 DEF a, c
<1>11. Within(to, s)
  <2>1. ToSet(s \o one) = ToSet(s) \cup ToSet(one)
    BY <1>3, ToSetConcat DEF Text
  <2> QED BY <1>2, <1>4, <1>5, <1>7, <2>1 DEF Within, h1
<1>12. Within(r, t)
  <2>1. ToSet(one1 \o r) = ToSet(one1) \cup ToSet(r)
    BY <1>1, <1>3, ToSetConcat DEF Text
  <2> QED BY <1>1, <2>1, WithinPart
<1> QED BY <1>1, <1>8, <1>10, <1>11, <1>12 DEF r

\* A heading holds no text of its own.
Headed(h) == h \in Text /\ \A t \in ToSet(h) : t.role = "heading"

\* A heading before a text: the document's text stays, the tokens add up.
LEMMA HeadingFirst ==
  ASSUME NEW h, Headed(h), NEW s \in Text
  PROVE  /\ h \o s \in Text /\ Own(h \o s) = Own(s)
         /\ Within(h \o s, s) /\ Within(s, h \o s)
         /\ Count(h \o s) = Count(h) + Count(s)
<1>1. h \in Text /\ \A x \in ToSet(h) : x.role \notin {"body", "punct"}
  BY DEF Headed
<1>2. Own(h) = <<>>
  BY <1>1, OwnNone
<1>3. h \o s \in Text /\ Count(h \o s) = Count(h) + Count(s)
  BY <1>1, CountConcat
<1>4. Own(h \o s) = Own(s)
  <2> DEFINE w == Own(s)
  <2>1. w \in Seq(Spot)
    BY OwnType
  <2>2. Joined(Own(h \o s), Own(h), Own(s))
    BY <1>1, OwnConcat
  <2> HIDE DEF w
  <2>3. <<>> \o w = w
    BY <2>1
  <2> QED BY <1>2, <2>2, <2>3 DEF Joined, w
<1>5. ToSet(h \o s) = ToSet(h) \cup ToSet(s)
  BY <1>1, ToSetConcat DEF Text
<1>6. Within(h \o s, s)
  BY <1>1, <1>5 DEF Within
<1>7. Within(s, h \o s)
  BY <1>5, WithinPart
<1> QED BY <1>3, <1>4, <1>6, <1>7

\* A text is its heading and its body, or has no heading in front.
LEMMA BodyAfterHeading ==
  ASSUME NEW c \in Chunk, Headed(c.heading)
  PROVE  /\ BodyOf(c) \in Text
         /\ \/ IsPrefix(c.heading, c.text) /\ c.text = c.heading \o BodyOf(c)
            \/ ~IsPrefix(c.heading, c.text) /\ c.text = BodyOf(c)
<1> DEFINE h == c.heading
           s == c.text
           n == Len(h)
<1>1. h \in Seq(Token) /\ s \in Seq(Token) /\ n \in Nat /\ Len(s) \in Nat
  BY DEF Chunk
<1>2. CASE IsPrefix(h, s)
  <2> DEFINE b == SubSeq(s, n + 1, Len(s))
  <2>1. n <= Len(s) /\ SubSeq(h, 1, n) = SubSeq(s, 1, n)
    BY <1>2 DEF IsPrefix
  <2>2. BodyOf(c) = b
    BY <1>2 DEF BodyOf
  <2> HIDE DEF h, s
  <2>3. b \in Seq(Token)
    BY <1>1, <2>1
  <2>4. n \in (1 - 1)..Len(s) /\ Len(s) \in n..Len(s) /\ 1 \in 1..Len(s) + 1
    BY <1>1, <2>1
  <2>5. SubSeq(s, 1, n) \o SubSeq(s, n + 1, Len(s)) = SubSeq(s, 1, Len(s))
    BY <1>1, <2>4, ConcatAdjacentSubSeq
  <2>6. SubSeq(s, 1, Len(s)) = s /\ SubSeq(h, 1, n) = h
    BY <1>1, SubSeqFull
  <2>7. s = h \o b
    BY <2>1, <2>5, <2>6
  <2> QED BY <1>2, <2>2, <2>3, <2>7 DEF h, s, Text
<1>3. CASE ~IsPrefix(h, s)
  BY <1>1, <1>3 DEF BodyOf, Text
<1> QED BY <1>2, <1>3

\* The text behind the heading has all the words.
LEMMA BodyText ==
  ASSUME NEW c \in Chunk, Headed(c.heading)
  PROVE  /\ BodyOf(c) \in Text /\ Own(BodyOf(c)) = Own(c.text) /\ Within(BodyOf(c), c.text)
<1> DEFINE b == BodyOf(c)
<1>1. b \in Text /\ (c.text = c.heading \o b \/ c.text = b)
  BY BodyAfterHeading
<1> HIDE DEF b
<1>2. Own(c.heading \o b) = Own(b) /\ Within(b, c.heading \o b)
  BY <1>1, HeadingFirst
<1>3. Within(b, b)
  BY WithinPart
<1> QED BY <1>1, <1>2, <1>3 DEF b

\* _split_text parts get the heading back: their words stay.
LEMMA HeadedText ==
  ASSUME NEW h, Headed(h), NEW s \in Text
  PROVE  /\ WithHeading(s, h) \in Text
         /\ Own(WithHeading(s, h)) = Own(s)
         /\ Within(WithHeading(s, h), s)
<1>1. Within(s, s)
  BY WithinPart
<1> QED BY <1>1, HeadingFirst DEF WithHeading


(***************************************************************************)
(* Chunks with another text, and chunks that absorb one                     *)
(***************************************************************************)
Retouched(c, d) ==
    /\ d \in Chunk /\ d.id = c.id /\ d.parent = c.parent /\ d.kind = c.kind
    /\ d.heading = c.heading /\ d.first = c.first /\ d.last = c.last /\ d.blocks = c.blocks
    /\ Within(d.text, c.text)

\* A chunk with another text made of its own words.
LEMMA TextReplaced ==
  ASSUME NEW c \in Chunk, NEW t \in Text, Within(t, c.text), NEW d, d = [c EXCEPT !.text = t]
  PROVE  Retouched(c, d) /\ d.text = t
<1>1. t \in Seq(Token)
  BY DEF Text
<1>2. d \in Chunk /\ d.id = c.id /\ d.parent = c.parent /\ d.kind = c.kind
      /\ d.heading = c.heading /\ d.first = c.first /\ d.last = c.last /\ d.blocks = c.blocks
      /\ d.text = t
  BY <1>1 DEF Chunk
<1> QED BY <1>2 DEF Retouched

\* A chunk as it is.
LEMMA RetouchedSelf == ASSUME NEW c \in Chunk PROVE Retouched(c, c)
  BY WithinPart DEF Retouched

\* A chunk with another text made of its own words is well formed.
LEMMA FormedRetouched ==
  ASSUME NEW c, NEW d, Formed(c), Retouched(c, d)
  PROVE  Formed(d) /\ Protected(d) = Protected(c)
<1>1. Sourced(d)
  BY DEF Sourced, Retouched, Formed, Within
<1> QED BY <1>1 DEF Formed, Retouched, Protected

\* The chunk d is what x is after it has absorbed y.
Absorbed(x, y, gap, d) ==
    /\ d \in Chunk /\ d.id = x.id /\ d.parent = x.parent /\ d.kind = x.kind
    /\ d.heading = x.heading /\ d.blocks = x.blocks \cup y.blocks
    /\ d.text = x.text \o Spaced(y.text, gap)
    /\ d.first = IF x.first <= y.first THEN x.first ELSE y.first
    /\ d.last = IF x.last >= y.last THEN x.last ELSE y.last
    /\ Own(d.text) = Own(x.text) \o Own(y.text)

\* What absorbing a chunk makes.
LEMMA AbsorbedChunk ==
  ASSUME NEW x \in Chunk, NEW y \in Chunk, NEW gap \in BOOLEAN
  PROVE  Absorbed(x, y, gap, Absorb(x, y, gap))
<1> DEFINE d == Absorb(x, y, gap)
<1>1. x.text \in Text /\ y.text \in Text /\ x.first \in Nat /\ y.first \in Nat /\ x.last \in Nat
      /\ y.last \in Nat
  BY DEF Chunk, Text
<1> DEFINE t == Spaced(y.text, gap)
<1>2. t \in Text /\ Own(t) = Own(y.text)
  BY <1>1, SpacedText
<1>3. Min({x.first, y.first}) = (IF x.first <= y.first THEN x.first ELSE y.first)
      /\ Max({x.last, y.last}) = IF x.last >= y.last THEN x.last ELSE y.last
  BY <1>1, MinPair, MaxPair
<1>4. d = [x EXCEPT !.text = @ \o t, !.first = Min({@, y.first}), !.last = Max({@, y.last}),
                    !.blocks = @ \cup y.blocks]
  BY DEF Absorb
<1> HIDE DEF t
<1>5. x.text \o t \in Seq(Token)
  BY <1>1, <1>2, ConcatType DEF Text
<1>6. Min({x.first, y.first}) \in Nat /\ Max({x.last, y.last}) \in Nat
  BY <1>1, <1>3
<1>7. /\ d \in Chunk /\ d.id = x.id /\ d.parent = x.parent /\ d.kind = x.kind
      /\ d.heading = x.heading /\ d.blocks = x.blocks \cup y.blocks
      /\ d.text = x.text \o t
      /\ d.first = Min({x.first, y.first}) /\ d.last = Max({x.last, y.last})
  BY <1>4, <1>5, <1>6 DEF Chunk
<1>8. Joined(Own(x.text \o t), Own(x.text), Own(t))
  BY <1>1, <1>2, OwnConcat
<1> QED BY <1>2, <1>3, <1>7, <1>8 DEF Joined, t, Absorbed

\* A chunk that has absorbed another one is well formed, media aside.
LEMMA FormedAbsorb ==
  ASSUME NEW x, NEW y, Formed(x), Formed(y), ~Protected(x), ~Protected(y), NEW gap \in BOOLEAN,
         NEW d, d = Absorb(x, y, gap)
  PROVE  Formed(d) /\ ~Protected(d)
<1>1. x \in Chunk /\ y \in Chunk
  BY DEF Formed
<1>12. Absorbed(x, y, gap, d)
  BY <1>1, AbsorbedChunk
<1>2. /\ d \in Chunk /\ d.id = x.id /\ d.parent = x.parent /\ d.kind = x.kind
      /\ d.heading = x.heading /\ d.blocks = x.blocks \cup y.blocks
      /\ d.text = x.text \o Spaced(y.text, gap)
      /\ d.first = (IF x.first <= y.first THEN x.first ELSE y.first)
      /\ d.last = IF x.last >= y.last THEN x.last ELSE y.last
  BY <1>12 DEF Absorbed
<1>3. x.first \in Nat /\ y.first \in Nat /\ x.last \in Nat /\ y.last \in Nat
      /\ x.first <= x.last /\ y.first <= y.last
  BY <1>1 DEF Formed, Chunk
<1>4. /\ d.first <= d.last
      /\ \A n : n \in x.first..x.last \/ n \in y.first..y.last => n \in d.first..d.last
  BY <1>2, <1>3
<1>5. Sourced(d)
  <2>1. x.text \in Text /\ y.text \in Text
    BY <1>1 DEF Chunk, Text
  <2>2. Spaced(y.text, gap) \in Text /\ Within(Spaced(y.text, gap), y.text)
    BY <2>1, SpacedText
  <2>3. ToSet(d.text) = ToSet(x.text) \cup ToSet(Spaced(y.text, gap))
    BY <1>2, <2>1, <2>2, ToSetConcat DEF Text
  <2>4. \A t \in ToSet(d.text) : t.role = "body" =>
           \E u \in ToSet(x.text) \cup ToSet(y.text) :
              u.role = "body" /\ u.starts = t.starts /\ u.of = t.of
    BY <2>2, <2>3 DEF Within
  <2>5. \A u \in ToSet(x.text) \cup ToSet(y.text) : u.role = "body" =>
           /\ u.starts # "punct" /\ u.of \in d.blocks /\ given[u.of].first \in d.first..d.last
    BY <1>2, <1>4 DEF Formed, Sourced
  <2> QED BY <2>4, <2>5 DEF Sourced
<1>6. \A b \in d.blocks : given[b].kind # "media"
  BY <1>2 DEF Formed, Protected
<1>7. d.blocks # {} /\ d.blocks \subseteq DOMAIN given /\ Len(d.id) \in {1, 2}
      /\ \A t \in ToSet(d.heading) : t.role = "heading"
  BY <1>2 DEF Formed
<1>8. ~Protected(d)
  BY <1>2 DEF Protected
<1> QED BY <1>2, <1>4, <1>5, <1>6, <1>7, <1>8 DEF Formed

(***************************************************************************)
(* One edit of the list                                                     *)
(***************************************************************************)
\* The chunk d is x, or a part of it.
From(x, d) ==
    /\ d.parent = x.parent
    /\ \/ d.id = x.id
       \/ Len(x.id) = 1 /\ d.id[1] = x.id[1]

\* What comes from a chunk takes its place in the order.
LEMMA FromBefore ==
  ASSUME NEW x, NEW d, NEW z, Sized(x), Sized(z), From(x, d)
  PROVE  (Before(z, x) => Before(z, d)) /\ (Before(x, z) => Before(d, z))
BY DEF From, Before, Sized

\* Chunks that are well formed and in reading order.
Sound(cs) == cs \in Seq(Chunk) /\ (\A c \in ToSet(cs) : Formed(c)) /\ InOrder(cs)

\* What r has to be to take the place of q: its chunks come from those of q, and say the same.
Replaces(q, r) ==
    /\ r \in Seq(Chunk) /\ InOrder(r)
    /\ \A d \in ToSet(r) : Formed(d)
    /\ \A d \in ToSet(r) : \E x \in ToSet(q) : From(x, d)
    /\ Written(r) = Written(q) /\ Media(r) = Media(q)

\* Well-formed chunks have ids of one or two numbers.
LEMMA FormedIsSized == ASSUME NEW c, Formed(c) PROVE Sized(c)
  BY DEF Formed, Sized

\* A sound list that says the same as before.
Outcome(cs, ds, q, r) ==
    /\ Sound(ds) /\ Written(ds) = Written(cs) /\ Media(ds) = Media(cs)
    /\ Len(ds) = Len(cs) - Len(q) + Len(r)

\* Replacing a part of the list: order, text and media of the whole follow from those of the part.
LEMMA Edited ==
  ASSUME NEW a \in Seq(Chunk), NEW q \in Seq(Chunk), NEW c \in Seq(Chunk), NEW r,
         NEW cs, NEW ds, Glued(cs, a, q, c), Glued(ds, a, r, c), Sound(cs), Replaces(q, r)
  PROVE  Outcome(cs, ds, q, r)
<1>1. r \in Seq(Chunk)
  BY DEF Replaces
<1>2. ds \in Seq(Chunk) /\ ToSet(ds) = ToSet(a) \cup ToSet(r) \cup ToSet(c)
      /\ ToSet(cs) = ToSet(a) \cup ToSet(q) \cup ToSet(c)
  BY <1>1, ToSetAround DEF Glued
<1>3. \A d \in ToSet(ds) : Formed(d)
  BY <1>2 DEF Sound, Replaces
<1>4. \A x \in ToSet(cs) : Sized(x)
  BY FormedIsSized DEF Sound
<1>5. InOrder(ds)
  <2>1. /\ InOrder(a) /\ InOrder(q) /\ InOrder(c)
        /\ \A x \in ToSet(a), y \in ToSet(q) : Before(x, y)
        /\ \A x \in ToSet(a), y \in ToSet(c) : Before(x, y)
        /\ \A x \in ToSet(q), y \in ToSet(c) : Before(x, y)
    BY InOrderAround DEF Sound, Glued
  <2>2. InOrder(r) /\ \A d \in ToSet(r) : \E x \in ToSet(q) : From(x, d)
    BY DEF Replaces
  <2>3. \A x \in ToSet(a), y \in ToSet(r) : Before(x, y)
    BY <1>2, <1>4, <2>1, <2>2, FromBefore
  <2>4. \A x \in ToSet(r), y \in ToSet(c) : Before(x, y)
    BY <1>2, <1>4, <2>1, <2>2, FromBefore
  <2> QED BY <1>1, <2>1, <2>2, <2>3, <2>4, InOrderAround DEF Glued
<1>6. Written(ds) = Written(cs)
  BY <1>1, WrittenAround DEF Replaces
<1>7. Media(ds) = Media(cs)
  BY <1>1, MediaAround DEF Replaces
<1>8. Len(ds) = Len(cs) - Len(q) + Len(r)
  <2>1. Len(cs) = (Len(a) + Len(q)) + Len(c) /\ Len(ds) = (Len(a) + Len(r)) + Len(c)
        /\ Len(a) \in Nat /\ Len(q) \in Nat /\ Len(c) \in Nat /\ Len(r) \in Nat
    <3>1. ASSUME NEW u \in Seq(Chunk)
          PROVE  Len((a \o u) \o c) = (Len(a) + Len(u)) + Len(c) /\ Len(a) \in Nat
                 /\ Len(u) \in Nat /\ Len(c) \in Nat
      <4> DEFINE v == a \o u
      <4>1. v \in Seq(Chunk) /\ Len(v) = Len(a) + Len(u) /\ Len(a) \in Nat /\ Len(u) \in Nat
        BY ConcatIndex
      <4> HIDE DEF v
      <4>2. Len(v \o c) = Len(v) + Len(c) /\ Len(c) \in Nat
        BY <4>1, ConcatIndex
      <4> QED BY <4>1, <4>2 DEF v
    <3> QED BY <1>1, <3>1 DEF Glued
  <2> QED BY <2>1
<1> QED BY <1>2, <1>3, <1>5, <1>6, <1>7, <1>8 DEF Sound, Outcome


(***************************************************************************)
(* Two neighbours                                                           *)
(***************************************************************************)
LEMMA GluedPair ==
  ASSUME NEW T, NEW a \in Seq(T), NEW c \in Seq(T), NEW x \in T, NEW y \in T, NEW s
  PROVE  /\ Glued(s, a, <<x, y>>, c) <=> Glued(s, a, <<x>>, <<y>> \o c)
         /\ Glued(s, a, <<x, y>>, c) <=> Glued(s, a \o <<x>>, <<y>>, c)
<1> DEFINE p == <<x>>
           q == <<y>>
<1>0. <<x, y>> = p \o q
  BY PairConcat
<1>1. p \in Seq(T) /\ q \in Seq(T) /\ <<x, y>> = p \o q
  BY <1>0
<1> HIDE DEF p, q
<1>2. a \o (p \o q) = (a \o p) \o q
  BY <1>1, ConcatAssociative
<1>3. (a \o (p \o q)) \o c = (a \o p) \o (q \o c)
  <2> DEFINE u == a \o p
  <2>1. u \in Seq(T)
    BY <1>1, ConcatType
  <2> HIDE DEF u
  <2>2. (u \o q) \o c = u \o (q \o c)
    BY <1>1, <2>1, ConcatAssociative
  <2> QED BY <1>2, <2>2 DEF u
<1> QED BY <1>1, <1>2, <1>3 DEF Glued, p, q

\* Two neighbours, and their ids, which nobody around them has.
Apart(a, x, y, c) ==
    /\ x \in Chunk /\ y \in Chunk /\ Formed(x) /\ Formed(y) /\ Before(x, y) /\ x.id # y.id
    /\ \A z \in ToSet(a) \cup ToSet(c) : z.id # x.id /\ z.id # y.id

\* Two neighbours share their ids with nobody.
LEMMA PairApart ==
  ASSUME NEW cs, Sound(cs), NEW a \in Seq(Chunk), NEW c \in Seq(Chunk), NEW x, NEW y,
         x \in Chunk, y \in Chunk, Glued(cs, a, <<x, y>>, c)
  PROVE  Apart(a, x, y, c)
<1> DEFINE q == <<x, y>>
<1>1. q \in Seq(Chunk) /\ ToSet(q) = {x, y}
  BY ToSetTwo
<1>2. InOrder(q) <=> Before(x, y)
  BY InOrderShort
<1> HIDE DEF q
<1>3. ToSet(cs) = ToSet(a) \cup ToSet(q) \cup ToSet(c)
  <2>1. cs = (a \o q) \o c
    BY DEF Glued, q
  <2> QED BY <1>1, <2>1, ToSetAround
<1>4. Formed(x) /\ Formed(y)
  BY <1>1, <1>3 DEF Sound
<1>5. InOrder((a \o q) \o c) /\ \A z \in ToSet((a \o q) \o c) : Sized(z)
  BY FormedIsSized DEF Sound, Glued, q
<1>6. Before(x, y)
  BY <1>1, <1>2, <1>5, InOrderAround
<1>7. x.id # y.id
  BY <1>4, <1>6, FormedIsSized, BeforeDiffers
<1>8. /\ \A z \in ToSet(a), w \in ToSet(q) : z.id # w.id
      /\ \A z \in ToSet(c), w \in ToSet(q) : z.id # w.id
  BY <1>1, <1>5, DistinctAround
<1> QED BY <1>1, <1>4, <1>6, <1>7, <1>8 DEF Apart

\* Replacing the first of two neighbours.
LEMMA WithFirst ==
  ASSUME NEW cs, NEW a \in Seq(Chunk), NEW c \in Seq(Chunk), NEW x, NEW y,
         Glued(cs, a, <<x, y>>, c), Apart(a, x, y, c), NEW d \in Chunk, d.id = x.id
  PROVE  Glued(With(cs, d), a, <<d, y>>, c)
<1> DEFINE e == <<y>> \o c
<1>1. x \in Chunk /\ y \in Chunk /\ <<y>> \in Seq(Chunk)
  BY DEF Apart
<1>2. e \in Seq(Chunk)
  BY <1>1, ConcatType
<1>3. Glued(cs, a, <<x>>, e)
  BY <1>1, GluedPair
<1>4. ToSet(e) = {y} \cup ToSet(c)
  <2>1. ToSet(<<y>> \o c) = ToSet(<<y>>) \cup ToSet(c)
    <3> DEFINE q == <<y>>
    <3>1. q \in Seq(Chunk)
      BY <1>1
    <3> HIDE DEF q
    <3>2. ToSet(q \o c) = ToSet(q) \cup ToSet(c)
      BY <3>1, ToSetConcat
    <3> QED BY <3>2 DEF q
  <2> QED BY <2>1, ToSetOne
<1>5. \A z \in ToSet(a) \cup ToSet(e) : z.id # x.id
  BY <1>4 DEF Apart
<1> HIDE DEF e
<1>6. Glued(With(cs, d), a, <<d>>, e)
  BY <1>1, <1>2, <1>3, <1>5, WithAround
<1> DEFINE ds == With(cs, d)
<1> HIDE DEF ds
<1>7. Glued(ds, a, <<d, y>>, c) <=> Glued(ds, a, <<d>>, <<y>> \o c)
  BY <1>1, GluedPair
<1> QED BY <1>6, <1>7 DEF e, ds

\* Replacing the second of two neighbours.
LEMMA WithSecond ==
  ASSUME NEW cs, NEW a \in Seq(Chunk), NEW c \in Seq(Chunk), NEW x, NEW y,
         Glued(cs, a, <<x, y>>, c), Apart(a, x, y, c), NEW d \in Chunk, d.id = y.id
  PROVE  Glued(With(cs, d), a, <<x, d>>, c)
<1> DEFINE e == a \o <<x>>
<1>1. x \in Chunk /\ y \in Chunk /\ <<x>> \in Seq(Chunk)
  BY DEF Apart
<1>2. e \in Seq(Chunk)
  BY <1>1, ConcatType
<1>3. Glued(cs, e, <<y>>, c)
  BY <1>1, GluedPair
<1>4. ToSet(e) = ToSet(a) \cup {x}
  <2>1. ToSet(a \o <<x>>) = ToSet(a) \cup ToSet(<<x>>)
    <3> DEFINE q == <<x>>
    <3>1. q \in Seq(Chunk)
      BY <1>1
    <3> HIDE DEF q
    <3>2. ToSet(a \o q) = ToSet(a) \cup ToSet(q)
      BY <3>1, ToSetConcat
    <3> QED BY <3>2 DEF q
  <2> QED BY <2>1, ToSetOne
<1>5. \A z \in ToSet(e) \cup ToSet(c) : z.id # y.id
  BY <1>4 DEF Apart
<1> HIDE DEF e
<1>6. Glued(With(cs, d), e, <<d>>, c)
  BY <1>1, <1>2, <1>3, <1>5, WithAround
<1> DEFINE ds == With(cs, d)
<1> HIDE DEF ds
<1>7. Glued(ds, a, <<x, d>>, c) <=> Glued(ds, a \o <<x>>, <<d>>, c)
  BY <1>1, GluedPair
<1> QED BY <1>6, <1>7 DEF e, ds

\* What is left of a list of which the neighbours x and y were changed.
LEMMA OfAround ==
  ASSUME NEW a \in Seq(Chunk), NEW q \in Seq(Chunk), NEW r \in Seq(Chunk), NEW c \in Seq(Chunk),
         NEW cs, NEW ds, Glued(cs, a, q, c), Glued(ds, a, r, c), NEW p,
         Of(p, q) = Of(p, r)
  PROVE  Of(p, ds) = Of(p, cs)
<1>1. ASSUME NEW u \in Seq(Chunk)
      PROVE  Of(p, (a \o u) \o c) = (Of(p, a) \o Of(p, u)) \o Of(p, c)
  <2> DEFINE v == a \o u
  <2>1. v \in Seq(Chunk)
    BY ConcatType
  <2>2. Of(p, v) = Of(p, a) \o Of(p, u)
    BY OfConcat
  <2> HIDE DEF v
  <2>3. Of(p, v \o c) = Of(p, v) \o Of(p, c)
    BY <2>1, OfConcat
  <2> QED BY <2>2, <2>3 DEF v
<1> QED BY <1>1 DEF Glued

\* Chunks of another parent.
LEMMA OfOther ==
  ASSUME NEW s \in Seq(Chunk), NEW p, \A d \in ToSet(s) : d.parent # p
  PROVE  Of(p, s) = <<>>
<1>1. ToSet(Of(p, s)) = {}
  BY OfElements
<1>2. Of(p, s) \in Seq(Chunk)
  BY OfConcat
<1> QED BY <1>1, <1>2, ToSetType

\* Written, for two chunks.
LEMMA WrittenPair ==
  ASSUME NEW x \in Chunk, NEW y \in Chunk
  PROVE  Written(<<x, y>>) = Own(x.text) \o Own(y.text)
<1> DEFINE p == <<x>>
           q == <<y>>
<1>0. <<x, y>> = p \o q
  BY PairConcat
<1>1. p \in Seq(Chunk) /\ q \in Seq(Chunk) /\ <<x, y>> = p \o q
  BY <1>0
<1>2. Written(p) = Own(x.text) /\ Written(q) = Own(y.text)
  BY WrittenOne
<1> HIDE DEF p, q
<1>3. Joined(Written(p \o q), Written(p), Written(q))
  BY <1>1, WrittenConcat
<1> QED BY <1>1, <1>2, <1>3 DEF Joined

\* Text that moves between two neighbours replaces them by two well-formed chunks.
LEMMA RetouchReplaces ==
  ASSUME NEW x, NEW y, Formed(x), Formed(y), Before(x, y), NEW u, NEW v,
         Retouched(x, u), Retouched(y, v), ~Protected(x) \/ u = x, ~Protected(y),
         Own(u.text) \o Own(v.text) = Own(x.text) \o Own(y.text)
  PROVE  Replaces(<<x, y>>, <<u, v>>)
<1>1. x \in Chunk /\ y \in Chunk /\ u \in Chunk /\ v \in Chunk
  BY DEF Formed, Retouched
<1>2. Formed(u) /\ Formed(v) /\ Protected(u) = Protected(x) /\ ~Protected(v)
  BY FormedRetouched
<1>3. From(x, u) /\ From(y, v) /\ Before(u, v)
  BY DEF From, Retouched, Before
<1> DEFINE q == <<x, y>>
           r == <<u, v>>
<1>4. q \in Seq(Chunk) /\ r \in Seq(Chunk) /\ ToSet(q) = {x, y} /\ ToSet(r) = {u, v}
  BY <1>1, ToSetTwo
<1>5. InOrder(r)
  BY <1>3, InOrderShort
<1>6. Written(r) = Written(q)
  BY <1>1, WrittenPair
<1>7. Media(r) = Media(q)
  <2>1. CASE Protected(x)
    <3>1. u = x
      BY <2>1
    <3> DEFINE one == <<x>>
               s == <<y>>
               t == <<v>>
    <3>2. one \in Seq(Chunk) /\ s \in Seq(Chunk) /\ t \in Seq(Chunk) /\ q = one \o s /\ r = one \o t
          /\ ToSet(s) = {y} /\ ToSet(t) = {v}
      <4>1. q = one \o s /\ r = one \o t
        BY <3>1, PairConcat
      <4>2. ToSet(s) = {y} /\ ToSet(t) = {v}
        BY ToSetOne
      <4>3. one \in Seq(Chunk) /\ s \in Seq(Chunk) /\ t \in Seq(Chunk)
        BY <1>1
      <4> HIDE DEF q, r, one, s, t
      <4> QED BY <4>1, <4>2, <4>3
    <3> HIDE DEF one, s, t, q, r
    <3>3. Media(s) = <<>> /\ Media(t) = <<>>
      BY <1>2, <3>2, MediaNone
    <3>4. Joined(Media(one \o s), Media(one), Media(s)) /\ Joined(Media(one \o t), Media(one), Media(t))
      BY <3>2, MediaConcat
    <3> QED BY <3>2, <3>3, <3>4 DEF Joined
  <2>2. CASE ~Protected(x)
    <3>1. \A z \in ToSet(q) \cup ToSet(r) : ~Protected(z)
      BY <1>2, <1>4, <2>2
    <3> HIDE DEF q, r
    <3>2. Media(q) = <<>> /\ Media(r) = <<>>
      BY <1>4, <3>1, MediaNone
    <3> QED BY <3>2
  <2> QED BY <2>1, <2>2
<1> HIDE DEF q, r
<1>8. Replaces(q, r)
  BY <1>2, <1>3, <1>4, <1>5, <1>6, <1>7 DEF Replaces
<1> QED BY <1>8 DEF q, r

\* A chunk that absorbs its neighbour replaces both.
LEMMA AbsorbReplaces ==
  ASSUME NEW x, NEW y, Formed(x), Formed(y), NEW u, NEW v,
         Retouched(x, u), Retouched(y, v), ~Protected(x), ~Protected(y), NEW gap \in BOOLEAN,
         NEW d, d = Absorb(u, v, gap),
         Own(u.text) \o Own(v.text) = Own(x.text) \o Own(y.text)
  PROVE  Replaces(<<x, y>>, <<d>>) /\ Absorbed(u, v, gap, d)
<1>1. x \in Chunk /\ y \in Chunk /\ u \in Chunk /\ v \in Chunk
  BY DEF Formed, Retouched
<1>2. Formed(u) /\ Formed(v) /\ ~Protected(u) /\ ~Protected(v)
  BY FormedRetouched
<1>3. Formed(d) /\ ~Protected(d)
  BY <1>2, FormedAbsorb
<1>4. Absorbed(u, v, gap, d)
  BY <1>1, AbsorbedChunk
<1>5. From(x, d) /\ d \in Chunk
  BY <1>4 DEF From, Absorbed, Retouched
<1> DEFINE q == <<x, y>>
           r == <<d>>
<1>6. q \in Seq(Chunk) /\ r \in Seq(Chunk) /\ ToSet(q) = {x, y} /\ ToSet(r) = {d}
  BY <1>1, <1>5, ToSetTwo, ToSetOne
<1>7. InOrder(r)
  BY InOrderShort
<1>8. Written(r) = Written(q)
  BY <1>1, <1>4, <1>5, WrittenPair, WrittenOne DEF Absorbed
<1>9. Media(r) = Media(q)
  <2> HIDE DEF q, r
  <2>1. Media(q) = <<>> /\ Media(r) = <<>>
    BY <1>3, <1>6, MediaNone
  <2> QED BY <2>1
<1> HIDE DEF q, r
<1>10. Replaces(q, r)
  BY <1>3, <1>5, <1>6, <1>7, <1>8, <1>9 DEF Replaces
<1> QED BY <1>4, <1>10 DEF q, r


\* The list ds is cs with the neighbours x and y changed into chunks of the same parents.
Changed(cs, ds, x, y) ==
    /\ Sound(ds) /\ Written(ds) = Written(cs) /\ Media(ds) = Media(cs)
    /\ \A z \in ToSet(ds) : z \in ToSet(cs) \/ z.id = x.id \/ z.id = y.id
    /\ \A p : p # x.parent /\ p # y.parent => Of(p, ds) = Of(p, cs)

\* The parents list the new chunks, and have their blocks.
Knows(ps, qs, cs, ds) ==
    /\ qs \in Seq(Family) /\ Len(qs) = Len(ps)
    /\ \A i \in DOMAIN ps : qs[i].id = ps[i].id /\ qs[i].kids = Kids(ps[i].id, ds)
    /\ \A d \in ToSet(ds) :
           /\ \E x \in ToSet(cs) : d.parent = x.parent
           /\ \A i \in DOMAIN ps : ps[i].id = d.parent => d.blocks \subseteq qs[i].blocks

\* Parents that know the new list of chunks agree with it.
LEMMA LinkedKnown ==
  ASSUME NEW ps, NEW qs, NEW cs, NEW ds, Linked(ps, cs), Knows(ps, qs, cs, ds)
  PROVE  Linked(qs, ds)
<1>1. qs \in Seq(Family) /\ Len(qs) = Len(ps)
      /\ \A i \in DOMAIN ps : qs[i].id = ps[i].id /\ qs[i].kids = Kids(ps[i].id, ds)
  BY DEF Knows
<1>2. \A d \in ToSet(ds) :
           /\ \E x \in ToSet(cs) : d.parent = x.parent
           /\ \A i \in DOMAIN ps : ps[i].id = d.parent => d.blocks \subseteq qs[i].blocks
  BY DEF Knows
<1> QED BY <1>1, <1>2, LinkedReplaced

\* The ids of the children of a parent, from two chunks.
LEMMA KidsPair ==
  ASSUME NEW x \in Chunk, NEW y \in Chunk, NEW p
  PROVE  Kids(p, <<x, y>>) = Kids(p, <<x>>) \o Kids(p, <<y>>)
<1> DEFINE s == <<x>>
           t == <<y>>
<1>0. <<x, y>> = s \o t
  BY PairConcat
<1>1. s \in Seq(Chunk) /\ t \in Seq(Chunk) /\ <<x, y>> = s \o t
  BY <1>0
<1> HIDE DEF s, t
<1>2. Kids(p, s \o t) = Kids(p, s) \o Kids(p, t)
  BY <1>1, KidsConcat
<1> QED BY <1>1, <1>2 DEF s, t

\* Two chunks of other parents.
LEMMA OfTwo ==
  ASSUME NEW x \in Chunk, NEW y \in Chunk, NEW p, x.parent # p, y.parent # p
  PROVE  Of(p, <<x, y>>) = <<>>
<1> DEFINE q == <<x, y>>
<1>1. q \in Seq(Chunk) /\ ToSet(q) = {x, y}
  BY ToSetTwo
<1> HIDE DEF q
<1>2. Of(p, q) = <<>>
  BY <1>1, OfOther
<1> QED BY <1>2 DEF q

\* Two neighbours x and y whose text moves from one to the other: they become u and v.
Retouching(cs, ps, a, c, x, y, u, v, ds) ==
    /\ Sound(cs) /\ Linked(ps, cs) /\ a \in Seq(Chunk) /\ c \in Seq(Chunk)
    /\ x \in Chunk /\ y \in Chunk /\ Glued(cs, a, <<x, y>>, c)
    /\ Retouched(x, u) /\ Retouched(y, v)
    /\ ~Protected(x) \/ u = x
    /\ ~Protected(y)
    /\ Own(u.text) \o Own(v.text) = Own(x.text) \o Own(y.text)
    /\ Glued(ds, a, <<u, v>>, c)

\* Text that moves between two neighbours: the chunks stay sound and the parents agree.
LEMMA RetouchPair ==
  ASSUME NEW cs, NEW ps, NEW a, NEW c, NEW x, NEW y, NEW u, NEW v, NEW ds,
         Retouching(cs, ps, a, c, x, y, u, v, ds)
  PROVE  Changed(cs, ds, x, y) /\ Linked(ps, ds) /\ Len(ds) = Len(cs)
<1> SUFFICES ASSUME Sound(cs), Linked(ps, cs), a \in Seq(Chunk), c \in Seq(Chunk),
                    x \in Chunk, y \in Chunk, Glued(cs, a, <<x, y>>, c),
                    Retouched(x, u), Retouched(y, v), ~Protected(x) \/ u = x, ~Protected(y),
                    Own(u.text) \o Own(v.text) = Own(x.text) \o Own(y.text),
                    Glued(ds, a, <<u, v>>, c)
             PROVE  Changed(cs, ds, x, y) /\ Linked(ps, ds) /\ Len(ds) = Len(cs)
  BY DEF Retouching
<1> DEFINE q == <<x, y>>
           r == <<u, v>>
<1>1. Apart(a, x, y, c)
  BY PairApart
<1>2. Replaces(q, r)
  BY <1>1, RetouchReplaces DEF Apart
<1>3. u \in Chunk /\ v \in Chunk /\ u.id = x.id /\ v.id = y.id /\ u.parent = x.parent
      /\ v.parent = y.parent /\ u.blocks = x.blocks /\ v.blocks = y.blocks
  BY DEF Retouched
<1>4. q \in Seq(Chunk) /\ r \in Seq(Chunk) /\ ToSet(q) = {x, y} /\ ToSet(r) = {u, v}
      /\ Len(q) = 2 /\ Len(r) = 2
  BY <1>3, ToSetTwo
<1>5. \A p : p # x.parent /\ p # y.parent => Of(p, q) = Of(p, r)
  BY <1>3, OfTwo
<1>6. \A p : Kids(p, q) = Kids(p, r)
  <2>1. SUFFICES ASSUME NEW p PROVE Kids(p, q) = Kids(p, r)
    OBVIOUS
  <2>2. Kids(p, <<x>>) = Kids(p, <<u>>)
    BY <1>3, KidsOne
  <2>3. Kids(p, <<y>>) = Kids(p, <<v>>)
    BY <1>3, KidsOne
  <2>4. Kids(p, q) = Kids(p, <<x>>) \o Kids(p, <<y>>)
    BY KidsPair
  <2>5. Kids(p, r) = Kids(p, <<u>>) \o Kids(p, <<v>>)
    BY <1>3, KidsPair
  <2> QED BY <2>2, <2>3, <2>4, <2>5, Zenon
<1> HIDE DEF q, r
<1>7. Glued(cs, a, q, c) /\ Glued(ds, a, r, c)
  BY DEF q, r
<1>8. ToSet(ds) = ToSet(a) \cup ToSet(r) \cup ToSet(c) /\ ToSet(cs) = ToSet(a) \cup ToSet(q) \cup ToSet(c)
  <2>1. ToSet((a \o q) \o c) = ToSet(a) \cup ToSet(q) \cup ToSet(c)
    BY <1>4, <1>7, ToSetAround
  <2>2. ToSet((a \o r) \o c) = ToSet(a) \cup ToSet(r) \cup ToSet(c)
    BY <1>4, <1>7, ToSetAround
  <2> QED BY <1>4, <1>7, <2>1, <2>2 DEF Glued
<1>9. Sound(ds) /\ Written(ds) = Written(cs) /\ Media(ds) = Media(cs)
      /\ Len(ds) = Len(cs) - Len(q) + Len(r)
  <2>1. Outcome(cs, ds, q, r)
    BY <1>2, <1>4, <1>7, Edited
  <2> QED BY <2>1 DEF Outcome
<1>10. \A z \in ToSet(ds) : z \in ToSet(cs) \/ z.id = x.id \/ z.id = y.id
  BY <1>3, <1>4, <1>8
<1>11. \A p : p # x.parent /\ p # y.parent => Of(p, ds) = Of(p, cs)
  BY <1>4, <1>5, <1>7, OfAround
<1>12. \A p : Kids(p, ds) = Kids(p, cs)
  <2>1. \A p : Glued(Kids(p, cs), Kids(p, a), Kids(p, q), Kids(p, c))
               /\ Glued(Kids(p, ds), Kids(p, a), Kids(p, r), Kids(p, c))
    BY <1>4, <1>7, KidsGlued
  <2> QED BY <1>6, <2>1 DEF Glued
<1>13. Linked(ps, ds)
  <2>1. ps \in Seq(Family) /\ Len(ps) = Len(ps) /\ \A i \in DOMAIN ps : ps[i].kids = Kids(ps[i].id, cs)
    BY DEF Linked, Kids, ToSet
  <2>2. ASSUME NEW d \in ToSet(ds)
        PROVE  \E w \in ToSet(cs) : d.parent = w.parent /\ d.blocks = w.blocks
    BY <1>3, <1>4, <1>8
  <2>3. ASSUME NEW w \in ToSet(cs), NEW i \in DOMAIN ps, ps[i].id = w.parent PROVE w.blocks \subseteq ps[i].blocks
    BY <2>3 DEF Linked, ToSet
  <2>4. \A d \in ToSet(ds) :
             /\ \E w \in ToSet(cs) : d.parent = w.parent
             /\ \A i \in DOMAIN ps : ps[i].id = d.parent => d.blocks \subseteq ps[i].blocks
    BY <2>2, <2>3
  <2>5. \A i \in DOMAIN ps : ps[i].id = ps[i].id /\ ps[i].kids = Kids(ps[i].id, ds)
    BY <1>12, <2>1
  <2>6. ps \in Seq(Family) /\ Len(ps) = Len(ps)
    BY <2>1
  <2>7. Knows(ps, ps, cs, ds)
    BY <2>4, <2>5, <2>6 DEF Knows
  <2> QED BY <2>7, LinkedKnown
<1>14. Len(ds) = Len(cs)
  <2>1. Len(cs) \in Nat
    BY <1>9 DEF Sound
  <2> QED BY <1>4, <1>9, <2>1
<1> QED BY <1>9, <1>10, <1>11, <1>13, <1>14 DEF Changed

\* The parents know that x has absorbed y.
Unlisting(ps, qs, x, y) ==
    /\ qs \in Seq(Family) /\ Len(qs) = Len(ps)
    /\ \A i \in DOMAIN ps : /\ qs[i].id = ps[i].id
                            /\ qs[i].kids = Unlisted(ps[i].kids, y.id)
                            /\ ps[i].blocks \subseteq qs[i].blocks
                            /\ ps[i].id = x.parent => y.blocks \subseteq qs[i].blocks

\* Two neighbours x and y whose text moves as above, where u then absorbs v.
Taking(cs, ps, a, c, x, y, u, v, gap, ds, qs) ==
    /\ Sound(cs) /\ Linked(ps, cs) /\ a \in Seq(Chunk) /\ c \in Seq(Chunk)
    /\ x \in Chunk /\ y \in Chunk /\ Glued(cs, a, <<x, y>>, c)
    /\ Retouched(x, u) /\ Retouched(y, v) /\ ~Protected(x) /\ ~Protected(y) /\ gap \in BOOLEAN
    /\ Own(u.text) \o Own(v.text) = Own(x.text) \o Own(y.text)
    /\ ds = With(Without(cs, v), Absorb(u, v, gap))
    /\ Unlisting(ps, qs, x, y)

\* A chunk that goes into its neighbour: the chunks stay sound and the parents agree.
LEMMA TakePair ==
  ASSUME NEW cs, NEW ps, NEW a, NEW c, NEW x, NEW y, NEW u, NEW v, NEW gap, NEW ds, NEW qs,
         Taking(cs, ps, a, c, x, y, u, v, gap, ds, qs)
  PROVE  Changed(cs, ds, x, y) /\ Linked(qs, ds) /\ Len(ds) = Len(cs) - 1
<1> SUFFICES ASSUME Sound(cs), Linked(ps, cs), a \in Seq(Chunk), c \in Seq(Chunk),
                    x \in Chunk, y \in Chunk, Glued(cs, a, <<x, y>>, c),
                    Retouched(x, u), Retouched(y, v), ~Protected(x), ~Protected(y), gap \in BOOLEAN,
                    Own(u.text) \o Own(v.text) = Own(x.text) \o Own(y.text),
                    ds = With(Without(cs, v), Absorb(u, v, gap)),
                    Unlisting(ps, qs, x, y)
             PROVE  Changed(cs, ds, x, y) /\ Linked(qs, ds) /\ Len(ds) = Len(cs) - 1
  BY DEF Taking
<1> DEFINE q == <<x, y>>
           d == Absorb(u, v, gap)
           r == <<d>>
<1>1. Apart(a, x, y, c)
  BY PairApart
<1>2. Replaces(q, r) /\ Absorbed(u, v, gap, d)
  BY <1>1, AbsorbReplaces DEF Apart
<1>3. u \in Chunk /\ v \in Chunk /\ u.id = x.id /\ v.id = y.id /\ u.parent = x.parent
      /\ v.parent = y.parent /\ u.blocks = x.blocks /\ v.blocks = y.blocks
  BY DEF Retouched
<1> HIDE DEF d
<1>4. d \in Chunk /\ d.id = x.id /\ d.parent = x.parent /\ d.blocks = x.blocks \cup y.blocks
  BY <1>2, <1>3 DEF Absorbed
<1>5. q \in Seq(Chunk) /\ r \in Seq(Chunk) /\ ToSet(q) = {x, y} /\ ToSet(r) = {d}
      /\ Len(q) = 2 /\ Len(r) = 1
  BY <1>4, ToSetTwo, ToSetOne
<1>6. Glued(ds, a, r, c)
  <2>1. x.id # y.id /\ \A z \in ToSet(a) \cup ToSet(c) : z.id # x.id /\ z.id # y.id
    BY <1>1 DEF Apart
  <2> DEFINE es == Without(cs, v)
  <2>2. Glued(es, a, <<x>>, c)
    BY <1>3, <2>1, WithoutAround
  <2> HIDE DEF es
  <2>3. Glued(With(es, d), a, <<d>>, c)
    BY <1>4, <2>1, <2>2, WithAround
  <2> QED BY <2>3 DEF es, d
<1>7. \A p : p # x.parent /\ p # y.parent => Of(p, q) = Of(p, r)
  <2>1. ASSUME NEW p, p # x.parent PROVE Of(p, r) = <<>>
    BY <1>4, <2>1, OfOne
  <2> QED BY <2>1, OfTwo
<1>8. \A p : Kids(p, ds) = Unlisted(Kids(p, cs), y.id)
  <2>1. x.id # y.id /\ \A z \in ToSet(a) \cup ToSet(c) : z.id # y.id
    BY <1>1 DEF Apart
  <2>2. Glued(ds, a, <<d>>, c) /\ Glued(cs, a, <<x, y>>, c)
    BY <1>6
  <2>3. d \in Chunk /\ d.id = x.id /\ d.parent = x.parent
    BY <1>4
  <2>4. \A z \in ToSet(a) \cup ToSet(c) : z.id # y.id
    BY <2>1
  <2>5. SUFFICES ASSUME NEW p PROVE Kids(p, ds) = Unlisted(Kids(p, cs), y.id)
    OBVIOUS
  <2> QED BY <2>1, <2>2, <2>3, <2>4, KidsJoined
<1> HIDE DEF q, r
<1>9. Glued(cs, a, q, c)
  BY DEF q
<1>10. ToSet(ds) = ToSet(a) \cup ToSet(r) \cup ToSet(c) /\ ToSet(cs) = ToSet(a) \cup ToSet(q) \cup ToSet(c)
  <2>1. ToSet((a \o q) \o c) = ToSet(a) \cup ToSet(q) \cup ToSet(c)
    BY <1>5, <1>6, <1>9, ToSetAround
  <2>2. ToSet((a \o r) \o c) = ToSet(a) \cup ToSet(r) \cup ToSet(c)
    BY <1>5, <1>6, <1>9, ToSetAround
  <2> QED BY <1>5, <1>6, <1>9, <2>1, <2>2 DEF Glued
<1>11. Sound(ds) /\ Written(ds) = Written(cs) /\ Media(ds) = Media(cs)
      /\ Len(ds) = Len(cs) - Len(q) + Len(r)
  <2>1. Replaces(q, r)
    BY <1>2 DEF q, r, d
  <2>2. q \in Seq(Chunk) /\ Glued(ds, a, r, c) /\ Glued(cs, a, q, c)
    BY <1>5, <1>6, <1>9
  <2>3. Outcome(cs, ds, q, r)
    BY <2>1, <2>2, Edited
  <2> QED BY <2>3 DEF Outcome
<1>12. \A z \in ToSet(ds) : z \in ToSet(cs) \/ z.id = x.id \/ z.id = y.id
  BY <1>4, <1>5, <1>10
<1>13. \A p : p # x.parent /\ p # y.parent => Of(p, ds) = Of(p, cs)
  BY <1>5, <1>6, <1>7, <1>9, OfAround
<1>14. Linked(qs, ds)
  <2>1. ps \in Seq(Family) /\ \A i \in DOMAIN ps : ps[i].kids = Kids(ps[i].id, cs)
    BY DEF Linked, Kids, ToSet
  <2>2. ASSUME NEW w \in ToSet(cs), NEW i \in DOMAIN ps, ps[i].id = w.parent PROVE w.blocks \subseteq qs[i].blocks
    BY <2>2 DEF Linked, ToSet, Unlisting
  <2>3. x \in ToSet(cs) /\ \A e \in ToSet(ds) : e \in ToSet(cs) \/ e = d
    BY <1>5, <1>10
  <2>4. \A i \in DOMAIN ps : ps[i].id = d.parent => d.blocks \subseteq qs[i].blocks
    BY <1>4, <2>2, <2>3 DEF Unlisting
  <2>5. \A e \in ToSet(ds) :
             /\ \E w \in ToSet(cs) : e.parent = w.parent
             /\ \A i \in DOMAIN ps : ps[i].id = e.parent => e.blocks \subseteq qs[i].blocks
    BY <1>4, <2>2, <2>3, <2>4
  <2>6. \A i \in DOMAIN ps : qs[i].id = ps[i].id /\ qs[i].kids = Kids(ps[i].id, ds)
    BY <1>8, <2>1 DEF Unlisting
  <2>7. qs \in Seq(Family) /\ Len(qs) = Len(ps)
    BY DEF Unlisting
  <2>8. \A i \in DOMAIN ps : /\ qs[i].id = ps[i].id
                              /\ qs[i].kids = Kids(ps[i].id, ds)
    BY <2>6
  <2>9. Knows(ps, qs, cs, ds)
    BY <2>5, <2>7, <2>8 DEF Knows
  <2> QED BY <2>9, LinkedKnown
<1>15. Len(ds) = Len(cs) - 1
  <2>1. Len(cs) \in Nat
    BY DEF Sound
  <2> QED BY <1>5, <1>11, <2>1
<1> QED BY <1>11, <1>12, <1>13, <1>14, <1>15 DEF Changed


(***************************************************************************)
(* The parts of a chunk                                                     *)
(***************************************************************************)
LEMMA BodyLimitBound ==
  ASSUME NEW h \in Text
  PROVE  /\ BodyLimit(h) \in Nat /\ BodyLimit(h) <= MaxTokens /\ Count(h) \in Nat
         /\ MaxTokens \in Nat \ {0}
         /\ \/ h = <<>> /\ BodyLimit(h) = MaxTokens
            \/ h # <<>> /\ Count(h) + 2 < MaxTokens /\ BodyLimit(h) = MaxTokens - Count(h) - 2
            \/ h # <<>> /\ Count(h) + 2 >= MaxTokens /\ BodyLimit(h) = 1
<1>1. Count(h) \in Nat /\ MaxTokens \in Nat \ {0}
  BY CountConcat, SizesAreNumbers
<1> QED BY <1>1 DEF BodyLimit

\* A chunk whose body splitting cannot break has a reason to be long.
LEMMA FitIsShort ==
  ASSUME NEW d \in Chunk, Headed(d.heading),
         BodyOf(d) = <<>> \/ BodyOf(d) \in Fit(BodyLimit(d.heading))
  PROVE  Short(d)
<1> DEFINE h == d.heading
           b == BodyOf(d)
           l == BodyLimit(h)
<1>1. h \in Text /\ b \in Text
  BY BodyAfterHeading DEF Headed
<1>2. /\ l \in Nat /\ l <= MaxTokens /\ Count(h) \in Nat /\ MaxTokens \in Nat \ {0}
      /\ \/ h = <<>> /\ l = MaxTokens
         \/ Count(h) + 2 < MaxTokens /\ l = MaxTokens - Count(h) - 2
         \/ Count(h) + 2 >= MaxTokens /\ l = 1
  BY <1>1, BodyLimitBound
<1>3. /\ Count(b) \in Nat
      /\ \/ d.text = h \o b /\ Count(d.text) = Count(h) + Count(b)
         \/ d.text = b
  <2>1. d.text = h \o b \/ d.text = b
    BY BodyAfterHeading
  <2> HIDE DEF b, h
  <2>2. Count(b) \in Nat /\ Count(h \o b) = Count(h) + Count(b)
    BY <1>1, CountConcat
  <2> QED BY <2>1, <2>2
<1>4. SUFFICES ASSUME Count(d.text) > MaxTokens
               PROVE  Len(Words(b)) = 1 \/ (Count(h) + 2 >= MaxTokens /\ Count(b) <= 1)
  BY DEF Short, Splittable
<1> HIDE DEF b, h, l
<1>5. CASE b = <<>>
  <2>1. Count(b) = 0
    BY <1>5, CountEmpty
  <2> QED BY <1>2, <1>3, <1>4, <2>1
<1>6. CASE b \in Fit(l)
  <2>1. CASE OneWord(b)
    <3>1. b \in Word
      BY <1>1, <2>1 DEF Word
    <3>2. Len(Words(b)) = 1
      BY <3>1, OneWordIsOne, Zenon
    <3> QED BY <3>2, Zenon
  <2>2. CASE ~OneWord(b)
    <3>1. Count(b) <= l
      BY <1>6, <2>2 DEF Fit
    <3>2. h = <<>> => Count(h) = 0
      BY CountEmpty
    <3> QED BY <1>2, <1>3, <1>4, <3>1, <3>2
  <2> QED BY <2>1, <2>2
<1>7. b = <<>> \/ b \in Fit(l)
  BY DEF b, l, h
<1> QED BY <1>5, <1>6, <1>7

\* Two texts that are equal after the same beginning are equal.
LEMMA CancelLeft ==
  ASSUME NEW T, NEW s \in Seq(T), NEW t \in Seq(T), NEW v \in Seq(T), s \o t = s \o v
  PROVE  t = v
<1>1. /\ Len(s) \in Nat /\ Len(t) \in Nat /\ Len(v) \in Nat
      /\ Len(s) + Len(t) = Len(s) + Len(v)
  BY ConcatIndex
<1>2. Len(t) = Len(v)
  BY <1>1
<1>3. \A i \in 1..Len(t) : t[i] = v[i]
  <2>1. \A i \in 1..Len(t) : (s \o t)[Len(s) + i] = t[i]
    OBVIOUS
  <2>2. \A i \in 1..Len(v) : (s \o v)[Len(s) + i] = v[i]
    OBVIOUS
  <2> QED BY <1>2, <2>1, <2>2
<1>4. t = [i \in 1..Len(t) |-> t[i]] /\ v = [i \in 1..Len(v) |-> v[i]]
  OBVIOUS
<1> QED BY <1>2, <1>3, <1>4

\* What follows a heading fits where both fit.
LEMMA FitSuffix ==
  ASSUME NEW limit, NEW h \in Text, NEW b \in Text, b # <<>>, h \o b \in Fit(limit), limit \in Nat
  PROVE  b \in Fit(limit)
<1>1. Count(h) \in Nat /\ Count(b) \in Nat /\ Count(h \o b) = Count(h) + Count(b)
  BY CountConcat
<1>2. CASE Count(h \o b) <= limit
  <2>1. Count(b) <= limit
    BY <1>1, <1>2
  <2> QED BY <2>1 DEF Fit
<1>3. CASE OneWord(h \o b)
  <2>1. Len(h) \in Nat /\ Len(b) \in Nat /\ Len(h \o b) = Len(h) + Len(b)
        /\ \A i \in 1..Len(b) : (h \o b)[Len(h) + i] = b[i]
    BY DEF Text
  <2>2. ASSUME NEW i \in 2..Len(b) PROVE ~b[i].gap
    <3>1. Len(h) + i \in 2..Len(h \o b) /\ (h \o b)[Len(h) + i] = b[i]
      BY <2>1
    <3>2. ~(h \o b)[Len(h) + i].gap
      BY <1>3, <3>1 DEF OneWord
    <3> QED BY <3>1, <3>2
  <2>3. OneWord(b)
    BY <2>2 DEF OneWord
  <2> QED BY <2>3 DEF Fit
<1> QED BY <1>2, <1>3 DEF Fit

\* A part with its heading is not overlong, or has a reason.
LEMMA HeadedShort ==
  ASSUME NEW d \in Chunk, Headed(d.heading), NEW t, t \in Fit(BodyLimit(d.heading)),
         d.text = WithHeading(t, d.heading)
  PROVE  Short(d)
<1> DEFINE h == d.heading
           b == BodyOf(d)
           l == BodyLimit(h)
<1>1. h \in Text /\ b \in Text /\ t \in Text /\ l \in Nat
  BY BodyAfterHeading, BodyLimitBound DEF Headed, Fit
<1>2. d.text = h \o b \/ (d.text = b /\ ~IsPrefix(h, d.text))
  BY BodyAfterHeading
<1>3. d.text = t \/ (d.text = h \o t /\ ~IsPrefix(h, t))
  BY DEF WithHeading
<1> HIDE DEF h, b, l
<1>4. ASSUME NEW s \in Text PROVE IsPrefix(h, h \o s)
  BY <1>1 DEF IsPrefix, Text
<1>5. b = t \/ h \o b = t
  <2>1. h \o b = h \o t => b = t
    BY <1>1, CancelLeft DEF Text
  <2>2. d.text = h \o t => d.text = h \o b
    BY <1>1, <1>2, <1>4
  <2>3. IsPrefix(h, d.text) => d.text = h \o b
    BY <1>2
  <2> QED BY <1>2, <1>3, <2>1, <2>2, <2>3
<1>6. b = <<>> \/ b \in Fit(l)
  BY <1>1, <1>5, FitSuffix DEF l, h
<1> QED BY <1>6, FitIsShort DEF b, h, l


\* Own, as a function.
OwnFunction == [t \in Text |-> Own(t)]

\* The document's text in texts put together.
LEMMA OwnFlatten ==
  ASSUME NEW ss \in Seq(Text)
  PROVE  Own(FlattenSeq(ss)) = FlattenSeq(Mapped(OwnFunction, ss))
<1> DEFINE h == OwnFunction
           P == {vv \in Seq(Text) : Own(FlattenSeq(vv)) = FlattenSeq(Mapped(h, vv))}
<1>0. h \in [Text -> Seq(Spot)] /\ \A t \in Text : h[t] = Own(t)
  BY OwnType DEF OwnFunction
<1> HIDE DEF h
<1>1. <<>> \in P
  <2>1. Own(FlattenSeq(<<>>)) = FlattenSeq(Mapped(h, <<>>))
    BY FlattenEmpty, MapEmpty, OwnEmpty, Zenon
  <2> QED BY <2>1
<1>2. ASSUME NEW vv \in Seq(Text), NEW u \in Text, vv \in P PROVE Append(vv, u) \in P
  <2>1. Own(FlattenSeq(vv)) = FlattenSeq(Mapped(h, vv))
    BY <1>2
  <2>2. Append(vv, u) \in Seq(Text)
    BY AppendProperties
  <2> DEFINE f == FlattenSeq(vv)
             m == Mapped(h, vv)
  <2>3. f \in Text /\ FlattenSeq(Append(vv, u)) = f \o u
    BY FlattenAppend DEF Text
  <2>4. m \in Seq(Seq(Spot)) /\ Mapped(h, Append(vv, u)) = Append(m, h[u])
    <3> DEFINE U == Seq(Spot)
    <3>1. h \in [Text -> U]
      BY <1>0
    <3> HIDE DEF U
    <3>2. [n \in DOMAIN vv |-> h[vv[n]]] \in Seq(U)
      BY <3>1, MapAppend
    <3>3. [n \in DOMAIN Append(vv, u) |-> h[Append(vv, u)[n]]] =
              Append([n \in DOMAIN vv |-> h[vv[n]]], h[u])
      BY <3>1, MapAppend
    <3> QED BY <3>2, <3>3, Zenon DEF Mapped, U
  <2> HIDE DEF f, m
  <2>5. Joined(Own(f \o u), Own(f), Own(u))
    BY <2>3, OwnConcat
  <2>6. h[u] \in Seq(Spot) /\ h[u] = Own(u)
    BY <1>0
  <2>7. FlattenSeq(Append(m, h[u])) = FlattenSeq(m) \o h[u]
    BY <2>4, <2>6, FlattenAppend
  <2>8. Own(FlattenSeq(Append(vv, u))) = FlattenSeq(Mapped(h, Append(vv, u)))
    BY <2>1, <2>3, <2>4, <2>5, <2>6, <2>7, Zenon DEF Joined, f, m
  <2> QED BY <2>2, <2>8
<1>3. Seq(Text) \subseteq P
  <2> HIDE DEF P
  <2> QED BY <1>1, <1>2, SeqInduction
<1> QED BY <1>3 DEF h

\* Texts with the same words of the document, put together, have the same words.
LEMMA OwnSame ==
  ASSUME NEW ss \in Seq(Text), NEW tt \in Seq(Text), Len(ss) = Len(tt),
         \A k \in 1..Len(ss) : Own(ss[k]) = Own(tt[k])
  PROVE  Own(FlattenSeq(ss)) = Own(FlattenSeq(tt))
<1>1. DOMAIN ss = 1..Len(ss) /\ DOMAIN tt = 1..Len(ss)
  OBVIOUS
<1>2. \A k \in 1..Len(ss) : ss[k] \in Text /\ tt[k] \in Text
  OBVIOUS
<1>3. \A t \in Text : OwnFunction[t] = Own(t)
  BY DEF OwnFunction
<1>4. \A k \in 1..Len(ss) : OwnFunction[ss[k]] = OwnFunction[tt[k]]
  BY <1>2, <1>3
<1>5. Mapped(OwnFunction, ss) = Mapped(OwnFunction, tt)
  BY <1>1, <1>4 DEF Mapped
<1> QED BY <1>5, OwnFlatten

\* Each sequence is in what they make together.
LEMMA FlattenElements ==
  ASSUME NEW T, NEW ss \in Seq(Seq(T)), NEW k \in 1..Len(ss)
  PROVE  ToSet(ss[k]) \subseteq ToSet(FlattenSeq(ss))
<1> DEFINE TT == Seq(T)
           a == SubSeq(ss, 1, k - 1)
           b == SubSeq(ss, k + 1, Len(ss))
           x == ss[k]
           one == <<x>>
           ao == a \o one
<1>1. a \in Seq(TT) /\ b \in Seq(TT) /\ ss = (a \o <<x>>) \o b
  <2> HIDE DEF TT
  <2>1. ss \in Seq(TT)
    BY DEF TT
  <2> QED BY <2>1, AroundOne
<1>2. x \in TT /\ one \in Seq(TT)
  OBVIOUS
<1>3. FlattenSeq(one) = x
  <2> HIDE DEF x
  <2> QED BY <1>2, FlattenOne
<1>4. ss = ao \o b
  BY <1>1
<1> HIDE DEF a, b, one, x
<1>5. ao \in Seq(TT) /\ FlattenSeq(ao) = FlattenSeq(a) \o FlattenSeq(one)
  BY <1>1, <1>2, ConcatType, FlattenConcat
<1> HIDE DEF ao
<1>6. FlattenSeq(ss) = FlattenSeq(ao) \o FlattenSeq(b)
  BY <1>1, <1>4, <1>5, FlattenConcat
<1> DEFINE fa == FlattenSeq(a)
           fb == FlattenSeq(b)
           fo == FlattenSeq(ao)
<1>7. fa \in Seq(T) /\ fb \in Seq(T) /\ fo \in Seq(T)
  BY <1>1, <1>5, FlattenType
<1>8. fo = fa \o x /\ FlattenSeq(ss) = fo \o fb
  BY <1>3, <1>5, <1>6
<1> HIDE DEF fa, fb, fo
<1>9. ToSet(fo \o fb) = ToSet(fo) \cup ToSet(fb)
  BY <1>7, ToSetConcat
<1>10. ToSet(fa \o x) = ToSet(fa) \cup ToSet(x)
  BY <1>2, <1>7, ToSetConcat
<1> QED BY <1>8, <1>9, <1>10 DEF x


\* What splitting may put in the place of a chunk.
SplitsInto(c, r) ==
    /\ Replaces(<<c>>, r) /\ Len(r) \in Nat /\ Len(r) >= 1
    /\ \A d \in ToSet(r) :
           /\ d.parent = c.parent /\ d.blocks = c.blocks /\ d.kind = c.kind
           /\ Short(d)
    /\ r = <<c>> \/ (~Protected(c) /\ \A d \in ToSet(r) : Len(d.id) = 2)

\* The chunk d is the part k of c, with the text t.
IsPart(c, t, k, d) ==
    /\ Formed(d) /\ From(c, d) /\ d.id[2] = k /\ Len(d.id) = 2 /\ d.id[1] = c.id[1]
    /\ d.parent = c.parent /\ d.blocks = c.blocks /\ d.kind = c.kind
    /\ Own(d.text) = Own(t) /\ Short(d)

\* The id of a part: the id of its chunk and one more number.
LEMMA SecondNumber ==
  ASSUME NEW s \in Seq(Nat), Len(s) = 1, NEW k \in Nat
  PROVE  /\ Append(s, k) \in Seq(Nat) /\ Len(Append(s, k)) = 2
         /\ Append(s, k)[2] = k /\ Append(s, k)[1] = s[1]
<1> DEFINE n == s[1]
<1>1. n \in Nat
  <2>1. 1 \in 1..Len(s) /\ s \in [1..Len(s) -> Nat]
    OBVIOUS
  <2> QED BY <2>1
<1>2. s = <<n>>
  OBVIOUS
<1> HIDE DEF n
<1>3. Append(<<n>>, k) = <<n, k>>
  <2>1. <<n>> \in Seq(Nat)
    BY <1>1
  <2>2. Append(<<n>>, k) = <<n>> \o <<k>>
    BY <2>1, AppendIsConcat
  <2> QED BY <2>2, PairConcat
<1>4. <<n, k>> \in Seq(Nat) /\ Len(<<n, k>>) = 2 /\ <<n, k>>[2] = k /\ <<n, k>>[1] = n
  BY <1>1
<1> QED BY <1>2, <1>3, <1>4 DEF n

\* A part that splitting makes is well formed, comes from its chunk and is not overlong.
LEMMA PartFacts ==
  ASSUME NEW c, Formed(c), Len(c.id) = 1, NEW t, t \in Fit(BodyLimit(c.heading)),
         Within(t, c.text), NEW k \in Nat,
         NEW d, d = [c EXCEPT !.id = Append(@, k), !.text = WithHeading(t, c.heading)]
  PROVE  IsPart(c, t, k, d)
<1> DEFINE h == c.heading
           i == Append(c.id, k)
           w == WithHeading(t, h)
<1>1. c \in Chunk /\ Headed(h) /\ h \in Text
  BY DEF Formed, Headed, Chunk, Text
<1>2. i \in Seq(Nat) /\ Len(i) = 2 /\ i[2] = k /\ i[1] = c.id[1]
  <2>1. c.id \in Seq(Nat) /\ Len(c.id) = 1
    BY <1>1 DEF Chunk
  <2> QED BY <2>1, SecondNumber
<1>3. t \in Text
  BY DEF Fit
<1> HIDE DEF h
<1>4. w \in Text /\ Own(w) = Own(t) /\ Within(w, t)
  BY <1>1, <1>3, HeadedText
<1>5. Within(w, c.text)
  BY <1>4 DEF Within
<1>6. d = [c EXCEPT !.id = i, !.text = w]
  BY DEF h
<1> HIDE DEF i, w
<1>7. /\ d \in Chunk /\ d.id = i /\ d.text = w /\ d.parent = c.parent /\ d.blocks = c.blocks
      /\ d.kind = c.kind /\ d.heading = c.heading /\ d.first = c.first /\ d.last = c.last
  BY <1>1, <1>2, <1>4, <1>6 DEF Chunk, Text
<1>8. Sourced(d)
  BY <1>5, <1>7 DEF Sourced, Formed, Within
<1>9. Formed(d)
  BY <1>2, <1>7, <1>8 DEF Formed
<1>10. From(c, d)
  BY <1>2, <1>7 DEF From
<1>11. Short(d)
  BY <1>1, <1>7, HeadedShort DEF w, h
<1> QED BY <1>2, <1>4, <1>7, <1>9, <1>10, <1>11 DEF IsPart

\* split_overlong_chunk: the parts of a chunk may take its place.
LEMMA PartsReplace ==
  ASSUME NEW c, Formed(c), Len(c.id) = 1
  PROVE  SplitsInto(c, Parts(c))
<1> DEFINE b == BodyOf(c)
           l == BodyLimit(c.heading)
           texts == SplitText(b, l)
           r == Parts(c)
           one == <<c>>
<1>1. c \in Chunk /\ Headed(c.heading) /\ c.heading \in Text
  BY DEF Formed, Headed, Chunk, Text
<1>2. b \in Text /\ Own(b) = Own(c.text) /\ Within(b, c.text)
  BY <1>1, BodyText
<1>3. l \in Nat
  BY <1>1, BodyLimitBound
<1> HIDE DEF b, l
<1>4. texts \in Seq(Fit(l)) /\ FlattenSeq(texts) = b
  BY <1>2, <1>3, SplitTextParts
<1>5. one \in Seq(Chunk) /\ ToSet(one) = {c} /\ Len(one) = 1
  BY <1>1, ToSetOne
<1>6. Fit(l) \subseteq Text
  BY DEF Fit
<1>7. texts \in Seq(Text) /\ Len(texts) \in Nat /\ DOMAIN texts = 1..Len(texts)
      /\ \A k \in 1..Len(texts) : texts[k] \in Fit(l) /\ texts[k] \in Text
  <2> HIDE DEF texts
  <2>1. texts \in Seq(Text)
    BY <1>4, <1>6
  <2>2. \A k \in 1..Len(texts) : texts[k] \in Fit(l)
    BY <1>4
  <2> QED BY <1>6, <2>1, <2>2
<1>8. r = IF Splittable(c) /\ Len(texts) > 1 THEN PartsOf(c, texts) ELSE one
  BY DEF Parts, b, l
<1> HIDE DEF texts, r, one
<1>9. CASE Splittable(c) /\ Len(texts) > 1
  <2> DEFINE n == Len(texts)
             part(k) == [c EXCEPT !.id = Append(@, k), !.text = WithHeading(texts[k], c.heading)]
  <2>1. r = [k \in 1..n |-> part(k)]
    BY <1>7, <1>8, <1>9 DEF PartsOf
  <2>2. ASSUME NEW k \in 1..n
        PROVE  /\ Formed(part(k)) /\ From(c, part(k)) /\ part(k).id[2] = k /\ Len(part(k).id) = 2
               /\ part(k).id[1] = c.id[1]
               /\ part(k).parent = c.parent /\ part(k).blocks = c.blocks /\ part(k).kind = c.kind
               /\ Own(part(k).text) = Own(texts[k]) /\ Short(part(k))
    <3>1. Within(texts[k], c.text)
      <4>1. ToSet(texts[k]) \subseteq ToSet(FlattenSeq(texts))
        BY <1>7, FlattenElements DEF Text
      <4> QED BY <1>2, <1>4, <4>1 DEF Within
    <3>2. texts[k] \in Fit(BodyLimit(c.heading)) /\ k \in Nat
      BY <1>7 DEF l
    <3> DEFINE d == part(k)
    <3>3. d = [c EXCEPT !.id = Append(@, k), !.text = WithHeading(texts[k], c.heading)]
      OBVIOUS
    <3> HIDE DEF d
    <3>4. IsPart(c, texts[k], k, d)
      BY <3>1, <3>2, <3>3, PartFacts
    <3> QED BY <3>4 DEF d, IsPart
  <2> HIDE DEF part
  <2>3. n \in Nat /\ n > 1 /\ \A k \in 1..n : part(k) \in Chunk
    <3>1. \A k \in 1..n : Formed(part(k))
      BY <2>2
    <3> QED BY <1>7, <1>9, <3>1 DEF Formed
  <2> HIDE DEF n
  <2>4. r \in Seq(Chunk) /\ Len(r) = n /\ DOMAIN r = 1..n /\ \A k \in 1..n : r[k] = part(k)
    BY <2>1, <2>3
  <2>5. \A d \in ToSet(r) : \E k \in 1..n : d = part(k)
    BY <2>4 DEF ToSet
  <2>6. InOrder(r)
    <3>1. ASSUME NEW i \in 1..n, NEW j \in 1..n, i < j PROVE Before(part(i), part(j))
      <4>1. part(i).id[2] < part(j).id[2]
        BY <2>2, <3>1
      <4>2. part(i).parent = c.parent /\ part(j).parent = c.parent /\ c.parent <= c.parent
        BY <1>1, <2>2 DEF Chunk
      <4> QED BY <2>2, <4>1, <4>2 DEF Before
    <3> QED BY <2>4, <3>1 DEF InOrder
  <2>7. Written(r) = Own(c.text)
    <3> DEFINE m == Mapped(TextOf, r)
    <3>1. \A x \in Chunk : TextOf[x] = x.text
      BY DEF TextOf
    <3>2. TextOf \in [Chunk -> Text]
      BY DEF TextOf, Chunk, Text
    <3>3. m \in Seq(Text)
      BY <2>4, <3>2, MapType
    <3>4. Len(m) = n
      BY <2>4, MapLen
    <3>5. \A k \in 1..n : m[k] = part(k).text
      BY <2>3, <2>4, <3>1 DEF Mapped
    <3> HIDE DEF m
    <3>6. \A k \in 1..n : Own(m[k]) = Own(texts[k])
      BY <2>2, <3>5
    <3>7. Own(FlattenSeq(m)) = Own(FlattenSeq(texts))
      BY <1>7, <3>3, <3>4, <3>6, OwnSame DEF n
    <3>8. Written(r) = Own(FlattenSeq(m))
      BY <2>4, WrittenIsOwn DEF Whole, m
    <3> QED BY <1>2, <1>4, <3>7, <3>8
  <2>8. Written(one) = Own(c.text)
    BY <1>1, WrittenOne DEF one
  <2>9. ~Protected(c) /\ \A k \in 1..n : ~Protected(part(k))
    BY <1>9, <2>2 DEF Protected, Splittable
  <2>10. Media(r) = <<>> /\ Media(one) = <<>>
    BY <1>5, <2>4, <2>5, <2>9, MediaNone
  <2>11. Replaces(one, r)
    <3>1. \A d \in ToSet(r) : Formed(d) /\ From(c, d)
      BY <2>2, <2>5
    <3> QED BY <1>5, <2>4, <2>6, <2>7, <2>8, <2>10, <3>1 DEF Replaces
  <2>12. \A d \in ToSet(r) : /\ d.parent = c.parent /\ d.blocks = c.blocks /\ d.kind = c.kind
                             /\ Short(d) /\ Len(d.id) = 2
    BY <2>2, <2>5
  <2>13. Len(r) \in Nat /\ Len(r) >= 1
    BY <2>3, <2>4
  <2> QED BY <2>9, <2>11, <2>12, <2>13 DEF SplitsInto, one, r
<1>10. CASE ~(Splittable(c) /\ Len(texts) > 1)
  <2>1. r = one
    BY <1>8, <1>10
  <2>2. Short(c)
    <3>1. CASE ~Splittable(c)
      BY <3>1 DEF Short
    <3>2. CASE Splittable(c)
      <4>1. Len(texts) = 0 \/ Len(texts) = 1
        BY <1>7, <1>10, <3>2
      <4>2. CASE Len(texts) = 0
        <5>1. texts = <<>>
          BY <1>7, <4>2
        <5>2. b = <<>>
          BY <1>4, <5>1, FlattenEmpty
        <5> QED BY <1>1, <5>2, FitIsShort DEF b
      <4>3. CASE Len(texts) = 1
        <5> DEFINE t == texts[1]
        <5>1. t \in Fit(l) /\ t \in Text
          BY <1>7, <4>3
        <5>2. texts = <<t>>
          <6>1. texts = [k \in 1..Len(texts) |-> texts[k]]
            BY <1>7
          <6> QED BY <4>3, <6>1
        <5> HIDE DEF t
        <5>3. FlattenSeq(<<t>>) = t
          BY <5>1, FlattenOne DEF Text
        <5>4. b \in Fit(l)
          BY <1>4, <5>1, <5>2, <5>3
        <5> QED BY <1>1, <5>4, FitIsShort DEF b, l
      <4> QED BY <4>1, <4>2, <4>3
    <3> QED BY <3>1, <3>2
  <2>3. From(c, c)
    BY DEF From
  <2>4. InOrder(one)
    BY InOrderShort DEF one
  <2>5. Replaces(one, one)
    BY <1>5, <2>3, <2>4 DEF Replaces
  <2> QED BY <1>5, <2>1, <2>2, <2>5 DEF SplitsInto, one, r
<1> QED BY <1>9, <1>10


\* Three lists, one after the other, by place.
Laid(s, a, q, c) ==
    /\ Len(a) \in Nat /\ Len(q) \in Nat /\ Len(c) \in Nat
    /\ Len(s) = Len(a) + Len(q) + Len(c)
    /\ \A i \in 1..Len(a) : s[i] = a[i]
    /\ \A i \in 1..Len(q) : s[Len(a) + i] = q[i]
    /\ \A i \in 1..Len(c) : s[Len(a) + Len(q) + i] = c[i]

\* The places in three lists, one after the other.
LEMMA ThreeIndex ==
  ASSUME NEW T, NEW a \in Seq(T), NEW q \in Seq(T), NEW c \in Seq(T), NEW s, Glued(s, a, q, c)
  PROVE  s \in Seq(T) /\ Laid(s, a, q, c)
<1> DEFINE b == a \o q
<1>1. /\ b \in Seq(T) /\ Len(a) \in Nat /\ Len(q) \in Nat /\ Len(b) = Len(a) + Len(q)
      /\ \A i \in 1..Len(a) : b[i] = a[i]
      /\ \A i \in 1..Len(q) : b[Len(a) + i] = q[i]
  BY ConcatIndex
<1>2. s = b \o c
  BY DEF Glued
<1> HIDE DEF b
<1>3. /\ s \in Seq(T) /\ Len(c) \in Nat /\ Len(s) = Len(b) + Len(c)
      /\ \A i \in 1..Len(b) : s[i] = b[i]
      /\ \A i \in 1..Len(c) : s[Len(b) + i] = c[i]
  <2>0. b \in Seq(T)
    BY <1>1
  <2>1. /\ b \o c \in Seq(T) /\ Len(c) \in Nat /\ Len(b \o c) = Len(b) + Len(c)
        /\ \A i \in 1..Len(b) : (b \o c)[i] = b[i]
        /\ \A i \in 1..Len(c) : (b \o c)[Len(b) + i] = c[i]
    BY <2>0, ConcatIndex
  <2> QED BY <1>2, <2>1
<1>4. \A i \in 1..Len(a) : i \in 1..Len(b)
  BY <1>1
<1>5. \A i \in 1..Len(q) : Len(a) + i \in 1..Len(b)
  BY <1>1
<1>6. \A i \in 1..Len(a) : s[i] = a[i]
  BY <1>1, <1>3, <1>4
<1>7. \A i \in 1..Len(q) : s[Len(a) + i] = q[i]
  BY <1>1, <1>3, <1>5
<1> QED BY <1>1, <1>3, <1>6, <1>7 DEF Laid

(***************************************************************************)
(* Small chunks that are left                                               *)
(***************************************************************************)
Settles(x, y) == Small(x) /\ Len(x.id) = 1 => Protected(y)

\* Nobody to merge with, said of neighbours.
LEMMA AloneIsPairs ==
  ASSUME NEW cs \in Seq(Chunk)
  PROVE  Alone(cs) <=> \A k \in 1..(Len(cs) - 1) : /\ Settles(cs[k], cs[k + 1])
                                                   /\ Settles(cs[k + 1], cs[k])
<1>1. DOMAIN cs = 1..Len(cs) /\ Len(cs) \in Nat
  OBVIOUS
<1>2. Alone(cs) <=> \A k \in 1..Len(cs) : \A j \in {k - 1, k + 1} \cap 1..Len(cs) : Settles(cs[k], cs[j])
  BY <1>1 DEF Alone, Settles
<1>3. ASSUME NEW k \in 1..Len(cs), NEW j \in {k - 1, k + 1} \cap 1..Len(cs)
      PROVE  \/ k \in 1..(Len(cs) - 1) /\ j = k + 1
             \/ j \in 1..(Len(cs) - 1) /\ k = j + 1
  BY <1>1, <1>3
<1>4. ASSUME NEW k \in 1..(Len(cs) - 1)
      PROVE  /\ k \in 1..Len(cs) /\ k + 1 \in {k - 1, k + 1} \cap 1..Len(cs)
             /\ k + 1 \in 1..Len(cs) /\ k \in {(k + 1) - 1, (k + 1) + 1} \cap 1..Len(cs)
  BY <1>1, <1>4
<1> QED BY <1>2, <1>3, <1>4

\* Parts in the place of a chunk that is no media leave it so.
LEMMA AloneReplaced ==
  ASSUME NEW a \in Seq(Chunk), NEW c \in Chunk, NEW r \in Seq(Chunk), NEW e \in Seq(Chunk),
         NEW s, NEW t, Glued(s, a, <<c>>, e), Glued(t, a, r, e), Alone(s),
         Len(r) >= 1, ~Protected(c), \A i \in 1..Len(r) : Len(r[i].id) = 2
  PROVE  Alone(t)
<1> DEFINE one == <<c>>
           m == Len(a)
           n == Len(r)
           l == Len(e)
<1>1. one \in Seq(Chunk) /\ Len(one) = 1 /\ one[1] = c
  OBVIOUS
<1> HIDE DEF one
<1>2. /\ s \in Seq(Chunk) /\ Len(s) = Len(a) + Len(one) + Len(e)
      /\ \A i \in 1..Len(a) : s[i] = a[i]
      /\ \A i \in 1..Len(one) : s[Len(a) + i] = one[i]
      /\ \A i \in 1..Len(e) : s[Len(a) + Len(one) + i] = e[i]
  <2>1. Glued(s, a, one, e)
    BY DEF one
  <2>2. one \in Seq(Chunk)
    BY <1>1
  <2>3. s \in Seq(Chunk) /\ Laid(s, a, one, e)
    BY <2>1, <2>2, ThreeIndex
  <2> QED BY <2>3 DEF Laid
<1>3. /\ t \in Seq(Chunk) /\ Len(a) \in Nat /\ Len(r) \in Nat /\ Len(e) \in Nat
      /\ Len(t) = Len(a) + Len(r) + Len(e)
      /\ \A i \in 1..Len(a) : t[i] = a[i]
      /\ \A i \in 1..Len(r) : t[Len(a) + i] = r[i]
      /\ \A i \in 1..Len(e) : t[Len(a) + Len(r) + i] = e[i]
  <2>1. t \in Seq(Chunk) /\ Laid(t, a, r, e)
    BY ThreeIndex
  <2> QED BY <2>1 DEF Laid
<1>4. \A k \in 1..(Len(s) - 1) : Settles(s[k], s[k + 1]) /\ Settles(s[k + 1], s[k])
  BY <1>2, AloneIsPairs
<1>5. /\ m \in Nat /\ n \in Nat /\ l \in Nat /\ n >= 1
      /\ Len(s) = m + 1 + l /\ Len(t) = m + n + l
      /\ \A i \in 1..m : s[i] = a[i] /\ t[i] = a[i]
      /\ \A i \in 1..n : t[m + i] = r[i]
      /\ s[m + 1] = c
      /\ \A i \in 1..l : s[m + 1 + i] = e[i] /\ t[m + n + i] = e[i]
  BY <1>1, <1>2, <1>3
<1> HIDE DEF m, n, l
<1>6. \A i \in 1..n : Len(r[i].id) = 2
  BY DEF n
<1>7. ASSUME NEW k \in 1..(Len(t) - 1)
      PROVE  Settles(t[k], t[k + 1]) /\ Settles(t[k + 1], t[k])
  <2>1. CASE k < m
    <3>1. k \in 1..m /\ k + 1 \in 1..m /\ k \in 1..(Len(s) - 1)
      BY <1>5, <2>1
    <3> QED BY <1>4, <1>5, <3>1
  <2>2. CASE k = m
    <3>1. m \in 1..m /\ m \in 1..(Len(s) - 1) /\ 1 \in 1..n
      BY <1>5, <2>2
    <3>2. Settles(s[m], s[m + 1]) /\ s[m] = t[m] /\ t[m + 1] = r[1] /\ s[m + 1] = c
      BY <1>4, <1>5, <3>1
    <3>3. Len(r[1].id) = 2
      BY <1>6, <3>1
    <3>4. ~Protected(c)
      OBVIOUS
    <3> QED BY <2>2, <3>2, <3>3, <3>4 DEF Settles
  <2>3. CASE k > m /\ k < m + n
    <3>1. k - m \in 1..n /\ k - m + 1 \in 1..n /\ m + (k - m) = k /\ m + (k - m + 1) = k + 1
      BY <1>5, <2>3
    <3>2. t[k] = r[k - m] /\ t[k + 1] = r[k - m + 1]
      BY <1>5, <3>1
    <3>3. Len(t[k].id) = 2 /\ Len(t[k + 1].id) = 2
      BY <1>6, <3>1, <3>2
    <3> QED BY <3>3 DEF Settles
  <2>4. CASE k = m + n
    <3>1. n \in 1..n /\ 1 \in 1..l /\ m + 1 \in 1..(Len(s) - 1) /\ (m + 1) + 1 = m + 1 + 1
      BY <1>5, <2>4
    <3>2. Settles(s[m + 1 + 1], s[m + 1]) /\ s[m + 1] = c
      BY <1>4, <1>5, <3>1
    <3>3. s[m + 1 + 1] = e[1] /\ t[m + n + 1] = e[1]
      BY <1>5, <3>1
    <3>4. t[k] = r[n] /\ t[k + 1] = t[m + n + 1]
      BY <1>5, <2>4, <3>1
    <3>5. Len(r[n].id) = 2 /\ ~Protected(c)
      BY <1>6, <3>1
    <3> QED BY <3>2, <3>3, <3>4, <3>5 DEF Settles
  <2>5. CASE k > m + n
    <3>1. k - m - n \in 1..l /\ k - m - n + 1 \in 1..l /\ m + n + (k - m - n) = k
          /\ m + n + (k - m - n + 1) = k + 1
          /\ k - n + 1 \in 1..(Len(s) - 1) /\ m + 1 + (k - m - n) = k - n + 1
          /\ m + 1 + (k - m - n + 1) = k - n + 1 + 1
      BY <1>5, <2>5
    <3> DEFINE i == k - m - n
               j == k - n + 1
    <3>2. i \in 1..l /\ i + 1 \in 1..l /\ m + n + i = k /\ m + n + (i + 1) = k + 1
          /\ j \in 1..(Len(s) - 1) /\ m + 1 + i = j /\ m + 1 + (i + 1) = j + 1
      BY <3>1
    <3> HIDE DEF i, j
    <3>3. Settles(s[j], s[j + 1]) /\ Settles(s[j + 1], s[j])
      BY <1>4, <3>2
    <3>4. s[m + 1 + i] = e[i] /\ t[m + n + i] = e[i]
      BY <1>5, <3>2
    <3>5. s[m + 1 + (i + 1)] = e[i + 1] /\ t[m + n + (i + 1)] = e[i + 1]
      BY <1>5, <3>2
    <3>6. s[j] = t[k] /\ s[j + 1] = t[k + 1]
      BY <3>2, <3>4, <3>5
    <3> QED BY <3>3, <3>6
  <2> QED BY <1>5, <2>1, <2>2, <2>3, <2>4, <2>5
<1> QED BY <1>3, <1>7, AloneIsPairs

\* All chunks are children of the parent.
LEMMA OfAll ==
  ASSUME NEW s \in Seq(Chunk), NEW p, \A d \in ToSet(s) : d.parent = p
  PROVE  Of(p, s) = s
<1> DEFINE S == {d \in Chunk : d.parent = p}
<1>1. ToSet(s) \subseteq S
  BY ToSetType
<1>2. Of(p, s) = Only(s, S)
  BY OfIsOnly
<1> HIDE DEF S
<1> QED BY <1>1, <1>2, OnlyAll


\* The list ds is cs with r in the place of the chunk k.
Unrolled(cs, ds, k, r) ==
    /\ Len(r) \in Nat /\ Len(ds) = Len(cs) - 1 + Len(r)
    /\ \A j \in 1..(k - 1) : ds[j] = cs[j]
    /\ \A j \in k..(k + Len(r) - 1) : ds[j] \in ToSet(r)
    /\ \A j \in (k + Len(r))..Len(ds) : ds[j] = cs[j - Len(r) + 1]

\* The places in the list after a chunk is replaced by its parts.
LEMMA UnrolledIndex ==
  ASSUME NEW a \in Seq(Chunk), NEW c \in Chunk, NEW r \in Seq(Chunk), NEW e \in Seq(Chunk),
         NEW cs, NEW ds, Glued(cs, a, <<c>>, e), Glued(ds, a, r, e), NEW k, k = Len(a) + 1
  PROVE  Unrolled(cs, ds, k, r)
<1> DEFINE one == <<c>>
           m == Len(a)
           n == Len(r)
           l == Len(e)
<1>1. one \in Seq(Chunk) /\ Len(one) = 1 /\ Glued(cs, a, one, e)
  OBVIOUS
<1> HIDE DEF one
<1>2. Laid(cs, a, one, e)
  <2>1. one \in Seq(Chunk) /\ Glued(cs, a, one, e)
    BY <1>1
  <2> QED BY <2>1, ThreeIndex
<1>3. Laid(ds, a, r, e)
  BY ThreeIndex
<1>4. /\ m \in Nat /\ n \in Nat /\ l \in Nat /\ Len(cs) = m + 1 + l /\ Len(ds) = m + n + l
      /\ \A i \in 1..m : cs[i] = a[i] /\ ds[i] = a[i]
      /\ \A i \in 1..n : ds[m + i] = r[i]
      /\ \A i \in 1..l : cs[m + 1 + i] = e[i] /\ ds[m + n + i] = e[i]
  BY <1>1, <1>2, <1>3 DEF Laid
<1>5. DOMAIN r = 1..n /\ k = m + 1
  OBVIOUS
<1> HIDE DEF m, n, l
<1>6. \A j \in 1..(k - 1) : ds[j] = cs[j]
  BY <1>4, <1>5
<1>7. ASSUME NEW j \in k..(k + n - 1) PROVE ds[j] \in ToSet(r)
  <2>1. j - m \in 1..n /\ m + (j - m) = j
    BY <1>4, <1>5
  <2>2. ds[j] = r[j - m]
    BY <1>4, <2>1
  <2> QED BY <1>5, <2>1, <2>2 DEF ToSet
<1>8. ASSUME NEW j \in (k + n)..Len(ds) PROVE ds[j] = cs[j - n + 1]
  <2> DEFINE i == j - m - n
  <2>1. i \in 1..l /\ m + n + i = j /\ m + 1 + i = j - n + 1
    BY <1>4, <1>5
  <2> HIDE DEF i
  <2>2. cs[m + 1 + i] = e[i] /\ ds[m + n + i] = e[i]
    BY <1>4, <2>1
  <2> QED BY <2>1, <2>2
<1>9. Len(ds) = Len(cs) - 1 + n
  BY <1>4
<1> QED BY <1>4, <1>6, <1>7, <1>8, <1>9 DEF Unrolled, n

\* The parents know the parts of c.
Spreading(ps, qs, c, r) ==
    /\ qs \in Seq(Family) /\ Len(qs) = Len(ps)
    /\ \A i \in DOMAIN ps : /\ qs[i].id = ps[i].id
                            /\ qs[i].kids = Spread(ps[i].kids, c.id, Ids(r))
                            /\ qs[i].blocks = ps[i].blocks

\* The parts r take the place of the chunk c, at k, and parents list them instead of it.
Splits(cs, ps, k, c, r, ds, qs) ==
    /\ Sound(cs) /\ Linked(ps, cs) /\ k \in 1..Len(cs) /\ c = cs[k]
    /\ SplitsInto(c, r)
    /\ ds = SubSeq(cs, 1, k - 1) \o r \o SubSeq(cs, k + 1, Len(cs))
    /\ Spreading(ps, qs, c, r)

\* A chunk is replaced by its parts: the chunks stay sound and the parents agree.
LEMMA SplitChunk ==
  ASSUME NEW cs, NEW ps, NEW k, NEW c, NEW r, NEW ds, NEW qs,
         Splits(cs, ps, k, c, r, ds, qs)
  PROVE  /\ Sound(ds) /\ Written(ds) = Written(cs) /\ Media(ds) = Media(cs)
         /\ Linked(qs, ds) /\ Unrolled(cs, ds, k, r)
         /\ \A p : Alone(Of(p, cs)) => Alone(Of(p, ds))
<1> SUFFICES ASSUME Sound(cs), Linked(ps, cs), k \in 1..Len(cs), c = cs[k], SplitsInto(c, r),
                    ds = SubSeq(cs, 1, k - 1) \o r \o SubSeq(cs, k + 1, Len(cs)),
                    Spreading(ps, qs, c, r)
             PROVE  /\ Sound(ds) /\ Written(ds) = Written(cs) /\ Media(ds) = Media(cs)
                    /\ Linked(qs, ds) /\ Unrolled(cs, ds, k, r)
                    /\ \A p : Alone(Of(p, cs)) => Alone(Of(p, ds))
  BY DEF Splits
<1> DEFINE a == SubSeq(cs, 1, k - 1)
           e == SubSeq(cs, k + 1, Len(cs))
           one == <<c>>
<1>1. cs \in Seq(Chunk) /\ r \in Seq(Chunk) /\ Replaces(one, r) /\ Len(r) \in Nat /\ Len(r) >= 1
  BY DEF Sound, SplitsInto, Replaces
<1>2. a \in Seq(Chunk) /\ e \in Seq(Chunk) /\ Len(a) = k - 1 /\ cs = (a \o <<cs[k]>>) \o e
  BY <1>1, AroundOne
<1>3. Glued(cs, a, <<c>>, e) /\ Glued(ds, a, r, e) /\ Glued(cs, a, one, e)
  BY <1>2 DEF Glued
<1>4. c \in Chunk
  BY <1>1
<1>5. one \in Seq(Chunk) /\ ToSet(one) = {c}
  BY <1>4, ToSetOne
<1> HIDE DEF a, e, one
<1>6. Outcome(cs, ds, one, r)
  BY <1>1, <1>2, <1>3, <1>5, Edited
<1>7. Unrolled(cs, ds, k, r)
  <2>1. k = Len(a) + 1
    BY <1>2
  <2> QED BY <1>1, <1>2, <1>3, <1>4, <2>1, UnrolledIndex
<1>8. ToSet(cs) = ToSet(a) \cup ToSet(one) \cup ToSet(e) /\ ToSet(ds) = ToSet(a) \cup ToSet(r) \cup ToSet(e)
  <2>1. ToSet((a \o one) \o e) = ToSet(a) \cup ToSet(one) \cup ToSet(e)
    BY <1>2, <1>5, ToSetAround
  <2>2. ToSet((a \o r) \o e) = ToSet(a) \cup ToSet(r) \cup ToSet(e)
    BY <1>1, <1>2, ToSetAround
  <2> QED BY <1>3, <2>1, <2>2 DEF Glued
<1>9. \A z \in ToSet(a) \cup ToSet(e) : z.id # c.id
  <2>1. InOrder((a \o one) \o e) /\ \A z \in ToSet((a \o one) \o e) : Sized(z)
    BY <1>3, FormedIsSized DEF Sound, Glued
  <2>2. /\ \A z \in ToSet(a), w \in ToSet(one) : z.id # w.id
        /\ \A z \in ToSet(e), w \in ToSet(one) : z.id # w.id
    BY <1>2, <1>5, <2>1, DistinctAround
  <2> QED BY <1>5, <2>2
<1>10. \A d \in ToSet(r) : d.parent = c.parent
  BY DEF SplitsInto
<1>11. Linked(qs, ds)
  <2>1. ps \in Seq(Family) /\ \A i \in DOMAIN ps : ps[i].kids = Kids(ps[i].id, cs)
    BY DEF Linked, Kids, ToSet
  <2>2. \A p : Kids(p, ds) = Spread(Kids(p, cs), c.id, Ids(r))
    <3>1. SUFFICES ASSUME NEW p PROVE Kids(p, ds) = Spread(Kids(p, cs), c.id, Ids(r))
      OBVIOUS
    <3>2. a \in Seq(Chunk) /\ e \in Seq(Chunk)
      BY <1>2
    <3> QED BY <1>1, <1>3, <1>4, <1>9, <1>10, <3>2, KidsSplit
  <2>3. \A i \in DOMAIN ps : qs[i].id = ps[i].id /\ qs[i].kids = Kids(ps[i].id, ds)
    BY <2>1, <2>2 DEF Spreading
  <2>4. ASSUME NEW d \in ToSet(ds)
        PROVE  \E w \in ToSet(cs) : d.parent = w.parent /\ d.blocks = w.blocks
    <3>1. CASE d \in ToSet(cs)
      BY <3>1
    <3>2. CASE d \in ToSet(r)
      <4>1. c \in ToSet(cs)
        BY <1>5, <1>8
      <4> QED BY <3>2, <4>1 DEF SplitsInto
    <3> QED BY <1>8, <3>1, <3>2
  <2>5. ASSUME NEW w \in ToSet(cs), NEW i \in DOMAIN ps, ps[i].id = w.parent PROVE w.blocks \subseteq qs[i].blocks
    BY <2>5 DEF Linked, ToSet, Spreading
  <2>6. \A d \in ToSet(ds) :
           /\ \E x \in ToSet(cs) : d.parent = x.parent
           /\ \A i \in DOMAIN ps : ps[i].id = d.parent => d.blocks \subseteq qs[i].blocks
    BY <2>4, <2>5
  <2>7. Knows(ps, qs, cs, ds)
    BY <2>3, <2>6 DEF Knows, Spreading
  <2> QED BY <2>7, LinkedKnown
<1>12. ASSUME NEW p, Alone(Of(p, cs)) PROVE Alone(Of(p, ds))
  <2>1. CASE r = one
    BY <1>3, <1>12, <2>1 DEF Glued
  <2>2. CASE c.parent # p
    <3>1. Of(p, one) = <<>> /\ Of(p, r) = <<>>
      BY <1>1, <1>5, <1>10, <2>2, OfOther
    <3>2. Of(p, ds) = Of(p, cs)
      BY <1>1, <1>2, <1>3, <1>5, <3>1, OfAround
    <3> QED BY <1>12, <3>2
  <2>3. CASE c.parent = p /\ r # one
    <3>1. Of(p, r) = r
      BY <1>1, <1>10, <2>3, OfAll
    <3>2. Of(p, one) = <<c>>
      BY <1>4, <2>3, OfOne DEF one
    <3> DEFINE oa == Of(p, a)
               oe == Of(p, e)
    <3>3. oa \in Seq(Chunk) /\ oe \in Seq(Chunk)
      BY <1>2, OfConcat
    <3>4. ASSUME NEW u \in Seq(Chunk)
          PROVE  Of(p, (a \o u) \o e) = (oa \o Of(p, u)) \o oe
      <4> DEFINE v == a \o u
      <4>1. v \in Seq(Chunk)
        BY <1>2, ConcatType
      <4>2. Of(p, v) = oa \o Of(p, u)
        BY <1>2, OfConcat
      <4> HIDE DEF v
      <4>3. Of(p, v \o e) = Of(p, v) \o oe
        BY <1>2, <4>1, OfConcat
      <4> QED BY <4>2, <4>3 DEF v
    <3>5. Of(p, cs) = (oa \o Of(p, one)) \o oe
      BY <1>3, <1>5, <3>4 DEF Glued
    <3>6. Of(p, ds) = (oa \o Of(p, r)) \o oe
      BY <1>1, <1>3, <3>4 DEF Glued
    <3> HIDE DEF oa, oe
    <3>7. Glued(Of(p, cs), oa, <<c>>, oe) /\ Glued(Of(p, ds), oa, r, oe)
      BY <3>1, <3>2, <3>5, <3>6 DEF Glued
    <3>8. ~Protected(c) /\ \A d \in ToSet(r) : Len(d.id) = 2
      BY <2>3 DEF SplitsInto, one
    <3>9. \A i \in 1..Len(r) : Len(r[i].id) = 2
      BY <1>1, <3>8 DEF ToSet
    <3> DEFINE s == Of(p, cs)
               t == Of(p, ds)
    <3>10. Alone(s) /\ Glued(s, oa, <<c>>, oe) /\ Glued(t, oa, r, oe)
      BY <1>12, <3>7
    <3>11. r \in Seq(Chunk) /\ Len(r) >= 1
      BY <1>1
    <3> HIDE DEF s, t
    <3>12. Alone(t)
      BY <1>4, <3>3, <3>8, <3>9, <3>10, <3>11, AloneReplaced
    <3> QED BY <3>12 DEF t
  <2> QED BY <2>1, <2>2, <2>3
<1> QED BY <1>6, <1>7, <1>11, <1>12 DEF Outcome

-----------------------------------------------------------------------------
(* The passes *)

\* The chunks of module ChunkPackage are sound.
LEMMA ChunksAreSound ==
  ASSUME Chunks
  PROVE  Sound(children) /\ Linked(parents, children)
BY DEF Chunks, Sound

\* What holds of the next state when the chunks of a document are edited.
LEMMA EditKeeps ==
  ASSUME Warned, TextPreserved, given' = given, warned' = warned,
         Sound(children'), Linked(parents', children'),
         Written(children') = Written(children), Media(children') = Media(children)
  PROVE  Chunks' /\ TextPreserved' /\ Warned'
<1>1. \A c : Formed(c) => Formed(c)'
  BY DEF Formed, Sourced
<1>2. Chunks'
  BY <1>1 DEF Chunks, Sound
<1>3. TextPreserved'
  BY DEF TextPreserved
<1>4. Warned'
  BY DEF Warned
<1> QED BY <1>2, <1>3, <1>4

\* Neighbours x and y among the chunks.
Beside(x, y) ==
    /\ x \in ToSet(children) /\ y \in ToSet(children)
    /\ x \in Chunk /\ y \in Chunk /\ Formed(x) /\ Formed(y)
    /\ Around(Chunk, children, <<x, y>>)

\* The siblings in the place k.
LEMMA SiblingsBeside ==
  ASSUME Chunks, NEW p \in Nat, NEW k \in 1..Len(Of(p, children)), k < Len(Of(p, children)),
         NEW x, NEW y, x = Of(p, children)[k], y = Of(p, children)[k + 1]
  PROVE  Beside(x, y) /\ x.parent = p /\ y.parent = p
<1>1. children \in Seq(Chunk) /\ InOrder(children) /\ \A c \in ToSet(children) : Formed(c)
  BY DEF Chunks
<1>2. Around(Chunk, children, <<x, y>>)
  BY <1>1, Neighbours
<1> DEFINE s == Of(p, children)
<1>3. s \in Seq(Chunk) /\ ToSet(s) = {c \in ToSet(children) : c.parent = p}
  BY <1>1, OfConcat, OfElements
<1>4. x = s[k] /\ y = s[k + 1] /\ k \in 1..Len(s) /\ k < Len(s)
  OBVIOUS
<1> HIDE DEF s
<1>5. x \in ToSet(s) /\ y \in ToSet(s) /\ x \in Chunk /\ y \in Chunk
  BY <1>3, <1>4 DEF ToSet
<1>6. x \in ToSet(children) /\ y \in ToSet(children) /\ x.parent = p /\ y.parent = p
  BY <1>3, <1>5
<1> QED BY <1>1, <1>2, <1>5, <1>6 DEF Beside

\* The chunks in two places of the list, one after the other.
LEMMA ChildrenBeside ==
  ASSUME Chunks, NEW k \in 1..Len(children), k < Len(children),
         NEW x, NEW y, x = children[k], y = children[k + 1]
  PROVE  Beside(x, y)
<1>1. children \in Seq(Chunk) /\ InOrder(children) /\ \A c \in ToSet(children) : Formed(c)
  BY DEF Chunks
<1>2. children \in Seq(Chunk)
  BY <1>1
<1>3. Around(Chunk, children, <<x, y>>)
  <2>1. \E a \in Seq(Chunk), c \in Seq(Chunk) :
           children = (a \o <<children[k], children[k + 1]>>) \o c /\ Len(a) = k - 1
    BY <1>2, AroundTwo
  <2> QED BY <2>1 DEF Around, Glued
<1>4. x \in ToSet(children) /\ y \in ToSet(children) /\ x \in Chunk /\ y \in Chunk
  BY <1>1 DEF ToSet
<1> QED BY <1>1, <1>3, <1>4 DEF Beside
\* The chunk v, which is y but for its text, goes into u, which is x but for its text.
TakesPair(x, y, u, v, gap) ==
    /\ Beside(x, y) /\ ~Protected(x) /\ ~Protected(y)
    /\ Retouched(x, u) /\ Retouched(y, v) /\ gap \in BOOLEAN
    /\ Own(u.text) \o Own(v.text) = Own(x.text) \o Own(y.text)
    /\ children' = With(Without(children, v), Absorb(u, v, gap))
    /\ Unlisting(parents, parents', x, y)

\* Then the invariant's parts about chunks hold in the next state.
LEMMA TakeEdits ==
  ASSUME Chunks, Warned, TextPreserved, NEW x, NEW y, NEW u, NEW v, NEW gap,
         TakesPair(x, y, u, v, gap), given' = given, warned' = warned
  PROVE  /\ Changed(children, children', x, y) /\ Len(children') = Len(children) - 1
         /\ Chunks' /\ TextPreserved' /\ Warned'
<1>1. Sound(children) /\ Linked(parents, children)
  BY ChunksAreSound
<1>2. x \in Chunk /\ y \in Chunk
  BY DEF TakesPair, Beside
<1>3. PICK a \in Seq(Chunk), c \in Seq(Chunk) : Glued(children, a, <<x, y>>, c)
  BY DEF TakesPair, Beside, Around
<1>4. /\ Changed(children, children', x, y) /\ Linked(parents', children')
      /\ Len(children') = Len(children) - 1
  <2>1. Taking(children, parents, a, c, x, y, u, v, gap, children', parents')
    BY <1>1, <1>2, <1>3 DEF Taking, TakesPair
  <2> QED BY <2>1, TakePair
<1>5. Sound(children') /\ Written(children') = Written(children) /\ Media(children') = Media(children)
  BY <1>4 DEF Changed
<1>6. Chunks' /\ TextPreserved' /\ Warned'
  BY <1>4, <1>5, EditKeeps
<1> QED BY <1>4, <1>6

\* The texts of x and y change.
Retouches(x, y, u, v) ==
    /\ Beside(x, y) /\ ~Protected(y)
    /\ Retouched(x, u) /\ Retouched(y, v)
    /\ ~Protected(x) \/ u = x
    /\ Own(u.text) \o Own(v.text) = Own(x.text) \o Own(y.text)
    /\ \/ children' = With(With(children, u), v)
       \/ u = x /\ children' = With(children, v)

\* Then the invariant's parts about chunks hold in the next state.
LEMMA RetouchEdits ==
  ASSUME Chunks, Warned, TextPreserved, NEW x, NEW y, NEW u, NEW v,
         Retouches(x, y, u, v), parents' = parents, given' = given, warned' = warned
  PROVE  /\ Changed(children, children', x, y) /\ Len(children') = Len(children)
         /\ Chunks' /\ TextPreserved' /\ Warned'
<1>1. Sound(children) /\ Linked(parents, children)
  BY ChunksAreSound
<1>2. x \in Chunk /\ y \in Chunk
  BY DEF Retouches, Beside
<1>3. PICK a \in Seq(Chunk), c \in Seq(Chunk) : Glued(children, a, <<x, y>>, c)
  BY DEF Retouches, Beside, Around
<1>4. Apart(a, x, y, c)
  BY <1>1, <1>2, <1>3, PairApart
<1>5. u \in Chunk /\ u.id = x.id /\ v \in Chunk /\ v.id = y.id
  BY DEF Retouches, Retouched
<1>6. Glued(children', a, <<u, v>>, c)
  <2>0. (u = x /\ children' = With(children, v)) \/ children' = With(With(children, u), v)
    BY DEF Retouches
  <2>1. CASE u = x /\ children' = With(children, v)
    BY <1>3, <1>4, <1>5, <2>1, WithSecond
  <2>2. CASE children' = With(With(children, u), v)
    <3> DEFINE ds == With(children, u)
    <3>1. Glued(ds, a, <<u, y>>, c)
      BY <1>3, <1>4, <1>5, WithFirst
    <3>2. Formed(u) /\ Before(u, y)
      <4>1. Formed(x) /\ Retouched(x, u)
        BY <1>4 DEF Apart, Retouches
      <4>2. Formed(u)
        BY <4>1, FormedRetouched
      <4> QED BY <1>4, <4>1, <4>2 DEF Apart, Before, Retouched
    <3>3. Apart(a, u, y, c)
      BY <1>4, <1>5, <3>2 DEF Apart
    <3> HIDE DEF ds
    <3> QED BY <1>5, <2>2, <3>1, <3>3, WithSecond DEF ds
  <2> QED BY <2>0, <2>1, <2>2
<1>7. /\ Changed(children, children', x, y) /\ Linked(parents, children')
      /\ Len(children') = Len(children)
  <2>1. Retouching(children, parents, a, c, x, y, u, v, children')
    BY <1>1, <1>2, <1>3, <1>6 DEF Retouching, Retouches
  <2> QED BY <2>1, RetouchPair
<1>8. Sound(children') /\ Written(children') = Written(children) /\ Media(children') = Media(children)
  BY <1>7 DEF Changed
<1>9. Chunks' /\ TextPreserved' /\ Warned'
  BY <1>7, <1>8, EditKeeps
<1> QED BY <1>7, <1>9
\* A step that leaves the chunks alone.
LEMMA NothingEdited ==
  ASSUME Chunks, Warned, TextPreserved, UNCHANGED <<parents, children, warned, given>>
  PROVE  Chunks' /\ TextPreserved' /\ Warned'
BY ChunksAreSound, EditKeeps

\* The parents when the chunk v goes into u.
LEMMA TakeUnlists ==
  ASSUME Chunks, NEW x, NEW y, NEW u, NEW v, Retouched(x, u), Retouched(y, v), y \in Chunk,
         Take(u, v)
  PROVE  Unlisting(parents, parents', x, y)
<1>1. u.parent = x.parent /\ v.id = y.id /\ v.blocks = y.blocks
  BY DEF Retouched
<1>2. parents \in Seq(Family)
  BY DEF Chunks, Linked
<1> DEFINE q(i) == [parents[i] EXCEPT !.kids = Unlisted(@, v.id),
                                      !.blocks = IF parents[i].id = u.parent
                                                 THEN @ \cup v.blocks ELSE @]
<1>3. parents' = [i \in DOMAIN parents |-> q(i)]
  BY DEF Take
<1>4. ASSUME NEW i \in DOMAIN parents
      PROVE  /\ q(i) \in Family /\ q(i).id = parents[i].id
             /\ q(i).kids = Unlisted(parents[i].kids, y.id)
             /\ parents[i].blocks \subseteq q(i).blocks
             /\ parents[i].id = x.parent => y.blocks \subseteq q(i).blocks
  <2>1. parents[i] \in Family
    BY <1>2
  <2>2. Unlisted(parents[i].kids, v.id) \in Seq(Seq(Nat))
    <3>1. parents[i].kids \in Seq(Id)
      BY <2>1 DEF Family, Id
    <3>2. Unlisted(parents[i].kids, v.id) = Only(parents[i].kids, Id \ {v.id})
      BY <3>1, UnlistedIsOnly
    <3> QED BY <3>1, <3>2, OnlyType DEF Id
  <2>3. y.blocks \subseteq Nat
    BY DEF Chunk
  <2> QED BY <1>1, <2>1, <2>2, <2>3 DEF Family
<1> HIDE DEF q
<1>5. parents' \in Seq(Family) /\ Len(parents') = Len(parents)
  <2> DEFINE n == Len(parents)
  <2>1. n \in Nat /\ DOMAIN parents = 1..n
    BY <1>2
  <2>2. parents' = [i \in 1..n |-> q(i)] /\ \A i \in 1..n : q(i) \in Family
    BY <1>3, <1>4, <2>1
  <2> HIDE DEF n
  <2> QED BY <2>1, <2>2 DEF n
<1> QED BY <1>3, <1>4, <1>5 DEF Unlisting


(***************************************************************************)
(* The actions of boundary repair.                                          *)
(***************************************************************************)
\* What LoopsEnd says of a step.
Decreases ==
    \/ PassesLeft' < PassesLeft
    \/ PassesLeft' = PassesLeft /\ ParentsLeft' < ParentsLeft
    \/ /\ PassesLeft' = PassesLeft /\ ParentsLeft' = ParentsLeft
       /\ ChildrenLeft' < ChildrenLeft

\* An iteration that leaves fewer children to look at.
LEMMA ChildrenDecrease ==
  ASSUME pass' = pass, at'.parent = at.parent, Len(parents') = Len(parents),
         Len(children') - at'.child < Len(children) - at.child
  PROVE  Decreases
BY DEF Decreases, PassesLeft, ParentsLeft, ChildrenLeft

\* The loop goes on with the next parent.
LEMMA ParentsDecrease ==
  ASSUME pass' = pass, at'.parent = at.parent + 1, Len(parents') = Len(parents),
         at.parent \in Nat, Len(parents) \in Nat
  PROVE  Decreases
BY DEF Decreases, PassesLeft, ParentsLeft

\* The next pass starts.
LEMMA PassesDecrease ==
  ASSUME \/ pass = "repair" /\ pass' = "across"
         \/ pass = "across" /\ pass' = "merge"
         \/ pass = "merge" /\ pass' = "split"
         \/ pass = "split" /\ pass' = "store"
         \/ pass = "store" /\ pass' \in {"stored", "raised"}
  PROVE  Decreases
BY DEF Decreases, PassesLeft

\* The loop variables and the lengths of the lists are numbers.
LEMMA Numbers ==
  ASSUME Types, Chunks
  PROVE  at.child \in Nat /\ at.parent \in Nat /\ Len(children) \in Nat /\ Len(parents) \in Nat
BY DEF Types, Chunks, Linked

\* Until the splitting pass no chunk is a part of another.
LEMMA EarlyProgress ==
  ASSUME pass' \in {"repair", "across"}, \A c \in ToSet(children') : Len(c.id) = 1
  PROVE  Progress'
BY DEF Progress

\* The same, in this state.
LEMMA WholeIds ==
  ASSUME Progress, pass \in {"repair", "across", "merge"}
  PROVE  \A c \in ToSet(children) : Len(c.id) = 1
BY DEF Progress

\* Editing two neighbours keeps that.
LEMMA ChangedIds ==
  ASSUME NEW x, NEW y, Beside(x, y), Changed(children, children', x, y),
         \A c \in ToSet(children) : Len(c.id) = 1
  PROVE  \A c \in ToSet(children') : Len(c.id) = 1
<1>1. Len(x.id) = 1 /\ Len(y.id) = 1
  BY DEF Beside
<1>2. \A z \in ToSet(children') : z \in ToSet(children) \/ z.id = x.id \/ z.id = y.id
  BY DEF Changed
<1> QED BY <1>1, <1>2

\* The loop over the parents stays within its list.
LEMMA SiblingsBound ==
  ASSUME Types, Chunks, InParents
  PROVE  /\ at.parent \in 1..Len(parents) /\ parents[at.parent] \in ToSet(parents)
         /\ parents[at.parent].id \in Nat /\ Len(parents) \in Nat /\ Len(children) \in Nat
         /\ at.child \in Nat /\ at.child >= 1
         /\ Len(Siblings) \in Nat /\ Len(Siblings) <= Len(children)
<1>1. parents \in Seq(Family) /\ children \in Seq(Chunk)
  BY DEF Chunks, Linked
<1>2. at.parent \in 1..Len(parents) /\ at.child \in Nat /\ at.child >= 1
  BY <1>1 DEF Types, InParents
<1>3. parents[at.parent] \in Family /\ parents[at.parent] \in ToSet(parents)
  BY <1>1, <1>2 DEF ToSet
<1>4. parents[at.parent].id \in Nat /\ Len(parents) \in Nat /\ Len(children) \in Nat
  BY <1>1, <1>3 DEF Family
<1>5. Siblings \in Seq(Chunk) /\ Len(Siblings) <= Len(children)
  BY <1>1, OfConcat, OfElements DEF Siblings
<1>6. Len(Siblings) \in Nat
  BY <1>5
<1> QED BY <1>2, <1>3, <1>4, <1>5, <1>6

\* Boundary repair looks at two neighbours of one parent.
LEMMA RepairPair ==
  ASSUME Types, Chunks, InRepair, NEW x, NEW y,
         x = Siblings[at.child], y = Siblings[at.child + 1]
  PROVE  Beside(x, y) /\ x.parent = y.parent /\ at.child + 1 <= Len(children)
<1>1. InParents /\ at.child < Len(Siblings)
  BY DEF InRepair
<1>2. /\ parents[at.parent].id \in Nat /\ Len(children) \in Nat
      /\ at.child \in Nat /\ at.child >= 1
      /\ Len(Siblings) \in Nat /\ Len(Siblings) <= Len(children)
  BY <1>1, SiblingsBound
<1> DEFINE p == parents[at.parent].id
<1>3. /\ p \in Nat /\ at.child \in 1..Len(Of(p, children)) /\ at.child < Len(Of(p, children))
      /\ x = Of(p, children)[at.child] /\ y = Of(p, children)[at.child + 1]
  BY <1>1, <1>2 DEF Siblings
<1> HIDE DEF p
<1>4. Beside(x, y) /\ x.parent = p /\ y.parent = p
  BY <1>3, SiblingsBeside
<1> QED BY <1>1, <1>2, <1>4

\* repair_text_boundaries, two chunks that are left alone.
LEMMA LeavePairKeeps == ASSUME Passing, LeavePair PROVE Passing' /\ Decreases
<1>1. Types /\ Chunks /\ Progress /\ Warned /\ TextPreserved
  BY DEF Passing
<1>2. /\ InRepair /\ pass = "repair" /\ at' = [at EXCEPT !.child = @ + 1]
      /\ UNCHANGED <<parents, children, pass, warned, given>>
  BY DEF LeavePair, Advance, InRepair
<1>3. at.child + 1 <= Len(children)
  BY <1>1, <1>2, RepairPair
<1>4. Types'
  <2>1. Len(children) \in Nat
    BY <1>1 DEF Chunks
  <2> QED BY <1>1, <1>2, <1>3, <2>1 DEF Types
<1>5. Chunks' /\ TextPreserved' /\ Warned'
  BY <1>1, <1>2, NothingEdited
<1>6. Progress'
  BY <1>1, <1>2, WholeIds, EarlyProgress
<1>7. Decreases
  BY <1>1, <1>2, Numbers, ChildrenDecrease
<1> QED BY <1>4, <1>5, <1>6, <1>7 DEF Passing

\* repair_text_boundaries, the next parent.
LEMMA LeaveParentKeeps == ASSUME Passing, LeaveParent PROVE Passing' /\ Decreases
<1>1. Types /\ Chunks /\ Progress /\ Warned /\ TextPreserved
  BY DEF Passing
<1>2. /\ InParents /\ pass = "repair" /\ at' = [parent |-> at.parent + 1, child |-> 1]
      /\ UNCHANGED <<parents, children, pass, warned, given>>
  BY DEF LeaveParent, NextParent
<1>3. Types'
  <2>1. Len(children) \in Nat /\ Len(parents) \in Nat
    BY <1>1 DEF Chunks, Linked
  <2> QED BY <1>1, <1>2, <2>1 DEF Types, InParents
<1>4. Chunks' /\ TextPreserved' /\ Warned'
  BY <1>1, <1>2, NothingEdited
<1>5. Progress'
  BY <1>1, <1>2, WholeIds, EarlyProgress
<1>6. Decreases
  BY <1>1, <1>2, Numbers, ParentsDecrease
<1> QED BY <1>3, <1>4, <1>5, <1>6 DEF Passing

\* The end of boundary repair within parents.
LEMMA EndRepairKeeps == ASSUME Passing, EndRepair PROVE Passing' /\ Decreases
<1>1. Types /\ Chunks /\ Progress /\ Warned /\ TextPreserved
  BY DEF Passing
<1>2. /\ pass = "repair" /\ pass' = "across" /\ at' = [parent |-> 1, child |-> 1]
      /\ UNCHANGED <<parents, children, warned, given>>
  BY DEF EndRepair, Enter
<1>3. Types'
  <2>1. Len(children) \in Nat /\ Len(parents) \in Nat
    BY <1>1 DEF Chunks, Linked
  <2> QED BY <1>1, <1>2, <2>1 DEF Types, Pass
<1>4. Chunks' /\ TextPreserved' /\ Warned'
  BY <1>1, <1>2, NothingEdited
<1>5. Progress'
  BY <1>1, <1>2, WholeIds, EarlyProgress
<1>6. Decreases
  BY <1>2, PassesDecrease
<1> QED BY <1>3, <1>4, <1>5, <1>6 DEF Passing

\* Boundary repair takes a chunk out of its list, and looks at the place again.
TakesHere(x, y, u, v) ==
    /\ Beside(x, y) /\ ~Protected(x) /\ ~Protected(y)
    /\ Retouched(x, u) /\ Retouched(y, v)
    /\ Own(u.text) \o Own(v.text) = Own(x.text) \o Own(y.text)
    /\ Take(u, v)

\* Then the invariant holds in the next state, and less is left to do.
LEMMA TakeKeeps ==
  ASSUME Passing, pass \in {"repair", "across"}, NEW x, NEW y, NEW u, NEW v,
         TakesHere(x, y, u, v), at.child < Len(children),
         UNCHANGED <<pass, at, warned, given>>
  PROVE  Passing' /\ Decreases
<1>1. Types /\ Chunks /\ Progress /\ Warned /\ TextPreserved
  BY DEF Passing
<1>2. Unlisting(parents, parents', x, y)
  <2>1. Retouched(x, u) /\ Retouched(y, v) /\ y \in Chunk /\ Take(u, v)
    BY DEF TakesHere, Beside
  <2> QED BY <1>1, <2>1, TakeUnlists
<1>3. TakesPair(x, y, u, v, FALSE)
  BY <1>2 DEF TakesHere, TakesPair, Take
<1>4. /\ Changed(children, children', x, y) /\ Len(children') = Len(children) - 1
      /\ Chunks' /\ TextPreserved' /\ Warned'
  BY <1>1, <1>3, TakeEdits
<1>5. Progress'
  <2>1. Beside(x, y)
    BY DEF TakesHere
  <2>2. \A c \in ToSet(children) : Len(c.id) = 1
    BY <1>1, WholeIds
  <2>3. \A c \in ToSet(children') : Len(c.id) = 1
    BY <1>4, <2>1, <2>2, ChangedIds
  <2> QED BY <2>3, EarlyProgress
<1>6. Types'
  <2>1. Len(parents') = Len(parents) /\ Len(children) \in Nat
    BY <1>1, <1>2 DEF Unlisting, Chunks
  <2> QED BY <1>1, <1>4, <2>1 DEF Types
<1>7. Decreases
  <2>1. Len(parents') = Len(parents)
    BY <1>2 DEF Unlisting
  <2>2. Len(children') - at'.child < Len(children) - at.child
    BY <1>1, <1>4, Numbers
  <2> QED BY <2>1, <2>2, ChildrenDecrease
<1> QED BY <1>4, <1>5, <1>6, <1>7 DEF Passing

\* repair_text_boundaries, two chunks that are joined.
LEMMA JoinPairKeeps == ASSUME Passing, JoinPair PROVE Passing' /\ Decreases
<1> DEFINE x == Siblings[at.child]
           y == Siblings[at.child + 1]
<1>1. Types /\ Chunks
  BY DEF Passing
<1>2. InRepair /\ Broken(x, y) /\ Take(x, y) /\ UNCHANGED <<pass, at, warned, given>>
  BY DEF JoinPair
<1> HIDE DEF x, y
<1>3. Beside(x, y) /\ at.child + 1 <= Len(children)
  BY <1>1, <1>2, RepairPair DEF x, y
<1>4. at.child < Len(children)
  <2>1. at.child \in Nat /\ Len(children) \in Nat
    BY <1>1 DEF Types, Chunks
  <2> QED BY <1>3, <2>1
<1>5. x \in Chunk /\ y \in Chunk /\ ~Protected(x) /\ ~Protected(y)
  BY <1>2, <1>3 DEF Beside, Broken
<1>6. TakesHere(x, y, x, y)
  BY <1>2, <1>3, <1>5, RetouchedSelf DEF TakesHere
<1>7. pass \in {"repair", "across"}
  BY <1>2 DEF InRepair
<1> QED BY <1>2, <1>4, <1>6, <1>7, TakeKeeps

\* repair_text_boundaries, punctuation that moves back; a chunk that was nothing else goes.
LEMMA MovePunctKeeps == ASSUME Passing, MovePunct PROVE Passing' /\ Decreases
<1> DEFINE x == Siblings[at.child]
           y == Siblings[at.child + 1]
           u == [x EXCEPT !.text = Append(@, [Head(y.text) EXCEPT !.gap = FALSE])]
           v == [y EXCEPT !.text = Tail(@)]
<1>1. Types /\ Chunks /\ Progress /\ Warned /\ TextPreserved
  BY DEF Passing
<1>2. /\ InRepair /\ Broken(x, y) /\ OrphanPunct(x, y)
      /\ \/ Take(u, v) /\ UNCHANGED at
         \/ children' = With(With(children, u), v) /\ Advance /\ UNCHANGED parents
      /\ UNCHANGED <<pass, warned, given>>
  BY DEF MovePunct
<1> HIDE DEF x, y
<1>3. Beside(x, y) /\ at.child + 1 <= Len(children)
  BY <1>1, <1>2, RepairPair DEF x, y
<1>4. at.child < Len(children) /\ Len(children) \in Nat
  <2>1. at.child \in Nat /\ Len(children) \in Nat
    BY <1>1 DEF Types, Chunks
  <2> QED BY <1>3, <2>1
<1>5. x \in Chunk /\ y \in Chunk /\ Formed(y) /\ ~Protected(x) /\ ~Protected(y)
  BY <1>2, <1>3 DEF Beside, Broken
<1>6. y.text # <<>> /\ Head(y.text).starts = "punct"
  BY <1>2 DEF OrphanPunct
<1>7. x.text \in Text /\ y.text \in Text
  BY <1>5 DEF Chunk, Text
<1>8. Head(y.text).role # "body"
  <2>1. Head(y.text) \in ToSet(y.text)
    BY <1>6, <1>7 DEF ToSet, Text
  <2> QED BY <1>5, <1>6, <2>1 DEF Formed, Sourced
<1> DEFINE to == Append(x.text, [Head(y.text) EXCEPT !.gap = FALSE])
<1>9. /\ to \in Text /\ Tail(y.text) \in Text
      /\ Own(x.text) \o Own(y.text) = Own(to) \o Own(Tail(y.text))
      /\ Within(to, x.text) /\ Within(Tail(y.text), y.text)
  BY <1>6, <1>7, <1>8, MovedText
<1>10. u = [x EXCEPT !.text = to] /\ v = [y EXCEPT !.text = Tail(y.text)]
  OBVIOUS
<1> HIDE DEF u, v, to
<1>11. Retouched(x, u) /\ u.text = to
  BY <1>5, <1>9, <1>10, TextReplaced
<1>12. Retouched(y, v) /\ v.text = Tail(y.text)
  BY <1>5, <1>9, <1>10, TextReplaced
<1>13. Own(u.text) \o Own(v.text) = Own(x.text) \o Own(y.text)
  BY <1>9, <1>11, <1>12
<1>14. pass \in {"repair", "across"}
  BY <1>2 DEF InRepair
<1>15. CASE Take(u, v) /\ UNCHANGED at
  <2>1. TakesHere(x, y, u, v)
    BY <1>3, <1>5, <1>11, <1>12, <1>13, <1>15 DEF TakesHere
  <2> QED BY <1>2, <1>4, <1>14, <1>15, <2>1, TakeKeeps
<1>16. CASE children' = With(With(children, u), v) /\ Advance /\ UNCHANGED parents
  <2>1. Retouches(x, y, u, v)
    BY <1>3, <1>5, <1>11, <1>12, <1>13, <1>16 DEF Retouches
  <2>2. /\ Changed(children, children', x, y) /\ Len(children') = Len(children)
        /\ Chunks' /\ TextPreserved' /\ Warned'
    BY <1>1, <1>2, <1>16, <2>1, RetouchEdits
  <2>3. Progress'
    <3>1. \A c \in ToSet(children) : Len(c.id) = 1
      BY <1>1, <1>14, WholeIds
    <3>2. \A c \in ToSet(children') : Len(c.id) = 1
      BY <1>3, <2>2, <3>1, ChangedIds
    <3> QED BY <1>2, <1>14, <3>2, EarlyProgress
  <2>4. Types'
    BY <1>1, <1>2, <1>3, <1>4, <1>16, <2>2 DEF Types, Advance
  <2>5. Decreases
    <3>1. at'.parent = at.parent /\ at'.child = at.child + 1
      BY <1>1, <1>16 DEF Advance, Types
    <3>2. Len(children') - at'.child < Len(children) - at.child
      BY <1>1, <2>2, <3>1, Numbers
    <3> QED BY <1>2, <1>16, <3>1, <3>2, ChildrenDecrease
  <2> QED BY <2>2, <2>3, <2>4, <2>5 DEF Passing
<1> QED BY <1>2, <1>15, <1>16


(***************************************************************************)
(* The actions of the repair across parents.                                *)
(***************************************************************************)
LEMMA AcrossPair ==
  ASSUME Types, Chunks, InAcross, NEW x, NEW y, x = children[at.child], y = children[at.child + 1]
  PROVE  Beside(x, y) /\ at.child + 1 <= Len(children) /\ Len(children) \in Nat
<1>1. /\ at.child < Len(children) /\ at.child \in Nat /\ at.child >= 1
      /\ Len(children) \in Nat
  BY DEF InAcross, Types, Chunks
<1>2. at.child \in 1..Len(children)
  BY <1>1
<1>3. Beside(x, y)
  BY <1>1, <1>2, ChildrenBeside
<1> QED BY <1>1, <1>3

\* A chunk without its running headers has its own words.
LEMMA StrippedChunk ==
  ASSUME NEW y \in Chunk
  PROVE  Retouched(y, Stripped(y)) /\ Own(Stripped(y).text) = Own(y.text)
<1> DEFINE t == StripHeaders(y.text)
           v == Stripped(y)
<1>1. t \in Text /\ Own(t) = Own(y.text) /\ Within(t, y.text)
  BY StrippedText DEF Chunk, Text
<1>2. v = [y EXCEPT !.text = t]
  BY DEF Stripped
<1> HIDE DEF t, v
<1>3. Retouched(y, v) /\ v.text = t
  BY <1>1, <1>2, TextReplaced
<1> QED BY <1>1, <1>3 DEF v

\* Repair across parents, two chunks that are left apart.
LEMMA LeaveAcrossKeeps == ASSUME Passing, LeaveAcross PROVE Passing' /\ Decreases
<1> DEFINE x == children[at.child]
           y == children[at.child + 1]
           v == Stripped(y)
<1>1. Types /\ Chunks /\ Progress /\ Warned /\ TextPreserved
  BY DEF Passing
<1>2. /\ InAcross /\ Advance
      /\ children' = IF Candidate(x, y) /\ NextPage(x, y) THEN With(children, v) ELSE children
      /\ UNCHANGED <<parents, pass, warned, given>>
  BY DEF LeaveAcross
<1> HIDE DEF x, y, v
<1>3. Beside(x, y) /\ at.child + 1 <= Len(children) /\ Len(children) \in Nat
  BY <1>1, <1>2, AcrossPair DEF x, y
<1>4. pass \in {"repair", "across"}
  BY <1>2 DEF InAcross
<1>5. \A c \in ToSet(children) : Len(c.id) = 1
  BY <1>1, <1>4, WholeIds
<1>6. ASSUME Len(children') = Len(children) PROVE Decreases
  <2>1. at'.parent = at.parent /\ at'.child = at.child + 1
    BY <1>1, <1>2 DEF Advance, Types
  <2>2. Len(children') - at'.child < Len(children) - at.child
    BY <1>1, <1>6, <2>1, Numbers
  <2> QED BY <1>2, <2>1, <2>2, ChildrenDecrease
<1>7. CASE children' = children
  <2>1. Chunks' /\ TextPreserved' /\ Warned'
    BY <1>1, <1>2, <1>7, NothingEdited
  <2>2. Progress'
    BY <1>2, <1>4, <1>5, <1>7, EarlyProgress
  <2>3. Types'
    BY <1>1, <1>2, <1>3, <1>7 DEF Types, Advance
  <2> QED BY <1>6, <1>7, <2>1, <2>2, <2>3 DEF Passing
<1>8. CASE Candidate(x, y) /\ children' = With(children, v)
  <2>1. x \in Chunk /\ y \in Chunk /\ ~Protected(y)
    BY <1>3, <1>8 DEF Beside, Candidate, Broken
  <2>2. Retouched(y, v) /\ Own(v.text) = Own(y.text)
    BY <2>1, StrippedChunk DEF v
  <2>3. Retouches(x, y, x, v)
    BY <1>3, <1>8, <2>1, <2>2, RetouchedSelf DEF Retouches
  <2>4. /\ Changed(children, children', x, y) /\ Len(children') = Len(children)
        /\ Chunks' /\ TextPreserved' /\ Warned'
    BY <1>1, <1>2, <2>3, RetouchEdits
  <2>5. \A c \in ToSet(children') : Len(c.id) = 1
    BY <1>3, <1>5, <2>4, ChangedIds
  <2>6. Progress'
    BY <1>2, <1>4, <2>5, EarlyProgress
  <2>7. Types'
    BY <1>1, <1>2, <1>3, <2>4 DEF Types, Advance
  <2> QED BY <1>6, <2>4, <2>6, <2>7 DEF Passing
<1> QED BY <1>2, <1>7, <1>8

\* _safe_cross_parent_merge: two chunks of two parents that are joined.
LEMMA JoinAcrossKeeps == ASSUME Passing, JoinAcross PROVE Passing' /\ Decreases
<1> DEFINE x == children[at.child]
           y == children[at.child + 1]
           v == Stripped(y)
<1>1. Types /\ Chunks
  BY DEF Passing
<1>2. InAcross /\ Candidate(x, y) /\ Take(x, v) /\ UNCHANGED <<pass, at, warned, given>>
  BY DEF JoinAcross
<1> HIDE DEF x, y, v
<1>3. Beside(x, y)
  BY <1>1, <1>2, AcrossPair DEF x, y
<1>4. pass \in {"repair", "across"} /\ at.child < Len(children)
  BY <1>2 DEF InAcross
<1>5. x \in Chunk /\ y \in Chunk /\ ~Protected(x) /\ ~Protected(y)
  BY <1>2, <1>3 DEF Beside, Candidate, Broken
<1>6. Retouched(y, v) /\ Own(v.text) = Own(y.text) /\ Retouched(x, x)
  BY <1>5, StrippedChunk, RetouchedSelf DEF v
<1>7. TakesHere(x, y, x, v)
  BY <1>2, <1>3, <1>5, <1>6 DEF TakesHere
<1> QED BY <1>2, <1>4, <1>7, TakeKeeps

\* The end of the repair across parents; parents without children may go.
LEMMA EndAcrossKeeps == ASSUME Passing, EndAcross PROVE Passing' /\ Decreases
<1>1. Types /\ Chunks /\ Progress /\ Warned /\ TextPreserved
  BY DEF Passing
<1>2. /\ pass = "across" /\ pass' = "merge" /\ at' = [parent |-> 1, child |-> 1]
      /\ \/ parents' = At(parents, {q \in DOMAIN parents : parents[q].kids # <<>>})
         \/ parents' = parents
      /\ UNCHANGED <<children, warned, given>>
  BY DEF EndAcross, Enter
<1>3. Linked(parents, children) /\ Sound(children)
  BY <1>1, ChunksAreSound
<1>4. Linked(parents', children')
  BY <1>2, <1>3, LinkedKept DEF Sound
<1>5. Chunks' /\ TextPreserved' /\ Warned'
  BY <1>1, <1>2, <1>3, <1>4, EditKeeps
<1>6. Types'
  <2>1. Len(children') \in Nat /\ Len(parents') \in Nat
    BY <1>2, <1>3, <1>4 DEF Sound, Linked
  <2> QED BY <1>1, <1>2, <2>1 DEF Types, Pass
<1>7. Progress'
  <2>1. \A c \in ToSet(children') : Len(c.id) = 1
    BY <1>1, <1>2, WholeIds
  <2>2. ~\E i \in DOMAIN parents' : i < 1
    BY <1>4 DEF Linked
  <2> QED BY <1>2, <2>1, <2>2 DEF Progress
<1>8. Decreases
  BY <1>2, PassesDecrease
<1> QED BY <1>5, <1>6, <1>7, <1>8 DEF Passing


(***************************************************************************)
(* The actions of the merging of small chunks.                              *)
(***************************************************************************)
LEMMA MinIn ==
  ASSUME NEW S, S \subseteq Nat, S # {}
  PROVE  Min(S) \in S
<1>1. PICK m \in S : \A n \in S : m <= n
  BY LeastElement
<1>2. m \in S /\ \A n \in S : m <= n
  BY <1>1
<1> QED BY <1>2 DEF Min

\* No two chunks share an id.
LEMMA SameIdSame ==
  ASSUME Chunks, NEW c \in ToSet(children), NEW d \in ToSet(children), c.id = d.id
  PROVE  c = d
<1>1. Sound(children)
  BY ChunksAreSound
<1>2. \A x \in ToSet(children) : Sized(x)
  BY <1>1, FormedIsSized DEF Sound
<1>3. IsInjective(Ids(children))
  BY <1>1, <1>2, DistinctIds DEF Sound
<1>4. PICK i \in DOMAIN children, j \in DOMAIN children : c = children[i] /\ d = children[j]
  BY DEF ToSet
<1> QED BY <1>3, <1>4 DEF IsInjective, Ids

\* Only the parent of y lists it.
LEMMA OthersDoNotList ==
  ASSUME Chunks, NEW i \in DOMAIN parents, NEW y \in ToSet(children), parents[i].id # y.parent
  PROVE  Unlisted(parents[i].kids, y.id) = parents[i].kids
<1> DEFINE p == parents[i].id
           kids == parents[i].kids
<1>1. children \in Seq(Chunk) /\ Linked(parents, children) /\ parents[i] \in ToSet(parents)
  BY DEF Chunks, ToSet
<1>2. kids = Kids(p, children)
  BY <1>1 DEF Linked, Kids
<1>3. ToSet(kids) = {c.id : c \in {d \in ToSet(children) : d.parent = p}}
  BY <1>1, <1>2, KidsElements
<1>4. y.id \notin ToSet(kids)
  <2>1. ASSUME NEW d \in ToSet(children), d.parent = p, d.id = y.id PROVE FALSE
    BY <2>1, SameIdSame
  <2> HIDE DEF p, kids
  <2> QED BY <1>3, <2>1
<1>5. kids \in Seq(Id)
  <2>1. parents[i] \in Family
    BY <1>1 DEF Linked
  <2> QED BY <2>1 DEF Family, Id
<1> HIDE DEF kids
<1>6. Unlisted(kids, y.id) = kids
  BY <1>4, <1>5, UnlistedNone
<1> QED BY <1>6 DEF kids

\* The parents when siblings are merged: only theirs changes.
LEMMA MergeUnlists ==
  ASSUME Chunks, NEW k \in 1..Len(parents), NEW x \in Chunk, NEW y \in ToSet(children),
         x.parent = parents[k].id, y.parent = parents[k].id,
         parents' = [parents EXCEPT ![k].kids = Unlisted(@, y.id)]
  PROVE  Unlisting(parents, parents', x, y)
<1>1. parents \in Seq(Family) /\ Linked(parents, children)
  BY DEF Chunks, Linked
<1>2. k \in DOMAIN parents /\ parents[k] \in Family
  BY <1>1
<1> DEFINE f == [parents[k] EXCEPT !.kids = Unlisted(@, y.id)]
<1>3. f \in Family
  <2>1. parents[k].kids \in Seq(Id)
    BY <1>2 DEF Family, Id
  <2>2. Unlisted(parents[k].kids, y.id) = Only(parents[k].kids, Id \ {y.id})
    BY <2>1, UnlistedIsOnly
  <2>3. Unlisted(parents[k].kids, y.id) \in Seq(Seq(Nat))
    BY <2>1, <2>2, OnlyType DEF Id
  <2> QED BY <1>2, <2>3 DEF Family
<1>4. f.id = parents[k].id /\ f.kids = Unlisted(parents[k].kids, y.id) /\ f.blocks = parents[k].blocks
  BY <1>2 DEF Family
<1>5. parents' = [parents EXCEPT ![k] = f]
  OBVIOUS
<1> HIDE DEF f
<1>6. parents' \in Seq(Family) /\ Len(parents') = Len(parents) /\ DOMAIN parents' = DOMAIN parents
  BY <1>1, <1>2, <1>3, <1>5
<1>7. y.blocks \subseteq parents[k].blocks
  BY <1>1, <1>2 DEF Linked, ToSet
<1>8. ASSUME NEW i \in DOMAIN parents
      PROVE  /\ parents'[i].id = parents[i].id
             /\ parents'[i].kids = Unlisted(parents[i].kids, y.id)
             /\ parents'[i].blocks = parents[i].blocks
             /\ parents[i].id = x.parent => y.blocks \subseteq parents[i].blocks
  <2>1. CASE i = k
    BY <1>2, <1>4, <1>5, <1>7, <2>1
  <2>2. CASE i # k
    <3>1. parents[i].id # y.parent
      BY <1>1, <1>2, <2>2 DEF Linked
    <3>2. Unlisted(parents[i].kids, y.id) = parents[i].kids
      BY <3>1, OthersDoNotList
    <3> QED BY <1>5, <2>2, <3>1, <3>2
  <2> QED BY <2>1, <2>2
<1> QED BY <1>6, <1>8 DEF Unlisting

\* The two chunks that are merged are neighbours, and no media.
LEMMA MergePair ==
  ASSUME Types, Chunks, pass = "merge", InParents, NEW k, k \in Mergeable(Siblings),
         NEW x, NEW y,
         x = IF TakesNext(Siblings, k) THEN Siblings[k] ELSE Siblings[k - 1],
         y = IF TakesNext(Siblings, k) THEN Siblings[k + 1] ELSE Siblings[k]
  PROVE  /\ Beside(x, y) /\ ~Protected(x) /\ ~Protected(y)
         /\ x.parent = parents[at.parent].id /\ y.parent = parents[at.parent].id
<1> DEFINE p == parents[at.parent].id
           cs == Of(p, children)
<1>1. p \in Nat
  BY SiblingsBound
<1>2. cs \in Seq(Chunk) /\ cs = Siblings
  BY OfConcat DEF Chunks, Siblings
<1>3. k \in DOMAIN cs /\ Small(cs[k]) /\ (TakesNext(cs, k) \/ JoinsPrevious(cs, k))
  BY <1>2 DEF Mergeable
<1>4. k \in 1..Len(cs) /\ Len(cs) \in Nat
  BY <1>2, <1>3
<1>5. CASE TakesNext(cs, k)
  <2>1. x = cs[k] /\ y = cs[k + 1]
    BY <1>2, <1>5
  <2>2. k < Len(cs) /\ ~Protected(x) /\ ~Protected(y)
    BY <1>3, <1>5, <2>1 DEF TakesNext, Small
  <2>3. Beside(x, y) /\ x.parent = p /\ y.parent = p
    <3> HIDE DEF p
    <3> QED BY <1>1, <1>4, <2>1, <2>2, SiblingsBeside
  <2> QED BY <2>2, <2>3
<1>6. CASE ~TakesNext(cs, k)
  <2> DEFINE j == k - 1
  <2>1. JoinsPrevious(cs, k) /\ x = cs[j] /\ y = cs[k]
    BY <1>2, <1>3, <1>6
  <2>2. k > 1 /\ ~Protected(x) /\ ~Protected(y)
    BY <1>3, <2>1 DEF JoinsPrevious, Small
  <2>3. j \in 1..Len(cs) /\ j < Len(cs) /\ j + 1 = k
    BY <1>4, <2>2
  <2>4. y = cs[j + 1]
    BY <2>1, <2>3
  <2>5. Beside(x, y) /\ x.parent = p /\ y.parent = p
    <3> HIDE DEF p, j
    <3> QED BY <1>1, <2>1, <2>3, <2>4, SiblingsBeside
  <2> QED BY <2>2, <2>5
<1> QED BY <1>5, <1>6

\* merge_small_chunks, one merge; earlier parents stay settled.
LEMMA MergeSmallKeeps == ASSUME Passing, MergeSmall PROVE Passing' /\ Decreases
<1> DEFINE k == Min(Mergeable(Siblings))
           x == IF TakesNext(Siblings, k) THEN Siblings[k] ELSE Siblings[k - 1]
           y == IF TakesNext(Siblings, k) THEN Siblings[k + 1] ELSE Siblings[k]
           n == at.parent
<1>1. Types /\ Chunks /\ Progress /\ Warned /\ TextPreserved
  BY DEF Passing
<1>2. /\ pass = "merge" /\ InParents /\ Mergeable(Siblings) # {}
      /\ children' = With(Without(children, y), Absorb(x, y, TRUE))
      /\ parents' = [parents EXCEPT ![n].kids = Unlisted(@, y.id)]
      /\ UNCHANGED <<pass, at, warned, given>>
  BY DEF MergeSmall
<1>3. k \in Mergeable(Siblings)
  <2>1. Siblings \in Seq(Chunk)
    BY <1>1, OfConcat DEF Chunks, Siblings
  <2>2. Mergeable(Siblings) \subseteq Nat
    BY <2>1 DEF Mergeable
  <2> QED BY <1>2, <2>2, MinIn
<1> HIDE DEF k
<1>4. /\ Beside(x, y) /\ ~Protected(x) /\ ~Protected(y)
      /\ x.parent = parents[n].id /\ y.parent = parents[n].id
  BY <1>1, <1>2, <1>3, MergePair
<1> HIDE DEF x, y
<1>5. n \in 1..Len(parents) /\ Len(parents) \in Nat
  BY <1>1, <1>2, SiblingsBound
<1>6. x \in Chunk /\ y \in Chunk /\ y \in ToSet(children)
  BY <1>4 DEF Beside
<1>7. Unlisting(parents, parents', x, y)
  BY <1>1, <1>2, <1>4, <1>5, <1>6, MergeUnlists
<1>8. TakesPair(x, y, x, y, TRUE)
  BY <1>2, <1>4, <1>6, <1>7, RetouchedSelf DEF TakesPair
<1>9. /\ Changed(children, children', x, y) /\ Len(children') = Len(children) - 1
      /\ Chunks' /\ TextPreserved' /\ Warned'
  BY <1>1, <1>2, <1>8, TakeEdits
<1>10. Len(parents') = Len(parents) /\ \A i \in DOMAIN parents : parents'[i].id = parents[i].id
  BY <1>7 DEF Unlisting
<1>11. Types'
  <2>1. at.child = 1
    BY <1>1, <1>2 DEF Progress
  <2>2. Len(children') \in Nat
    BY <1>9 DEF Chunks
  <2>3. 1 <= Len(children') + 1
    BY <2>2
  <2>4. /\ given' \in Seq(Chunk) /\ pass' \in Pass /\ at' \in [parent : Nat \ {0}, child : Nat \ {0}]
        /\ at'.parent <= Len(parents') + 1
    BY <1>1, <1>2, <1>10 DEF Types
  <2> QED BY <1>2, <2>1, <2>3, <2>4 DEF Types
<1>12. Progress'
  <2>1. \A c \in ToSet(children') : Len(c.id) = 1
    BY <1>1, <1>2, <1>4, <1>9, WholeIds, ChangedIds
  <2>2. DOMAIN parents' = DOMAIN parents /\ DOMAIN parents = 1..Len(parents)
    BY <1>1, <1>9, <1>10 DEF Chunks, Linked
  <2>3. ASSUME NEW i \in DOMAIN parents, i < n
        PROVE  Mergeable(Of(parents'[i].id, children')) = {}
    <3>1. parents[i].id # parents[n].id
      BY <1>1, <1>5, <2>2, <2>3 DEF Chunks, Linked
    <3>2. Of(parents[i].id, children') = Of(parents[i].id, children)
      BY <1>4, <1>9, <3>1 DEF Changed
    <3>3. Settled(parents[i].id)
      BY <1>1, <1>2, <2>3 DEF Progress
    <3> QED BY <1>10, <3>2, <3>3 DEF Settled
  <2>4. at.child = 1
    BY <1>1, <1>2 DEF Progress
  <2> QED BY <1>2, <2>1, <2>2, <2>3, <2>4 DEF Progress, Settled
<1>13. Decreases
  <2>1. at' = at /\ Len(children') = Len(children) - 1
    BY <1>2, <1>9
  <2>2. Len(children') - at'.child < Len(children) - at.child
    BY <1>1, <2>1, Numbers
  <2> QED BY <1>2, <1>10, <2>2, ChildrenDecrease
<1> QED BY <1>9, <1>11, <1>12, <1>13 DEF Passing

\* Where nothing can be merged, a small chunk has nobody to merge with.
LEMMA SettledAlone ==
  ASSUME NEW cs \in Seq(Chunk), Mergeable(cs) = {}
  PROVE  Alone(cs)
<1>1. SUFFICES ASSUME NEW k \in DOMAIN cs, Small(cs[k]), NEW j \in {k - 1, k + 1} \cap DOMAIN cs
               PROVE  Protected(cs[j])
  BY DEF Alone
<1>2. ~TakesNext(cs, k) /\ ~JoinsPrevious(cs, k)
  BY <1>1 DEF Mergeable
<1>3. j = k - 1 \/ j = k + 1
  OBVIOUS
<1>4. k \in 1..Len(cs) /\ j \in 1..Len(cs) /\ Len(cs) \in Nat
  OBVIOUS
<1>5. CASE j = k + 1
  BY <1>2, <1>4, <1>5 DEF TakesNext
<1>6. CASE j = k - 1
  BY <1>2, <1>4, <1>6 DEF JoinsPrevious
<1> QED BY <1>3, <1>5, <1>6

\* merge_small_chunks, a parent is settled; after the last one the splitting starts.
LEMMA EndMergeKeeps == ASSUME Passing, EndMerge PROVE Passing' /\ Decreases
<1>1. Types /\ Chunks /\ Progress /\ Warned /\ TextPreserved
  BY DEF Passing
<1>2. pass = "merge" /\ UNCHANGED <<parents, children, warned, given>>
  BY DEF EndMerge
<1>3. Chunks' /\ TextPreserved' /\ Warned'
  BY <1>1, <1>2, NothingEdited
<1>4. /\ children \in Seq(Chunk) /\ parents \in Seq(Family)
      /\ Len(children) \in Nat /\ Len(parents) \in Nat /\ at.parent \in Nat
  BY <1>1 DEF Chunks, Linked, Types
<1>5. \A c \in ToSet(children) : Len(c.id) = 1
  BY <1>1, <1>2, WholeIds
<1>6. CASE InParents /\ Mergeable(Siblings) = {} /\ NextParent /\ UNCHANGED pass
  <2>1. Types'
    BY <1>1, <1>2, <1>4, <1>6 DEF Types, NextParent, InParents
  <2>2. \A i \in DOMAIN parents : i < at.parent + 1 => Settled(parents[i].id)
    <3>1. SUFFICES ASSUME NEW i \in DOMAIN parents, i < at.parent + 1 PROVE Settled(parents[i].id)
      OBVIOUS
    <3>2. CASE i = at.parent
      BY <1>6, <3>2 DEF Siblings, Settled
    <3>3. CASE i < at.parent
      BY <1>1, <1>2, <3>3 DEF Progress
    <3> QED BY <1>4, <3>1, <3>2, <3>3
  <2>3. Progress'
    BY <1>2, <1>5, <1>6, <2>2 DEF Progress, NextParent, Settled
  <2>4. Decreases
    BY <1>2, <1>4, <1>6, ParentsDecrease DEF NextParent
  <2> QED BY <1>3, <2>1, <2>3, <2>4 DEF Passing
<1>7. CASE ~InParents /\ Enter("split")
  <2>1. pass' = "split" /\ at' = [parent |-> 1, child |-> 1]
    BY <1>7 DEF Enter
  <2>2. Types'
    BY <1>1, <1>2, <1>4, <2>1 DEF Types, Pass
  <2>3. \A p \in ToSet(parents) : Alone(Of(p.id, children))
    <3>1. SUFFICES ASSUME NEW i \in DOMAIN parents PROVE Alone(Of(parents[i].id, children))
      BY DEF ToSet
    <3>2. i < at.parent
      BY <1>4, <1>7 DEF InParents
    <3>3. Mergeable(Of(parents[i].id, children)) = {}
      BY <1>1, <1>2, <3>2 DEF Progress, Settled
    <3>4. Of(parents[i].id, children) \in Seq(Chunk)
      BY <1>4, OfConcat
    <3> QED BY <3>3, <3>4, SettledAlone
  <2>4. \A k \in DOMAIN children : ~(k < 1) /\ Len(children[k].id) = 1
    BY <1>4, <1>5 DEF ToSet
  <2>5. Progress'
    BY <1>2, <2>1, <2>3, <2>4 DEF Progress
  <2>6. Decreases
    BY <1>2, <2>1, PassesDecrease
  <2> QED BY <1>3, <2>2, <2>5, <2>6 DEF Passing
<1> QED BY <1>6, <1>7 DEF EndMerge


(***************************************************************************)
(* The actions of the splitting pass, and the mapping to rows.              *)
(***************************************************************************)
LEMMA SpreadsChunk ==
  ASSUME Chunks, NEW c, NEW r, Ids(r) \in Seq(Id),
         parents' = [q \in DOMAIN parents |-> [parents[q] EXCEPT !.kids =
             FlattenSeq([k \in DOMAIN @ |-> IF @[k] = c.id THEN Ids(r) ELSE <<@[k]>>])]]
  PROVE  Spreading(parents, parents', c, r)
<1> DEFINE js == Ids(r)
           i == c.id
           q(n) == [parents[n] EXCEPT !.kids = Spread(parents[n].kids, i, js)]
<1>1. parents' = [n \in DOMAIN parents |-> q(n)]
  BY DEF Spread
<1>2. parents \in Seq(Family)
  BY DEF Chunks, Linked
<1>3. js \in Seq(Id)
  OBVIOUS
<1> HIDE DEF js, i
<1>4. ASSUME NEW n \in DOMAIN parents
      PROVE  /\ q(n) \in Family /\ q(n).id = parents[n].id /\ q(n).blocks = parents[n].blocks
             /\ q(n).kids = Spread(parents[n].kids, i, js)
  <2>1. parents[n] \in Family
    BY <1>2
  <2>2. parents[n].kids \in Seq(Id)
    BY <2>1 DEF Family, Id
  <2>3. Spread(parents[n].kids, i, js) \in Seq(Id)
    <3>1. /\ Spread(parents[n].kids, i, js) = FlattenSeq(Mapped(SpreadOf(i, js), parents[n].kids))
          /\ Mapped(SpreadOf(i, js), parents[n].kids) \in Seq(Seq(Id))
      BY <1>3, <2>2, SpreadIsFlat
    <3> QED BY <3>1, FlattenType
  <2> DEFINE s == Spread(parents[n].kids, i, js)
  <2>4. s \in Seq(Seq(Nat))
    BY <2>3 DEF Id
  <2> HIDE DEF s
  <2> QED BY <2>1, <2>4 DEF Family, s
<1> HIDE DEF q
<1>5. parents' \in Seq(Family) /\ Len(parents') = Len(parents)
  <2> DEFINE m == Len(parents)
  <2>1. m \in Nat /\ DOMAIN parents = 1..m
    BY <1>2
  <2>2. parents' = [n \in 1..m |-> q(n)] /\ \A n \in 1..m : q(n) \in Family
    BY <1>1, <1>4, <2>1
  <2> HIDE DEF m
  <2> QED BY <2>1, <2>2 DEF m
<1> QED BY <1>1, <1>4, <1>5 DEF Spreading, js, i

\* split_overlong_chunks, one chunk.
LEMMA SplitKeeps == ASSUME Passing, Split PROVE Passing' /\ Decreases
<1> DEFINE k == at.child
           c == children[k]
           r == Parts(c)
<1>1. Types /\ Chunks /\ Progress /\ Warned /\ TextPreserved
  BY DEF Passing
<1>2. /\ pass = "split" /\ k <= Len(children)
      /\ children' = SubSeq(children, 1, k - 1) \o r \o SubSeq(children, k + 1, Len(children))
      /\ at' = [at EXCEPT !.child = @ + Len(r)]
      /\ UNCHANGED <<pass, warned, given>>
  BY DEF Split
<1>3. parents' = [q \in DOMAIN parents |-> [parents[q] EXCEPT !.kids =
          FlattenSeq([n \in DOMAIN @ |-> IF @[n] = c.id THEN Ids(r) ELSE <<@[n]>>])]]
  BY DEF Split
<1> HIDE DEF k, c, r
<1>4. children \in Seq(Chunk) /\ Len(children) \in Nat /\ k \in 1..Len(children) /\ c = children[k]
  BY <1>1, <1>2 DEF Chunks, Types, k, c
<1>5. Formed(c) /\ Len(c.id) = 1
  BY <1>1, <1>2, <1>4 DEF Chunks, Progress, ToSet, k
<1>6. SplitsInto(c, r)
  BY <1>5, PartsReplace DEF r
<1>7. r \in Seq(Chunk) /\ Len(r) \in Nat
  BY <1>6 DEF SplitsInto, Replaces
<1>8. Ids(r) \in Seq(Id)
  BY <1>7, IdsConcat DEF Id
<1>9. Spreading(parents, parents', c, r)
  BY <1>1, <1>3, <1>8, SpreadsChunk
<1>10. /\ Sound(children') /\ Written(children') = Written(children) /\ Media(children') = Media(children)
       /\ Linked(parents', children') /\ Unrolled(children, children', k, r)
       /\ \A p : Alone(Of(p, children)) => Alone(Of(p, children'))
  <2>1. Sound(children) /\ Linked(parents, children)
    BY <1>1, ChunksAreSound
  <2>2. Splits(children, parents, k, c, r, children', parents')
    BY <1>2, <1>4, <1>6, <1>9, <2>1 DEF Splits
  <2> QED BY <2>2, SplitChunk
<1>11. Chunks' /\ TextPreserved' /\ Warned'
  BY <1>1, <1>2, <1>10, EditKeeps
<1>12. Len(parents') = Len(parents) /\ \A i \in DOMAIN parents : parents'[i].id = parents[i].id
  BY <1>9 DEF Spreading
<1>13. Len(children') = Len(children) - 1 + Len(r)
  BY <1>10 DEF Unrolled
<1>14. /\ at'.parent = at.parent /\ at'.child = k + Len(r) /\ Len(r) >= 1
       /\ at' \in [parent : Nat \ {0}, child : Nat \ {0}]
  <2>1. at \in [parent : Nat \ {0}, child : Nat \ {0}] /\ k \in Nat
    BY <1>1, <1>4 DEF Types
  <2>2. Len(r) \in Nat /\ Len(r) >= 1
    BY <1>6, <1>7 DEF SplitsInto
  <2> DEFINE m == Len(r)
  <2>3. at' = [at EXCEPT !.child = @ + m] /\ m \in Nat /\ m >= 1 /\ at.child = k
    BY <1>2, <2>2 DEF k
  <2> HIDE DEF m
  <2> QED BY <2>1, <2>2, <2>3 DEF m
<1>15. Types'
  <2>1. given' \in Seq(Chunk) /\ pass' \in Pass /\ at'.parent <= Len(parents') + 1
    BY <1>1, <1>2, <1>12, <1>14 DEF Types
  <2>2. at'.child <= Len(children') + 1
    BY <1>4, <1>7, <1>13, <1>14
  <2> QED BY <1>14, <2>1, <2>2 DEF Types
<1>16. \A p \in ToSet(parents') : Alone(Of(p.id, children'))
  <2>1. SUFFICES ASSUME NEW i \in DOMAIN parents' PROVE Alone(Of(parents'[i].id, children'))
    BY DEF ToSet
  <2>2. i \in DOMAIN parents
    BY <1>1, <1>11, <1>12 DEF Chunks, Linked
  <2>3. Alone(Of(parents[i].id, children))
    BY <1>1, <1>2, <2>2 DEF Progress, ToSet
  <2> QED BY <1>10, <1>12, <2>2, <2>3
<1>17. ASSUME NEW j \in DOMAIN children'
       PROVE  IF j < k + Len(r) THEN Short(children'[j]) ELSE Len(children'[j].id) = 1
  <2>1. j \in 1..Len(children')
    BY <1>11 DEF Chunks
  <2>2. CASE j < k
    <3>1. children'[j] = children[j]
      BY <1>4, <1>10, <2>1, <2>2 DEF Unrolled
    <3>2. Short(children[j])
      BY <1>1, <1>2, <1>4, <2>1, <2>2 DEF Progress, k
    <3> QED BY <1>4, <1>7, <2>1, <2>2, <3>1, <3>2
  <2>3. CASE j >= k /\ j < k + Len(r)
    <3>1. children'[j] \in ToSet(r)
      BY <1>4, <1>7, <1>10, <2>1, <2>3 DEF Unrolled
    <3> QED BY <1>6, <2>3, <3>1 DEF SplitsInto
  <2>4. CASE j >= k + Len(r)
    <3> DEFINE m == j - Len(r) + 1
    <3>1. m \in 1..Len(children) /\ m > k
      BY <1>4, <1>7, <1>13, <2>1, <2>4
    <3>2. children'[j] = children[m]
      <4>1. \A i \in (k + Len(r))..Len(children') : children'[i] = children[i - Len(r) + 1]
        BY <1>10 DEF Unrolled
      <4>2. j \in (k + Len(r))..Len(children')
        BY <1>4, <1>7, <2>1, <2>4
      <4> QED BY <4>1, <4>2
    <3> HIDE DEF m
    <3>3. m \in DOMAIN children /\ ~(m < k)
      BY <1>4, <3>1
    <3>4. Len(children[m].id) = 1
      BY <1>1, <1>2, <3>3 DEF Progress, k
    <3> QED BY <1>4, <1>7, <2>1, <2>4, <3>2, <3>4
  <2> QED BY <1>4, <1>7, <2>1, <2>2, <2>3, <2>4
<1>18. Progress'
  BY <1>2, <1>14, <1>16, <1>17 DEF Progress
<1>19. Decreases
  <2>1. Len(children') - at'.child < Len(children) - at.child
    BY <1>4, <1>7, <1>13, <1>14 DEF k
  <2> QED BY <1>2, <1>12, <1>14, <2>1, ChildrenDecrease
<1> QED BY <1>11, <1>15, <1>18, <1>19 DEF Passing


\* The end of the splitting, with the warnings of validate_chunk_package.
LEMMA EndSplitKeeps == ASSUME Passing, EndSplit PROVE Passing' /\ Decreases
<1>1. Types /\ Chunks /\ Progress /\ Warned /\ TextPreserved
  BY DEF Passing
<1>2. /\ pass = "split" /\ pass' = "store" /\ at.child > Len(children)
      /\ at' = [parent |-> 1, child |-> 1] /\ warned' = PackageWarnings
      /\ UNCHANGED <<parents, children, given>>
  BY DEF EndSplit, Enter
<1>3. children \in Seq(Chunk) /\ Len(children) \in Nat /\ Len(parents) \in Nat /\ at.child \in Nat
  BY <1>1, Numbers DEF Chunks
<1>4. Sound(children) /\ Linked(parents, children)
  BY <1>1, ChunksAreSound
<1>5. Chunks' /\ TextPreserved'
  <2>1. \A c : Formed(c) => Formed(c)'
    BY <1>2 DEF Formed, Sourced
  <2> QED BY <1>1, <1>2, <2>1 DEF Chunks, TextPreserved
<1>6. Types'
  BY <1>1, <1>2, <1>3 DEF Types, Pass
<1>7. Progress'
  <2>1. \A c \in ToSet(children) : Short(c)
    BY <1>1, <1>2, <1>3 DEF Progress, ToSet
  <2>2. \A p \in ToSet(parents) : Alone(Of(p.id, children))
    BY <1>1, <1>2 DEF Progress
  <2> QED BY <1>2, <2>1, <2>2 DEF Progress
<1>8. Warned'
  <2>1. IsInjective(Ids(children))
    <3>1. \A x \in ToSet(children) : Sized(x)
      BY <1>4, FormedIsSized DEF Sound
    <3> QED BY <1>3, <1>4, <3>1, DistinctIds DEF Sound
  <2>2. ASSUME NEW c \in ToSet(children)
        PROVE  /\ {p \in ToSet(parents) : p.id = c.parent} # {}
               /\ \A p \in {p \in ToSet(parents) : p.id = c.parent} : c.id \in ToSet(p.kids)
    <3>1. ASSUME NEW p \in ToSet(parents), p.id = c.parent PROVE c.id \in ToSet(p.kids)
      <4>1. p.kids = Kids(p.id, children)
        BY <1>4 DEF Linked, Kids
      <4>2. ToSet(Kids(p.id, children)) = {x.id : x \in {d \in ToSet(children) : d.parent = p.id}}
        BY <1>3, KidsElements
      <4> QED BY <3>1, <4>1, <4>2
    <3> QED BY <1>4, <3>1 DEF Linked
  <2>3. ASSUME NEW p \in ToSet(parents) PROVE ToSet(p.kids) \subseteq ToSet(Ids(children))
    <3>1. p.kids = Kids(p.id, children)
      BY <1>4 DEF Linked, Kids
    <3>2. ToSet(Kids(p.id, children)) = {x.id : x \in {d \in ToSet(children) : d.parent = p.id}}
      BY <1>3, KidsElements
    <3>3. ToSet(Ids(children)) = {x.id : x \in ToSet(children)}
      BY <1>3, IdsElements
    <3> QED BY <3>1, <3>2, <3>3
  <2>4. ASSUME NEW c \in ToSet(children) PROVE c.blocks # {} /\ ~(c.last < c.first)
    <3>1. Formed(c)
      BY <1>4 DEF Sound
    <3> QED BY <3>1 DEF Formed, Chunk
  <2>5. ASSUME NEW w \in PackageWarnings
        PROVE  /\ w = "media"
               /\ \E c \in ToSet(children) : \E b \in c.blocks :
                      given[b].kind # "text" /\ c.kind # "media"
    <3>1. w # "duplicate"
      BY <2>1, <2>5 DEF PackageWarnings
    <3>2. w # "orphan"
      BY <2>2, <2>5 DEF PackageWarnings
    <3>3. w # "unlisted"
      BY <2>2, <2>5 DEF PackageWarnings
    <3>4. w # "no source"
      BY <2>4, <2>5 DEF PackageWarnings
    <3>5. w # "pages"
      BY <2>4, <2>5 DEF PackageWarnings
    <3>6. w # "missing child"
      BY <2>3, <2>5 DEF PackageWarnings
    <3>7. w = "media"
      BY <2>5, <3>1, <3>2, <3>3, <3>4, <3>5, <3>6 DEF PackageWarnings
    <3> QED BY <2>5, <3>7 DEF PackageWarnings
  <2>6. ASSUME NEW c \in ToSet(children), NEW b \in c.blocks,
               given[b].kind # "text", c.kind # "media"
        PROVE  \E d \in ToSet(given) : d.kind \in {"rows", "inline"}
    <3>1. Formed(c)
      BY <1>4 DEF Sound
    <3>2. b \in DOMAIN given /\ given[b].kind # "media"
      BY <2>6, <3>1 DEF Formed
    <3>3. given[b] \in Chunk /\ given[b] \in ToSet(given)
      BY <1>1, <3>2 DEF Types, ToSet
    <3>4. given[b].kind \in {"rows", "inline"}
      BY <2>6, <3>2, <3>3 DEF Chunk, Kind
    <3> QED BY <3>3, <3>4
  <2>7. PackageWarnings # {} => /\ PackageWarnings = {"media"}
                                 /\ \E d \in ToSet(given) : d.kind \in {"rows", "inline"}
    BY <2>5, <2>6
  <2> QED BY <1>2, <2>7 DEF Warned
<1>9. Decreases
  BY <1>2, PassesDecrease
<1> QED BY <1>5, <1>6, <1>7, <1>8, <1>9 DEF Passing

\* build_chunks_for_ingest.
LEMMA StoreKeeps == ASSUME Passing, Store PROVE Passing' /\ Decreases
<1>1. Types /\ Chunks /\ Progress /\ Warned /\ TextPreserved
  BY DEF Passing
<1>2. /\ pass = "store" /\ pass' \in {"stored", "raised"}
      /\ UNCHANGED <<parents, children, at, warned, given>>
  BY DEF Store
<1>3. Chunks' /\ TextPreserved' /\ Warned'
  BY <1>1, <1>2, NothingEdited
<1>4. Types'
  BY <1>1, <1>2 DEF Types, Pass
<1>5. Progress'
  BY <1>1, <1>2 DEF Progress
<1>6. Decreases
  BY <1>2, PassesDecrease
<1> QED BY <1>3, <1>4, <1>5, <1>6 DEF Passing

\* Nothing happens.
LEMMA StutterKeeps == ASSUME Passing, UNCHANGED vars PROVE Passing'
<1>1. Types /\ Chunks /\ Progress /\ Warned /\ TextPreserved
  BY DEF Passing
<1>2. UNCHANGED <<parents, children, pass, at, warned, given>>
  BY DEF vars
<1>3. Chunks' /\ TextPreserved' /\ Warned'
  BY <1>1, <1>2, NothingEdited
<1>4. Types'
  BY <1>1, <1>2 DEF Types
<1>5. Progress'
  BY <1>1, <1>2 DEF Progress, Settled
<1> QED BY <1>3, <1>4, <1>5 DEF Passing

\* Every step of the passes keeps the invariant and leaves less to do.
LEMMA PassingKept == ASSUME Passing, Next PROVE Passing' /\ (Decreases \/ UNCHANGED vars)
<1>1. CASE LeavePair
  BY <1>1, LeavePairKeeps
<1>2. CASE MovePunct
  BY <1>2, MovePunctKeeps
<1>3. CASE JoinPair
  BY <1>3, JoinPairKeeps
<1>4. CASE LeaveParent
  BY <1>4, LeaveParentKeeps
<1>5. CASE EndRepair
  BY <1>5, EndRepairKeeps
<1>6. CASE LeaveAcross
  BY <1>6, LeaveAcrossKeeps
<1>7. CASE JoinAcross
  BY <1>7, JoinAcrossKeeps
<1>8. CASE EndAcross
  BY <1>8, EndAcrossKeeps
<1>9. CASE MergeSmall
  BY <1>9, MergeSmallKeeps
<1>10. CASE EndMerge
  BY <1>10, EndMergeKeeps
<1>11. CASE Split
  BY <1>11, SplitKeeps
<1>12. CASE EndSplit
  BY <1>12, EndSplitKeeps
<1>13. CASE Store
  BY <1>13, StoreKeeps
<1>14. CASE Stop
  <2>1. UNCHANGED vars
    BY <1>14 DEF Stop
  <2> QED BY <2>1, StutterKeeps
<1> QED BY <1>1, <1>2, <1>3, <1>4, <1>5, <1>6, <1>7, <1>8, <1>9, <1>10, <1>11, <1>12, <1>13,
           <1>14 DEF Next

(***************************************************************************)
(* What a chunker emits.                                                    *)
(***************************************************************************)
\* The tokens of the child i: a body belongs to it.
TokensOf(i) == {t \in Token : t.role = "body" => t.starts # "punct" /\ t.of = i}
\* The shapes of children that chunkers can emit.
Shaped == [kind : {"text", "media", "rows", "inline"}, title : Nat,
           lead : {"none", "header", "punct"}, words : Seq(Nat),
           starts : {"joins", "section", "fresh"}, ends : End]

\* The tokens of a heading.
LEMMA HeadingTokens ==
  ASSUME NEW shape \in Shaped, NEW p \in Nat, NEW T, {t \in Token : t.role = "heading"} \subseteq T
  PROVE  Heading(shape, p) \in Seq(T)
<1> DEFINE n == shape.title
           e(k) == Piece(p, "heading", <<0, k>>, shape.starts, "open", k = 1)
<1>1. n \in Nat /\ shape.starts \in Start
  BY DEF Shaped, Start
<1>2. ASSUME NEW k \in 1..n PROVE e(k) \in T
  <2>1. <<0, k>> \in Nat \X Nat /\ "heading" \in Role /\ "open" \in End /\ (k = 1) \in BOOLEAN
    BY <1>1 DEF Role, End
  <2>2. e(k) \in Token /\ e(k).role = "heading"
    BY <1>1, <2>1 DEF Piece, Token
  <2> HIDE DEF e
  <2> QED BY <2>2
<1>3. Heading(shape, p) = [k \in 1..n |-> e(k)]
  BY DEF Heading
<1> HIDE DEF n, e
<1> QED BY <1>1, <1>2, <1>3

\* The tokens before the first words.
LEMMA LeadTokens ==
  ASSUME NEW shape \in Shaped, NEW i \in Nat
  PROVE  Lead(i, shape) \in Seq(TokensOf(i))
<1> DEFINE h == Piece(i, "header", <<0, 0>>, "header", "open", TRUE)
           q == Piece(i, "punct", <<0, 0>>, "punct", "soft", TRUE)
<1>1. <<0, 0>> \in Nat \X Nat
  OBVIOUS
<1>2. /\ "header" \in Role /\ "header" \in Start /\ "open" \in End
      /\ "punct" \in Role /\ "punct" \in Start /\ "soft" \in End
  BY DEF Role, Start, End
<1>3. h \in Token /\ h.role = "header"
  BY <1>1, <1>2 DEF Piece, Token
<1>4. q \in Token /\ q.role = "punct"
  BY <1>1, <1>2 DEF Piece, Token
<1>5. Lead(i, shape) = IF shape.lead = "header" THEN <<h>>
                       ELSE IF shape.lead = "punct" THEN <<q>> ELSE <<>>
  BY DEF Lead
<1> HIDE DEF h, q
<1>6. h \in TokensOf(i) /\ q \in TokensOf(i)
  BY <1>3, <1>4 DEF TokensOf
<1> QED BY <1>5, <1>6

\* The tokens of a body belong to their child, and do not start like punctuation.
LEMMA BodyTokens ==
  ASSUME NEW shape \in Shaped, NEW i \in Nat
  PROVE  Body(i, shape) \in Seq(TokensOf(i))
<1> DEFINE ws == shape.words
           e(w, k) == Piece(i, "body", <<w, k>>, shape.starts, shape.ends, k = 1)
           run(w) == [k \in 1..ws[w] |-> e(w, k)]
           runs == [w \in DOMAIN ws |-> run(w)]
<1>1. /\ ws \in Seq(Nat) /\ shape.starts \in Start /\ shape.starts # "punct" /\ shape.ends \in End
  BY DEF Shaped, Start
<1>2. ASSUME NEW w \in Nat, NEW k \in Nat PROVE e(w, k) \in TokensOf(i)
  <2>1. <<w, k>> \in Nat \X Nat /\ "body" \in Role /\ (k = 1) \in BOOLEAN
    BY DEF Role
  <2>2. e(w, k) \in Token /\ e(w, k).of = i /\ e(w, k).starts = shape.starts
    BY <1>1, <2>1 DEF Piece, Token
  <2> HIDE DEF e
  <2> QED BY <1>1, <2>2 DEF TokensOf
<1> HIDE DEF e
<1>3. ASSUME NEW w \in DOMAIN ws PROVE run(w) \in Seq(TokensOf(i))
  <2> DEFINE n == ws[w]
  <2>1. n \in Nat /\ w \in Nat
    BY <1>1
  <2>2. run(w) = [k \in 1..n |-> e(w, k)]
    OBVIOUS
  <2> HIDE DEF n, run
  <2>3. \A k \in 1..n : e(w, k) \in TokensOf(i)
    BY <1>2, <2>1
  <2> QED BY <2>1, <2>2, <2>3
<1>4. Body(i, shape) = FlattenSeq(runs)
  BY DEF Body, e
<1>5. runs \in Seq(Seq(TokensOf(i)))
  <2> HIDE DEF run
  <2> DEFINE m == Len(ws)
  <2>1. m \in Nat /\ DOMAIN ws = 1..m
    BY <1>1
  <2>2. runs = [w \in 1..m |-> run(w)] /\ \A w \in 1..m : run(w) \in Seq(TokensOf(i))
    BY <1>3, <2>1
  <2> HIDE DEF m, runs
  <2> QED BY <2>1, <2>2
<1> HIDE DEF runs
<1> QED BY <1>4, <1>5, FlattenType

\* What is true of a child that a chunker emits.
Fresh(c, i, p, page) ==
    /\ c \in Chunk /\ c.id = <<i>> /\ c.parent = p /\ c.first = page /\ c.last = page
    /\ c.blocks = {i}
    /\ \A t \in ToSet(c.heading) : t.role = "heading"
    /\ \A t \in ToSet(c.text) : t.role = "body" => t.starts # "punct" /\ t.of = i

\* What a chunker emits is such a child.
LEMMA EmittedIsFresh ==
  ASSUME NEW i \in Nat, NEW shape \in Shaped, NEW p \in Nat, NEW page \in Nat
  PROVE  Fresh(Emitted(i, shape, p, page), i, p, page)
<1> DEFINE c == Emitted(i, shape, p, page)
           h == Heading(shape, p)
           l == Lead(i, shape)
           b == Body(i, shape)
           T == TokensOf(i)
<1>1. h \in Seq(T) /\ l \in Seq(T) /\ b \in Seq(T)
  <2>1. {t \in Token : t.role = "heading"} \subseteq T
    BY DEF TokensOf
  <2>2. h \in Seq(T)
    BY <2>1, HeadingTokens
  <2> QED BY <2>2, LeadTokens, BodyTokens
<1>2. h \in Seq({t \in Token : t.role = "heading"})
  BY HeadingTokens
<1>3. /\ c = [id |-> <<i>>, parent |-> p, kind |-> shape.kind, text |-> (h \o l) \o b,
              heading |-> h, first |-> page, last |-> page, blocks |-> {i}]
      /\ shape.kind \in Kind
  BY DEF Emitted, Shaped, Kind
<1> DEFINE t == (h \o l) \o b
<1> HIDE DEF h, l, b, c
<1>4. t \in Seq(T)
  <2>1. h \o l \in Seq(T)
    BY <1>1, ConcatType
  <2> QED BY <1>1, <2>1, ConcatType
<1>5. T \subseteq Token
  BY DEF TokensOf
<1>6. t \in Seq(Token) /\ h \in Seq(Token)
  BY <1>1, <1>4, <1>5
<1>7. \A x \in ToSet(t) : x.role = "body" => x.starts # "punct" /\ x.of = i
  BY <1>4 DEF ToSet, TokensOf
<1>8. \A x \in ToSet(h) : x.role = "heading"
  BY <1>2 DEF ToSet
<1> HIDE DEF t, T
<1>9. c = [id |-> <<i>>, parent |-> p, kind |-> shape.kind, text |-> t,
           heading |-> h, first |-> page, last |-> page, blocks |-> {i}]
  BY <1>3 DEF t
<1>10. <<i>> \in Seq(Nat)
  OBVIOUS
<1>11. c \in Chunk
  <2> DEFINE id == <<i>>
             kind == shape.kind
             blocks == {i}
  <2>1. id \in Seq(Nat) /\ kind \in Kind /\ blocks \in SUBSET Nat
    BY <1>3, <1>10
  <2>2. c = [id |-> id, parent |-> p, kind |-> kind, text |-> t,
             heading |-> h, first |-> page, last |-> page, blocks |-> blocks]
    BY <1>9
  <2> HIDE DEF id, kind, blocks
  <2> QED BY <1>6, <2>1, <2>2 DEF Chunk
<1>12. /\ c.id = <<i>> /\ c.parent = p /\ c.first = page /\ c.last = page /\ c.blocks = {i}
       /\ c.text = t /\ c.heading = h
  BY <1>9
<1>13. Fresh(c, i, p, page)
  BY <1>7, <1>8, <1>11, <1>12 DEF Fresh
<1> QED BY <1>13 DEF c

\* Numbers that grow by at most 1 grow.
LEMMA AscendingGrows ==
  ASSUME NEW n \in Nat, NEW f \in Ascending(n)
  PROVE  /\ f \in [1..n -> 1..n]
         /\ \A i, j \in 1..n : i <= j => f[i] <= f[j]
<1>1. f \in [1..n -> 1..n] /\ \A i \in 2..n : f[i] - f[i - 1] \in {0, 1}
  BY DEF Ascending
<1> DEFINE S == {d \in Nat : \A i \in 1..n : i + d <= n => f[i] <= f[i + d]}
<1>2. 0 \in S
  BY <1>1
<1>3. ASSUME NEW d \in Nat, d \in S PROVE d + 1 \in S
  <2>1. SUFFICES ASSUME NEW i \in 1..n, i + (d + 1) <= n PROVE f[i] <= f[i + (d + 1)]
    OBVIOUS
  <2>2. f[i] <= f[i + d]
    BY <1>3, <2>1
  <2> DEFINE m == i + (d + 1)
  <2>3. m \in 2..n /\ m - 1 = i + d
    BY <2>1
  <2> HIDE DEF m
  <2>4. f[m] - f[m - 1] \in {0, 1} /\ f[m] \in Nat /\ f[m - 1] \in Nat /\ f[i] \in Nat
    <3>1. m \in 1..n /\ m - 1 \in 1..n /\ 1..n \subseteq Nat
      BY <2>3
    <3>2. f[m] - f[m - 1] \in {0, 1}
      BY <1>1, <2>3
    <3> QED BY <1>1, <3>1, <3>2
  <2>5. f[i] <= f[m]
    BY <2>2, <2>3, <2>4
  <2> QED BY <2>5 DEF m
<1>4. Nat \subseteq S
  <2> HIDE DEF S
  <2> QED BY <1>2, <1>3, Induction
<1>5. ASSUME NEW i \in 1..n, NEW j \in 1..n, i <= j PROVE f[i] <= f[j]
  <2> DEFINE d == j - i
  <2>1. d \in Nat /\ i + d = j /\ i + d <= n
    BY <1>5
  <2> HIDE DEF d
  <2>2. d \in S
    BY <1>4, <2>1
  <2>3. f[i] <= f[i + d]
    BY <2>1, <2>2
  <2> QED BY <2>1, <2>3
<1> QED BY <1>1, <1>5


\* A parent as the chunker makes it.
FamilyOf(p, cs) == [id |-> p, kids |-> Ids(Of(p, cs)),
                    blocks |-> UNION {c.blocks : c \in ToSet(Of(p, cs))}]

\* A parent that knows its children.
Knowing(q, cs) ==
    /\ q \in Family
    /\ q.kids = Ids(Of(q.id, cs))
    /\ \A c \in ToSet(cs) : c.parent = q.id => c.blocks \subseteq q.blocks

\* A parent as the chunker makes it knows its children.
LEMMA FamilyKnows ==
  ASSUME NEW cs \in Seq(Chunk), NEW p \in Nat
  PROVE  Knowing(FamilyOf(p, cs), cs) /\ FamilyOf(p, cs).id = p
<1> DEFINE os == Of(p, cs)
           kids == Ids(os)
           blocks == UNION {c.blocks : c \in ToSet(os)}
           q == FamilyOf(p, cs)
<1>1. os \in Seq(Chunk) /\ ToSet(os) = {c \in ToSet(cs) : c.parent = p}
  BY OfConcat, OfElements
<1>2. ToSet(os) \subseteq Chunk
  BY <1>1, ToSetType
<1>3. \A c \in ToSet(os) : c.blocks \subseteq Nat /\ c.blocks \subseteq blocks
  BY <1>2 DEF Chunk
<1>4. blocks \subseteq Nat
  BY <1>3
<1> HIDE DEF os
<1>5. kids \in Seq(Seq(Nat))
  BY <1>1, IdsConcat
<1>6. q = [id |-> p, kids |-> kids, blocks |-> blocks]
  BY DEF FamilyOf, os
<1>7. \A c \in ToSet(cs) : c.parent = p => c.blocks \subseteq blocks
  BY <1>1, <1>3
<1>8. kids = Ids(Of(p, cs))
  BY DEF os
<1> HIDE DEF kids, blocks, q
<1>9. q \in Family /\ q.id = p /\ q.kids = kids /\ q.blocks = blocks
  BY <1>4, <1>5, <1>6 DEF Family
<1>10. Knowing(q, cs)
  BY <1>7, <1>8, <1>9 DEF Knowing
<1> QED BY <1>9, <1>10 DEF q

\* A parent without children knows its children.
LEMMA ChildlessKnows ==
  ASSUME NEW cs \in Seq(Chunk), \A c \in ToSet(cs) : c.parent # 0
  PROVE  Knowing(Childless, cs) /\ Childless.id = 0
<1>1. Of(0, cs) = <<>>
  BY OfOther
<1>2. Ids(<<>>) = <<>>
  BY DEF Ids
<1>3. <<>> \in Seq(Seq(Nat))
  OBVIOUS
<1>4. Childless \in Family /\ Childless.id = 0 /\ Childless.kids = <<>>
  BY <1>3 DEF Childless, Family
<1>5. Childless.kids = Ids(Of(Childless.id, cs))
  BY <1>1, <1>2, <1>4
<1> QED BY <1>4, <1>5 DEF Knowing

\* Two lists, one after the other, by place.
Indexed(s, t, u) ==
    /\ Len(s) \in Nat /\ Len(t) \in Nat /\ Len(u) = Len(s) + Len(t)
    /\ \A n \in 1..Len(s) : n \in 1..Len(u) /\ u[n] = s[n]
    /\ \A n \in 1..Len(t) : Len(s) + n \in 1..Len(u) /\ u[Len(s) + n] = t[n]
    /\ \A n \in 1..Len(u) : n \in 1..Len(s) \/ \E m \in 1..Len(t) : n = Len(s) + m

\* The places in two lists, one after the other.
LEMMA ConcatIndexed ==
  ASSUME NEW T, NEW s \in Seq(T), NEW t \in Seq(T)
  PROVE  s \o t \in Seq(T) /\ Indexed(s, t, s \o t)
BY ConcatIndex DEF Indexed

\* The parents, with or without one that has no children, agree with the children.
LEMMA LinkedFirst ==
  ASSUME NEW cs \in Seq(Chunk), NEW m \in Nat, \A c \in ToSet(cs) : c.parent \in 1..m,
         NEW before \in {<<>>, <<Childless>>}, NEW ps,
         ps = before \o [p \in 1..m |-> FamilyOf(p, cs)]
  PROVE  Linked(ps, cs)
<1> DEFINE own == [p \in 1..m |-> FamilyOf(p, cs)]
           b == Len(before)
<1>1. \A p \in 1..m : Knowing(FamilyOf(p, cs), cs) /\ FamilyOf(p, cs).id = p
  BY FamilyKnows
<1>2. \A p \in 1..m : FamilyOf(p, cs) \in Family
  BY <1>1 DEF Knowing
<1>3. own \in Seq(Family) /\ Len(own) = m
  BY <1>2
<1>4. \A p \in 1..m : Knowing(own[p], cs) /\ own[p].id = p
  BY <1>1
<1>5. Knowing(Childless, cs) /\ Childless.id = 0
  BY ChildlessKnows
<1>6. /\ before \in Seq(Family) /\ b \in {0, 1}
      /\ \A k \in 1..b : Knowing(before[k], cs) /\ before[k].id = 0
  <2>1. CASE before = <<>>
    BY <2>1
  <2>2. CASE before = <<Childless>>
    <3>1. Childless \in Family
      BY <1>5 DEF Knowing
    <3> QED BY <1>5, <2>2, <3>1
  <2> QED BY <2>1, <2>2
<1>7. ps = before \o own
  OBVIOUS
<1> HIDE DEF own, b
<1>8. /\ ps \in Seq(Family) /\ Len(ps) = b + m
      /\ \A k \in 1..b : ps[k] = before[k]
      /\ \A k \in 1..m : ps[b + k] = own[k] /\ b + k \in 1..Len(ps)
      /\ \A k \in 1..Len(ps) : k \in 1..b \/ \E j \in 1..m : k = b + j
  <2>1. before \in Seq(Family) /\ own \in Seq(Family)
    BY <1>3, <1>6
  <2>2. ps \in Seq(Family) /\ Indexed(before, own, ps)
    BY <1>7, <2>1, ConcatIndexed
  <2> QED BY <1>3, <2>2 DEF b, Indexed
<1>9. \A k \in 1..Len(ps) : Knowing(ps[k], cs) /\ ps[k].id = k - b
  <2>1. SUFFICES ASSUME NEW k \in 1..Len(ps) PROVE Knowing(ps[k], cs) /\ ps[k].id = k - b
    OBVIOUS
  <2>2. CASE k \in 1..b
    BY <1>6, <1>8, <2>2
  <2>3. CASE \E j \in 1..m : k = b + j
    <3>1. PICK j \in 1..m : k = b + j
      BY <2>3
    <3>2. ps[k] = own[j]
      BY <1>8, <3>1
    <3>3. b \in {0, 1}
      BY <1>6
    <3>4. k - b = j
      BY <3>1, <3>3
    <3> QED BY <1>4, <3>2, <3>4
  <2> QED BY <1>8, <2>1, <2>2, <2>3
<1>10. \A i, j \in DOMAIN ps : ps[i].id = ps[j].id => i = j
  <2>1. DOMAIN ps = 1..Len(ps) /\ b \in {0, 1}
    BY <1>6, <1>8
  <2>2. SUFFICES ASSUME NEW i \in 1..Len(ps), NEW j \in 1..Len(ps), ps[i].id = ps[j].id PROVE i = j
    BY <2>1
  <2>3. i - b = j - b
    BY <1>9, <2>2
  <2> QED BY <2>1, <2>3
<1>11. ASSUME NEW c \in ToSet(cs) PROVE \E q \in ToSet(ps) : q.id = c.parent
  <2> DEFINE k == c.parent
  <2>1. k \in 1..m
    OBVIOUS
  <2>2. b + k \in 1..Len(ps) /\ ps[b + k].id = k
    BY <1>4, <1>8, <2>1
  <2> HIDE DEF k
  <2>3. ps[b + k] \in ToSet(ps)
    BY <1>8, <2>2 DEF ToSet
  <2> QED BY <2>2, <2>3 DEF k
<1>12. \A q \in ToSet(ps) : Knowing(q, cs)
  <2>1. DOMAIN ps = 1..Len(ps)
    BY <1>8
  <2> QED BY <1>9, <2>1 DEF ToSet
<1>13. ps \in Seq(Family)
  BY <1>8
<1> QED BY <1>10, <1>11, <1>12, <1>13 DEF Linked, Knowing

\* What is true of the children when the passes start.
Starting(cs, n, owner, page) ==
    /\ n \in Nat /\ n >= 1 /\ cs \in Seq(Chunk) /\ Len(cs) = n
    /\ owner \in [1..n -> 1..n] /\ page \in [1..n -> 1..n]
    /\ \A i, j \in 1..n : i <= j => owner[i] <= owner[j]
    /\ \A i \in 1..n : Fresh(cs[i], i, owner[i], page[i])

\* The children that the chunkers emit are so.
LEMMA ChunkersStart ==
  ASSUME NEW n \in 1..MaxChildren, NEW shape \in [1..n -> Shape],
         NEW owner \in Ascending(n), NEW page \in Ascending(n),
         NEW cs, cs = [i \in 1..n |-> Emitted(i, shape[i], owner[i], page[i])]
  PROVE  Starting(cs, n, owner, page)
<1>1. n \in Nat /\ n >= 1
  BY SizesAreNumbers
<1>2. owner \in [1..n -> 1..n] /\ \A i, j \in 1..n : i <= j => owner[i] <= owner[j]
  BY <1>1, AscendingGrows
<1>3. page \in [1..n -> 1..n]
  BY <1>1, AscendingGrows
<1>4. ASSUME NEW i \in 1..n PROVE Fresh(cs[i], i, owner[i], page[i])
  <2>1. i \in Nat /\ owner[i] \in Nat /\ page[i] \in Nat
    <3>1. 1..n \subseteq Nat
      BY <1>1
    <3>2. owner[i] \in 1..n
      BY <1>2
    <3>3. page[i] \in 1..n
      BY <1>3
    <3> QED BY <3>1, <3>2, <3>3
  <2>2. shape[i] \in Shaped
    BY ShapesAreChildren DEF Shaped
  <2>3. cs[i] = Emitted(i, shape[i], owner[i], page[i])
    OBVIOUS
  <2> DEFINE sh == shape[i]
             p == owner[i]
             g == page[i]
  <2> HIDE DEF sh, p, g
  <2>4. Fresh(Emitted(i, sh, p, g), i, p, g)
    BY <2>1, <2>2, EmittedIsFresh DEF sh, p, g
  <2> QED BY <2>3, <2>4 DEF sh, p, g
<1>5. \A i \in 1..n : cs[i] \in Chunk
  BY <1>4 DEF Fresh
<1>6. cs \in Seq(Chunk) /\ Len(cs) = n
  <2> DEFINE e(i) == Emitted(i, shape[i], owner[i], page[i])
  <2>1. cs = [i \in 1..n |-> e(i)]
    OBVIOUS
  <2>2. \A i \in 1..n : e(i) \in Chunk
    BY <1>5, <2>1
  <2> HIDE DEF e
  <2> QED BY <1>1, <2>1, <2>2
<1> QED BY <1>1, <1>2, <1>3, <1>4, <1>6 DEF Starting

\* The invariant holds when the passes start.
LEMMA PassingStarts == Init => Passing
<1>1. SUFFICES ASSUME Init PROVE Passing
  OBVIOUS
<1>2. /\ given = children /\ warned = {} /\ pass = "repair" /\ at = [parent |-> 1, child |-> 1]
  BY <1>1 DEF Init
<1>3. PICK n \in 1..MaxChildren : \E shape \in [1..n -> Shape], owner \in Ascending(n), page \in Ascending(n) :
         /\ children = [i \in 1..n |-> Emitted(i, shape[i], owner[i], page[i])]
         /\ parents \in {before \o [p \in 1..owner[n] |-> FamilyOf(p, children)] :
                             before \in {<<>>, <<Childless>>}}
  BY <1>1 DEF Init, FamilyOf
<1>4. PICK shape \in [1..n -> Shape], owner \in Ascending(n), page \in Ascending(n) :
         /\ children = [i \in 1..n |-> Emitted(i, shape[i], owner[i], page[i])]
         /\ parents \in {before \o [p \in 1..owner[n] |-> FamilyOf(p, children)] :
                             before \in {<<>>, <<Childless>>}}
  BY <1>3
<1>5. Starting(children, n, owner, page)
  BY <1>4, ChunkersStart
<1>6. /\ n \in Nat /\ n >= 1 /\ children \in Seq(Chunk) /\ Len(children) = n
      /\ owner \in [1..n -> 1..n] /\ page \in [1..n -> 1..n]
      /\ \A i, j \in 1..n : i <= j => owner[i] <= owner[j]
  BY <1>5 DEF Starting
<1>7. \A i \in 1..n : Fresh(children[i], i, owner[i], page[i])
  BY <1>5 DEF Starting
<1>8. \A i \in 1..n : owner[i] \in 1..n /\ page[i] \in Nat
  <2>1. owner \in [1..n -> 1..n] /\ page \in [1..n -> 1..n]
    BY <1>6
  <2>2. 1..n \subseteq Nat
    BY <1>6
  <2> QED BY <2>1, <2>2
<1> DEFINE m == owner[n]
<1>9. m \in Nat /\ \A c \in ToSet(children) : c.parent \in 1..m
  <2>1. n \in 1..n
    BY <1>6
  <2>2. m \in Nat
    BY <1>8, <2>1
  <2>3. SUFFICES ASSUME NEW i \in 1..n PROVE children[i].parent \in 1..m
    <3>1. DOMAIN children = 1..n
      BY <1>6
    <3> HIDE DEF m
    <3> QED BY <2>2, <3>1 DEF ToSet
  <2>4. children[i].parent = owner[i]
    BY <1>7 DEF Fresh
  <2>5. owner[i] \in 1..n /\ owner[i] <= m
    <3>1. i <= n
      OBVIOUS
    <3>2. owner[i] <= owner[n]
      BY <1>6, <2>1, <3>1
    <3> QED BY <1>8, <3>2
  <2> QED BY <2>2, <2>4, <2>5
<1>10. Linked(parents, children)
  <2>1. PICK before \in {<<>>, <<Childless>>} : parents = before \o [p \in 1..m |-> FamilyOf(p, children)]
    BY <1>4
  <2> HIDE DEF m
  <2> QED BY <1>6, <1>9, <2>1, LinkedFirst
<1>11. ASSUME NEW c \in ToSet(children) PROVE Formed(c) /\ Len(c.id) = 1
  <2>1. PICK i \in 1..n : c = children[i]
    BY <1>6 DEF ToSet
  <2>2. Fresh(c, i, owner[i], page[i])
    BY <1>7, <2>1
  <2>3. c \in Chunk /\ c.id = <<i>> /\ c.first = page[i] /\ c.last = page[i] /\ c.blocks = {i}
    BY <2>2 DEF Fresh
  <2>4. i \in DOMAIN given /\ given[i] = c
    BY <1>2, <1>6, <2>1
  <2>5. Sourced(c)
    <3>1. page[i] \in Nat
      BY <1>8
    <3>2. \A t \in ToSet(c.text) : t.role = "body" => t.starts # "punct" /\ t.of = i
      BY <2>2 DEF Fresh
    <3>3. page[i] \in page[i]..page[i]
      BY <3>1
    <3> QED BY <2>3, <2>4, <3>2, <3>3 DEF Sourced
  <2>6. \A t \in ToSet(c.heading) : t.role = "heading"
    BY <2>2 DEF Fresh
  <2>7. Len(c.id) = 1
    BY <2>3
  <2>8. c.first <= c.last
    <3>1. page[i] \in Nat
      BY <1>8
    <3> QED BY <2>3, <3>1
  <2> QED BY <2>3, <2>4, <2>5, <2>6, <2>7, <2>8 DEF Formed
<1>12. InOrder(children)
  <2>1. SUFFICES ASSUME NEW i \in 1..n, NEW j \in 1..n, i < j PROVE Before(children[i], children[j])
    BY <1>6 DEF InOrder
  <2>2. Fresh(children[i], i, owner[i], page[i]) /\ Fresh(children[j], j, owner[j], page[j])
    BY <1>7
  <2>3. children[i].parent = owner[i] /\ children[j].parent = owner[j]
    BY <2>2 DEF Fresh
  <2>4. children[i].id[1] = i /\ children[j].id[1] = j
    BY <2>2 DEF Fresh
  <2>5. owner[i] <= owner[j]
    BY <1>6, <2>1
  <2> QED BY <2>1, <2>3, <2>4, <2>5 DEF Before
<1>13. Chunks
  BY <1>6, <1>10, <1>11, <1>12 DEF Chunks
<1>14. Types
  <2>1. Len(parents) \in Nat
    BY <1>10 DEF Linked
  <2> QED BY <1>2, <1>6, <2>1 DEF Types, Pass
<1>15. Progress
  BY <1>2, <1>11 DEF Progress
<1>16. Warned /\ TextPreserved
  BY <1>2 DEF Warned, TextPreserved
<1> QED BY <1>13, <1>14, <1>15, <1>16 DEF Passing

(***************************************************************************)
(* The theorems.                                                            *)
(***************************************************************************)
THEOREM PassingAlways == Spec => []Passing
<1>1. Init => Passing
  BY PassingStarts
<1>2. Passing /\ [Next]_vars => Passing'
  BY PassingKept, StutterKeeps
<1> QED BY <1>1, <1>2, PTL DEF Spec

\* What the invariant says of types.
LEMMA PassingTypes == Passing => TypeOK
<1>1. SUFFICES ASSUME Passing PROVE TypeOK
  OBVIOUS
<1>2. Types /\ Chunks
  BY <1>1 DEF Passing
<1>3. children \in Seq(Chunk) /\ parents \in Seq(Family) /\ Len(children) \in Nat /\ Len(parents) \in Nat
  BY <1>2 DEF Chunks, Linked
<1>4. \A c \in ToSet(children) : c.first <= c.last
  BY <1>2 DEF Chunks, Formed
<1>5. at.parent \in 1..(Len(parents) + 1) /\ at.child \in 1..(Len(children) + 1)
  BY <1>2, <1>3 DEF Types
<1> QED BY <1>2, <1>3, <1>4, <1>5 DEF TypeOK, Types, Family

\* What the invariant says of parents and children.
LEMMA PassingLinks == Passing => LinksAgree
<1>1. SUFFICES ASSUME Passing PROVE LinksAgree
  OBVIOUS
<1>2. Chunks /\ Warned
  BY <1>1 DEF Passing
<1>3. Sound(children) /\ Linked(parents, children)
  BY <1>2, ChunksAreSound
<1>4. \A p \in ToSet(parents) : p.kids = Ids(Of(p.id, children))
  BY <1>3 DEF Linked
<1>5. ParentsAreKnown
  BY <1>3 DEF Linked, ParentsAreKnown
<1>6. IsInjective(Ids(children))
  <2>1. \A x \in ToSet(children) : Sized(x)
    BY <1>3, FormedIsSized DEF Sound
  <2> QED BY <1>3, <2>1, DistinctIds DEF Sound
<1>7. KeysAreUnique
  BY <1>3, <1>6 DEF Linked, KeysAreUnique, IsInjective
<1> QED BY <1>2, <1>4, <1>5, <1>7 DEF LinksAgree, Warned

\* What the invariant says of blocks and pages.
LEMMA PassingSources == Passing => SourcesAreNamed
<1>1. SUFFICES ASSUME Passing PROVE SourcesAreNamed
  OBVIOUS
<1>2. Linked(parents, children) /\ \A c \in ToSet(children) : Formed(c)
  BY <1>1 DEF Passing, Chunks
<1> QED BY <1>2 DEF SourcesAreNamed, Linked, Formed, Sourced

\* What the invariant says of small and overlong chunks.
LEMMA PassingLeftovers == Passing => LeftoversExplained
<1>1. SUFFICES ASSUME Passing PROVE LeftoversExplained
  OBVIOUS
<1>2. Progress
  BY <1>1 DEF Passing
<1>3. pass \in {"split", "store", "stored"} => \A p \in ToSet(parents) : Alone(Of(p.id, children))
  BY <1>2 DEF Progress
<1>4. pass \in {"store", "stored"} => \A c \in ToSet(children) : Short(c)
  BY <1>2 DEF Progress
<1> QED BY <1>3, <1>4 DEF LeftoversExplained, Alone, Short

\* Types; the loop variables of the passes stay within their lists, and pages in order.
THEOREM TypesAlways == Spec => []TypeOK
BY PassingAlways, PassingTypes, PTL

\* No pass loses, repeats or reorders the text of the document or the media, for any package.
THEOREM TextPreservedAlways == Spec => []TextPreserved
<1>1. Passing => TextPreserved
  BY DEF Passing
<1> QED BY <1>1, PassingAlways, PTL

\* After every step parents and children agree, ids are unique, and
\* build_chunks_for_ingest does not raise.
THEOREM LinksAgreeAlways == Spec => []LinksAgree
BY PassingAlways, PassingLinks, PTL

\* The blocks and the pages of a chunk always cover the text it holds.
THEOREM SourcesAreNamedAlways == Spec => []SourcesAreNamed
BY PassingAlways, PassingSources, PTL

\* What the passes leave too small or too large has a reason, whatever the sizes and shapes.
THEOREM LeftoversExplainedAlways == Spec => []LeftoversExplained
BY PassingAlways, PassingLeftovers, PTL

\* Each iteration of each pass leaves less to do, so all loops end.
THEOREM LoopsAlwaysEnd == Spec => LoopsEnd
<1>1. Passing /\ [Next]_vars => [Decreases]_vars
  BY PassingKept
<1>2. Spec => [][Decreases]_vars
  BY <1>1, PassingAlways, PTL DEF Spec
<1> QED BY <1>2 DEF LoopsEnd, Decreases
===============================================================================
