---------------------------- MODULE RetrievalProofs ----------------------------
(***************************************************************************)
(* The query log is a record, and responses agree with it; what is ranked   *)
(* is visible to who asks, references name chunks of the context, and the   *)
(* context is accounted for: for any number of questions and request ids,   *)
(* whatever is searched, found, assembled and answered.                     *)
(***************************************************************************)
EXTENDS RetrievalInvariant, ListProofs

\* At first no call has begun and there is no row.
LEMMA KeptInit == Init => Kept
  BY NoneIsNothing DEF Init, Kept, RowsAreComplete, CallsGoOn, KeyIsHeld, RowIsOwn,
     ResponsesAgreeWithLog, Location, Response

\* Every step keeps what a call knows of its row: only CommitLog and UpdateAnswer
\* change the log, the first where there is no row, the second its own row.
LEMMA KeptStep ==
  ASSUME Kept, [Next]_vars
  PROVE  Kept'
<1> USE NoneIsNothing
    DEF Kept, RowsAreComplete, CallsGoOn, KeyIsHeld, RowIsOwn, ResponsesAgreeWithLog, Own,
        Location, Response, Moves, Finishes, Leaves, Raises, Responds, Without, NoRow,
        documents, ask, search
<1>1. ASSUME NEW c \in Call, Begin(c) PROVE Kept'
  BY <1>1 DEF Begin
<1>2. ASSUME NEW c \in Call, RejectFilters(c) PROVE Kept'
  BY <1>2 DEF RejectFilters
<1>3. ASSUME NEW c \in Call, RejectQuestion(c) PROVE Kept'
  BY <1>3 DEF RejectQuestion
<1>4. ASSUME NEW c \in Call, EmbeddingFails(c) PROVE Kept'
  BY <1>4 DEF EmbeddingFails
<1>5. ASSUME NEW c \in Call, Retry(c) PROVE Kept'
  BY <1>5 DEF Retry
<1>6. ASSUME NEW c \in Call, Search(c) PROVE Kept'
  BY <1>6 DEF Search
<1>7. ASSUME NEW c \in Call, ReadChunks(c) PROVE Kept'
  BY <1>7 DEF ReadChunks
<1>8. ASSUME NEW c \in Call, Rank(c) PROVE Kept'
  BY <1>8 DEF Rank
<1>9. ASSUME NEW c \in Call, Refuse(c) PROVE Kept'
  BY <1>9 DEF Refuse
<1>10. ASSUME NEW c \in Call, ReadParents(c) PROVE Kept'
  BY <1>10 DEF ReadParents
<1>11. ASSUME NEW c \in Call, Assemble(c) PROVE Kept'
  BY <1>11 DEF Assemble
<1>12. ASSUME NEW c \in Call, WriteLog(c) PROVE Kept'
  BY <1>12 DEF WriteLog, KeyFree
<1>13. ASSUME NEW c \in Call, CommitLog(c) PROVE Kept'
  BY <1>13 DEF CommitLog
<1>14. ASSUME NEW c \in Call, LogConflicts(c) PROVE Kept'
  BY <1>14 DEF LogConflicts, KeyFree
<1>15. ASSUME NEW c \in Call, Break(c) PROVE Kept'
  BY <1>15 DEF Break
<1>16. ASSUME NEW c \in Call, Respond(c) PROVE Kept'
  BY <1>16 DEF Respond
<1>17. ASSUME NEW c \in Call, AnswerUnavailable(c) PROVE Kept'
  BY <1>17 DEF AnswerUnavailable
<1>18. ASSUME NEW c \in Call, AnswerRefused(c) PROVE Kept'
  BY <1>18 DEF AnswerRefused
<1>19. ASSUME NEW c \in Call, Generate(c) PROVE Kept'
  BY <1>19 DEF Generate
<1>20. ASSUME NEW c \in Call, UpdateAnswer(c) PROVE Kept'
  BY <1>20 DEF UpdateAnswer
<1>21. ASSUME NEW c \in Call, UpdateRaises(c) PROVE Kept'
  BY <1>21 DEF UpdateRaises
<1>22. ASSUME NEW d \in Document, Publish(d) PROVE Kept'
  BY <1>22 DEF Publish
<1>23. ASSUME NEW d \in Document, Retire(d) PROVE Kept'
  BY <1>23 DEF Retire
<1>24. ASSUME NEW d \in Document, NEW l \in ToSet(Labels[d]), Relabel(d, l) PROVE Kept'
  BY <1>24 DEF Relabel
<1>25. CASE UNCHANGED vars
  BY <1>25 DEF vars
<1> QED
  BY <1>1, <1>2, <1>3, <1>4, <1>5, <1>6, <1>7, <1>8, <1>9, <1>10, <1>11, <1>12, <1>13,
     <1>14, <1>15, <1>16, <1>17, <1>18, <1>19, <1>20, <1>21, <1>22, <1>23, <1>24, <1>25
     DEF Next, Proceed
-------------------------------------------------------------------------------
\* Responses agree with the query log (ResponsesAgreeWithLog): a caller is told only
\* what the row of its own request says.
THEOREM KeptAlways == Spec => []Kept
  BY KeptInit, KeptStep, PTL DEF Spec

\* The response and the log row of a call always agree.
THEOREM ResponsesAgreeAlways == Spec => []ResponsesAgreeWithLog
<1>1. Kept => ResponsesAgreeWithLog
  BY DEF Kept
<1> QED
  BY <1>1, KeptAlways, PTL

\* A row changes only in the step that gives its own caller the answer.
LEMMA LogStep ==
  ASSUME Kept, [Next]_vars, NEW i \in RequestId, log[i] # NoRow, log'[i] # log[i]
  PROVE  /\ log[i].status = "retrieved"
         /\ log'[i] = [log[i] EXCEPT !.status = "success"]
         /\ response[log[i].by] = "none" /\ response'[log[i].by] = "success"
<1> USE DEF Kept, RowsAreComplete, CallsGoOn, KeyIsHeld, RowIsOwn, Own
<1> DEFINE Goal == /\ log[i].status = "retrieved"
                   /\ log'[i] = [log[i] EXCEPT !.status = "success"]
                   /\ response[log[i].by] = "none" /\ response'[log[i].by] = "success"
<1>1. ASSUME NEW c \in Call, CommitLog(c) PROVE Goal
  \* It writes where no row is.
  <2>1. log[id[c]] = NoRow /\ log' = [log EXCEPT ![id[c]] =
          [status |-> result[c].status, references |-> result[c].references, by |-> c]]
    BY <1>1 DEF CommitLog, Moves
  <2> QED
    BY <2>1
<1>2. ASSUME NEW c \in Call, UpdateAnswer(c) PROVE Goal
  <2>1. /\ pc[c] = "generated" /\ log[id[c]].status = "retrieved"
        /\ log' = [log EXCEPT ![id[c]].status = "success"]
        /\ response' = [response EXCEPT ![c] = "success"]
    BY <1>2 DEF UpdateAnswer, Moves, Responds
  <2>2. i = id[c] /\ log[i].by = c
    BY <2>1
  <2>3. log'[i] = [log[i] EXCEPT !.status = "success"]
    BY <2>1, <2>2
  <2> QED
    BY <2>1, <2>2, <2>3
<1>3. log' # log
  OBVIOUS
<1> QED
  BY <1>1, <1>2, <1>3
     DEF Next, Proceed, vars, documents, ask, search, Publish, Retire, Relabel, Begin,
         RejectFilters, RejectQuestion, EmbeddingFails, Retry, Search, ReadChunks, Rank,
         Refuse, ReadParents, Assemble, WriteLog, LogConflicts, Break, Respond,
         AnswerUnavailable, AnswerRefused, Generate, UpdateRaises

\* The query log is a record (LogIsFinal).
THEOREM LogIsFinalAlways == Spec => LogIsFinal
<1>1. ASSUME Kept, [Next]_vars
      PROVE  [\A i \in RequestId : log[i] # NoRow /\ log'[i] # log[i] =>
                /\ log[i].status = "retrieved"
                /\ log'[i] = [log[i] EXCEPT !.status = "success"]
                /\ response[log[i].by] = "none" /\ response'[log[i].by] = "success"]_vars
  BY <1>1, LogStep
<1> QED
  BY <1>1, KeptAlways, PTL DEF Spec, LogIsFinal

-------------------------------------------------------------------------------
\* The candidates of the parents: in the order of the ranking, each the best of its
\* parent.
ExpandedFrom(p, best, ranking) ==
    /\ Places(p, best, ranking)
    /\ \A n \in 1..Len(best) : Represents(ranking, p[n])

\* expand_context keeps the order of the ranking and adds no chunk.
LEMMA ExpandedSound ==
  ASSUME NEW ranking \in Seq(Chunk)
  PROVE  /\ Expand(ranking) \in Seq(Chunk)
         /\ Len(Expand(ranking)) <= Len(ranking)
         /\ \E p : ExpandedFrom(p, Expand(ranking), ranking)
<1> DEFINE V == Seq(Chunk)
           N == Len(ranking)
           none == <<>>
           step == [i \in DOMAIN ranking |-> [best \in Seq(Chunk) |->
                      IF Represents(ranking, i) THEN Append(best, ranking[i]) ELSE best]]
           Good(n, best) ==
             /\ Len(best) <= n
             /\ \E p : /\ ExpandedFrom(p, best, ranking)
                       /\ \A m \in 1..Len(best) : p[m] <= n
           P == [n \in 0..N |-> {best \in V : Good(n, best)}]
<1>1. N \in Nat /\ DOMAIN ranking = 1..N /\ none \in V
  OBVIOUS
<1>2. ASSUME NEW i \in 1..N, NEW best \in V
      PROVE  /\ step[i][best] = IF Represents(ranking, i) THEN Append(best, ranking[i]) ELSE best
             /\ step[i][best] \in V
  <2>1. step[i] = [t \in V |-> IF Represents(ranking, i) THEN Append(t, ranking[i]) ELSE t]
    BY <1>1
  <2>2. Append(best, ranking[i]) \in V
    OBVIOUS
  <2> HIDE DEF step, V
  <2> QED BY <2>1, <2>2
<1>3. Steps(step, N, V)
  <2>1. \A i \in 1..N : step[i] = [t \in V |-> step[i][t]]
    BY <1>1
  <2>2. step = [i \in 1..N |-> step[i]]
    BY <1>1
  <2> HIDE DEF step, V, N
  <2>3. \A i \in 1..N : step[i] \in [V -> V]
    BY <1>2, <2>1
  <2> QED BY <1>1, <2>2, <2>3 DEF Steps
<1>4. none \in P[0]
  <2>1. Places(none, none, ranking)
    BY DEF Places
  <2>2. 1..Len(none) = {} /\ Len(none) = 0
    OBVIOUS
  <2> HIDE DEF none
  <2>3. Good(0, none)
    BY <2>1, <2>2 DEF ExpandedFrom
  <2> QED BY <1>1, <2>3
<1>5. ASSUME NEW n \in 1..N, NEW best \in V, best \in P[n - 1]
      PROVE  step[n][best] \in P[n]
  <2>1. n - 1 \in 0..N /\ n \in 0..N
    BY <1>1
  <2>2. PICK p : /\ ExpandedFrom(p, best, ranking) /\ Len(best) <= n - 1
                 /\ \A m \in 1..Len(best) : p[m] <= n - 1
    BY <1>5, <2>1
  <2>3. Len(best) \in Nat /\ p \in [1..Len(best) -> 1..N]
    BY <2>2 DEF ExpandedFrom, Places
  <2>4. CASE ~Represents(ranking, n)
    <3>1. step[n][best] = best
      <4> HIDE DEF step, V, N
      <4> QED BY <1>2, <2>4
    <3>2. \A m \in 1..Len(best) : p[m] <= n
      BY <2>2, <2>3
    <3>3. Good(n, best)
      BY <2>2, <2>3, <3>2
    <3> HIDE DEF step, Good, V
    <3> QED BY <2>1, <3>1, <3>3
  <2>5. CASE Represents(ranking, n)
    <3> DEFINE more == Append(best, ranking[n])
    <3>1. step[n][best] = more
      <4> HIDE DEF step, V, N
      <4> QED BY <1>2, <2>5
    <3>2. \A m \in 1..Len(best) : p[m] < n
      BY <2>2, <2>3
    <3>3. PICK q : /\ Places(q, more, ranking) /\ q[Len(best) + 1] = n
                   /\ \A m \in 1..Len(best) : q[m] = p[m]
      BY <2>2, <3>2, PlacesExtend DEF ExpandedFrom
    <3>4. Len(more) = Len(best) + 1
      OBVIOUS
    <3> HIDE DEF more
    <3>5. \A m \in 1..Len(more) : m \in 1..Len(best) \/ m = Len(best) + 1
      BY <2>3, <3>4
    <3>6. \A m \in 1..Len(more) : q[m] <= n /\ Represents(ranking, q[m])
      BY <2>2, <2>3, <2>5, <3>2, <3>3, <3>5 DEF ExpandedFrom
    <3>7. Good(n, more)
      BY <2>2, <2>3, <3>3, <3>4, <3>6 DEF ExpandedFrom
    <3>8. more \in V
      BY DEF more
    <3> HIDE DEF step, Good, V
    <3> QED BY <2>1, <3>1, <3>7, <3>8
  <2> QED BY <2>4, <2>5
<1>6. Folded(none, step) \in V \cap P[N]
  <2> HIDE DEF none, step, V, N, P
  <2> QED BY <1>1, <1>3, <1>4, <1>5, FoldedInvariant
<1>7. Expand(ranking) = Folded(none, step)
  BY DEF Expand
<1> HIDE DEF step, none
<1>8. Good(N, Expand(ranking)) /\ Expand(ranking) \in V
  BY <1>1, <1>6, <1>7
<1> QED BY <1>8

\* A list without some of its elements repeats none if the list repeats none.
LEMMA PlacesInjective ==
  ASSUME NEW s, NEW t, NEW p, Len(t) \in Nat, DOMAIN t = 1..Len(t), DOMAIN s = 1..Len(s),
         Places(p, t, s), IsInjective(s)
  PROVE  IsInjective(t)
<1>1. ASSUME NEW m \in 1..Len(t), NEW n \in 1..Len(t), t[m] = t[n] PROVE m = n
  <2>1. p[m] \in DOMAIN s /\ p[n] \in DOMAIN s /\ s[p[m]] = s[p[n]]
    BY <1>1 DEF Places
  <2>2. p[m] = p[n]
    BY <2>1 DEF IsInjective
  <2>3. p[m] \in 1..Len(s) /\ ~(m < n) /\ ~(n < m)
    BY <2>2 DEF Places
  <2> QED BY <2>3
<1> QED BY <1>1 DEF IsInjective

\* A chunk with the parts of its parent has at least its own tokens.
LEMMA FullTokens ==
  ASSUME NEW k \in Chunk, NEW parents
  PROVE  Full(k, parents) \in Nat /\ ChunkTokens[k] \in Nat /\ Full(k, parents) >= ChunkTokens[k]
<1>1. ChunkTokens[k] \in Nat /\ AroundTokens[k] \in Nat
  BY TokensAreNumbers
<1> QED BY <1>1 DEF Full

\* One more block is so many tokens more.
LEMMA SentAppend ==
  ASSUME NEW chunks \in Seq(Chunk), NEW k \in Chunk, NEW parents
  PROVE  /\ SentTokens(chunks, parents) \in Nat
         /\ SentTokens(Append(chunks, k), parents) = SentTokens(chunks, parents) + Full(k, parents)
<1> DEFINE W == [Nat -> Nat]
           h == [c \in Chunk |-> [sum \in Nat |-> sum + Full(c, parents)]]
           t == Append(chunks, k)
           f == [n \in DOMAIN chunks |-> h[chunks[n]]]
<1>1. ASSUME NEW c \in Chunk
      PROVE  h[c] \in W /\ h[c] = [sum \in Nat |-> sum + Full(c, parents)]
  BY FullTokens
<1>2. h \in [Chunk -> W]
  BY <1>1
<1>3. \A n \in DOMAIN chunks : chunks[n] \in Chunk
  OBVIOUS
<1>4. t \in Seq(Chunk) /\ \A n \in DOMAIN t : t[n] \in Chunk
  OBVIOUS
<1>5. SentTokens(chunks, parents) = Folded(0, f)
  <2>1. f = [n \in DOMAIN chunks |-> [sum \in Nat |-> sum + Full(chunks[n], parents)]]
    BY <1>3
  <2> QED BY <2>1 DEF SentTokens
<1>6. SentTokens(t, parents) = Folded(0, [n \in DOMAIN t |-> h[t[n]]])
  <2>1. [n \in DOMAIN t |-> h[t[n]]] =
          [n \in DOMAIN t |-> [sum \in Nat |-> sum + Full(t[n], parents)]]
    <3> HIDE DEF t
    <3> QED BY <1>4
  <2> QED BY <2>1 DEF SentTokens
<1>7. f \in Seq(W) /\ [n \in DOMAIN t |-> h[t[n]]] = Append(f, h[k])
  <2> HIDE DEF h, W
  <2> QED BY <1>2, MapAppend
<1>8. Folded(0, f) \in Nat /\ Folded(0, Append(f, h[k])) = h[k][Folded(0, f)]
  <2> DEFINE V == Nat
             zero == 0
             last == h[k]
  <2>1. last \in [V -> V] /\ f \in Seq([V -> V]) /\ zero \in V
    BY <1>1, <1>7
  <2> HIDE DEF h, f, V, zero, last
  <2>2. Folded(zero, f) \in V /\ Folded(zero, Append(f, last)) = last[Folded(zero, f)]
    BY <2>1, FoldedAppend
  <2> QED BY <2>2 DEF V, zero, last
<1>9. h[k][Folded(0, f)] = Folded(0, f) + Full(k, parents)
  <2> HIDE DEF f
  <2> QED BY <1>8
<1> HIDE DEF h, f
<1> QED BY <1>5, <1>6, <1>7, <1>8, <1>9

\* No chunk, no tokens.
LEMMA SentNothing == ASSUME NEW parents PROVE SentTokens(<<>>, parents) = 0
  BY FoldedEmpty DEF SentTokens

\* After the first n candidates: what the context has is counted, within the budget and
\* for no more than what is sent; what it does not have did not fit.
Accounted(context, candidates, n, parents) ==
    /\ context.tokens <= Budget
    /\ context.tokens <= SentTokens(context.chunks, parents)
    /\ \A m \in 1..n : candidates[m] \notin ToSet(context.chunks) =>
           context.tokens + ChunkTokens[candidates[m]] > Budget
    /\ context.truncated <=>
           \/ \E m \in 1..n : candidates[m] \notin ToSet(context.chunks)
           \/ context.tokens < SentTokens(context.chunks, parents)

\* The chunks of the context are among the first n candidates, in their order.
Within(context, candidates, n) ==
    /\ Len(context.chunks) <= n
    /\ \E p : /\ Places(p, context.chunks, candidates)
              /\ \A m \in 1..Len(context.chunks) : p[m] <= n

\* The elements of a sequence and one more.
LEMMA ToSetAppend ==
  ASSUME NEW T, NEW s \in Seq(T), NEW x \in T
  PROVE  ToSet(Append(s, x)) = ToSet(s) \cup {x}
<1>1. \A n \in 1..(Len(s) + 1) : n \in 1..Len(s) \/ n = Len(s) + 1
  OBVIOUS
<1>2. \A n \in 1..Len(s) : n \in 1..(Len(s) + 1) /\ Append(s, x)[n] = s[n]
  OBVIOUS
<1>3. Len(s) + 1 \in 1..(Len(s) + 1) /\ Append(s, x)[Len(s) + 1] = x
  OBVIOUS
<1>4. DOMAIN Append(s, x) = 1..(Len(s) + 1) /\ DOMAIN s = 1..Len(s)
  OBVIOUS
<1> DEFINE t == Append(s, x)
<1> HIDE DEF t
<1> QED BY <1>1, <1>2, <1>3, <1>4 DEF ToSet, t

\* A context that is marked as truncated.
LEMMA TruncatedContext ==
  ASSUME NEW context \in Context
  PROVE  [context EXCEPT !.truncated = TRUE] =
           [chunks |-> context.chunks, tokens |-> context.tokens, truncated |-> TRUE]
<1> DEFINE A == Seq(Chunk)
           B == Nat
<1> HIDE DEF A, B
<1>1. \A c \in [chunks : A, tokens : B, truncated : BOOLEAN] :
        c = [chunks |-> c.chunks, tokens |-> c.tokens, truncated |-> c.truncated]
  OBVIOUS
<1>2. context \in [chunks : A, tokens : B, truncated : BOOLEAN]
  BY DEF Context, A, B
<1> DEFINE cut == [context EXCEPT !.truncated = TRUE]
<1>3. /\ cut \in [chunks : A, tokens : B, truncated : BOOLEAN]
      /\ cut.chunks = context.chunks /\ cut.tokens = context.tokens /\ cut.truncated = TRUE
  BY <1>2
<1> HIDE DEF cut
<1>4. cut = [chunks |-> context.chunks, tokens |-> context.tokens, truncated |-> TRUE]
  BY <1>1, <1>3
<1> QED BY <1>4 DEF cut

\* One more candidate.
LEMMA AddSound ==
  ASSUME NEW candidates \in Seq(Chunk), IsInjective(candidates), NEW parents,
         NEW n \in 1..Len(candidates), NEW context \in Context,
         Accounted(context, candidates, n - 1, parents), Within(context, candidates, n - 1)
  PROVE  LET more == Add(context, candidates[n], parents)
         IN  /\ more \in Context
             /\ Accounted(more, candidates, n, parents)
             /\ Within(more, candidates, n)
<1> DEFINE k == candidates[n]
           chunks == context.chunks
           tokens == context.tokens
           longer == Append(chunks, k)
           more == Add(context, k, parents)
           sent == SentTokens(chunks, parents)
<1>1. /\ k \in Chunk /\ chunks \in Seq(Chunk) /\ tokens \in Nat /\ context.truncated \in BOOLEAN
      /\ context = [chunks |-> chunks, tokens |-> tokens, truncated |-> context.truncated]
  BY DEF Context
<1>2. Full(k, parents) \in Nat /\ ChunkTokens[k] \in Nat /\ Full(k, parents) >= ChunkTokens[k]
  BY <1>1, FullTokens
<1>3. sent \in Nat /\ SentTokens(longer, parents) = sent + Full(k, parents)
  BY <1>1, SentAppend
<1>4. ToSet(longer) = ToSet(chunks) \cup {k} /\ longer \in Seq(Chunk) /\ Len(longer) = Len(chunks) + 1
  BY <1>1, ToSetAppend
<1>5. PICK p : Places(p, chunks, candidates) /\ \A m \in 1..Len(chunks) : p[m] <= n - 1
  BY DEF Within
<1>6. Len(chunks) \in Nat /\ Len(chunks) <= n - 1
  BY <1>1 DEF Within
<1>7. \A m \in 1..Len(chunks) : p[m] \in 1..Len(candidates) /\ chunks[m] = candidates[p[m]]
  BY <1>5 DEF Places
<1>8. \A m \in 1..(n - 1) : m \in 1..Len(candidates) /\ candidates[m] # k
  BY DEF IsInjective
<1>9. k \notin ToSet(chunks)
  <2>1. \A m \in 1..Len(chunks) : p[m] \in 1..(n - 1)
    BY <1>5, <1>7
  <2>2. ToSet(chunks) = {chunks[m] : m \in 1..Len(chunks)}
    BY <1>1 DEF ToSet
  <2> HIDE DEF k
  <2> QED BY <1>7, <1>8, <2>1, <2>2
<1>10. \A m \in 1..n : m \in 1..(n - 1) \/ m = n
  OBVIOUS
<1>11. \A m \in 1..(n - 1) : m \in 1..n
  OBVIOUS
<1>12. /\ tokens <= Budget /\ tokens <= sent
       /\ \A m \in 1..(n - 1) : candidates[m] \notin ToSet(chunks) =>
            tokens + ChunkTokens[candidates[m]] > Budget
       /\ context.truncated <=> \/ \E m \in 1..(n - 1) : candidates[m] \notin ToSet(chunks)
                                \/ tokens < sent
  BY DEF Accounted
<1>13. Within(context, candidates, n)
  <2>1. \A m \in 1..Len(chunks) : p[m] <= n
    BY <1>5, <1>7
  <2> QED BY <1>5, <1>6, <2>1 DEF Within
<1>14. \A c : c.chunks = longer => Within(c, candidates, n)
  <2>1. \A m \in 1..Len(chunks) : p[m] < n
    BY <1>5, <1>7
  <2>2. PICK q : /\ Places(q, longer, candidates) /\ q[Len(chunks) + 1] = n
                 /\ \A m \in 1..Len(chunks) : q[m] = p[m]
    BY <1>1, <1>5, <2>1, PlacesExtend
  <2> HIDE DEF longer, chunks
  <2>3. \A m \in 1..(Len(chunks) + 1) : m \in 1..Len(chunks) \/ m = Len(chunks) + 1
    BY <1>6
  <2>4. \A m \in 1..Len(longer) : q[m] <= n
    <3>1. \A m \in 1..Len(chunks) : q[m] <= n
      <4>1. \A m \in 1..Len(chunks) : p[m] \in Nat
        BY <1>7
      <4> QED BY <2>1, <2>2, <4>1
    <3> QED BY <1>4, <2>2, <2>3, <3>1
  <2> QED BY <1>4, <1>6, <2>2, <2>4 DEF Within
<1>15. Budget \in Nat /\ \A m \in 1..(n - 1) : ChunkTokens[candidates[m]] \in Nat
  BY <1>8, TokensAreNumbers
<1>16. k = candidates[n] /\ n \in 1..n
  OBVIOUS
<1>17. CASE tokens + Full(k, parents) <= Budget
  <2>1. more = [chunks |-> longer, tokens |-> tokens + Full(k, parents),
                truncated |-> context.truncated]
    BY <1>17 DEF Add, With
  <2> HIDE DEF more, longer, tokens, chunks, k, sent
  <2>2. more \in Context
    BY <1>1, <1>2, <1>4, <2>1 DEF Context
  <2>3. /\ more.chunks = longer /\ more.tokens = tokens + Full(k, parents)
        /\ more.truncated = context.truncated
    BY <2>1
  <2>4. /\ more.tokens <= Budget /\ more.tokens <= SentTokens(longer, parents)
        /\ more.tokens < SentTokens(longer, parents) <=> tokens < sent
    BY <1>1, <1>2, <1>3, <1>12, <1>17, <2>3
  <2>5. \A m \in 1..n : candidates[m] \notin ToSet(longer) =>
           m \in 1..(n - 1) /\ candidates[m] \notin ToSet(chunks)
    BY <1>4, <1>10, <1>16
  <2>6. \A m \in 1..(n - 1) : candidates[m] \notin ToSet(chunks) => candidates[m] \notin ToSet(longer)
    BY <1>4, <1>8
  <2>7. \A m \in 1..n : candidates[m] \notin ToSet(longer) =>
           more.tokens + ChunkTokens[candidates[m]] > Budget
    BY <1>1, <1>2, <1>12, <1>15, <2>3, <2>5
  <2>8. Accounted(more, candidates, n, parents)
    BY <1>11, <1>12, <2>3, <2>4, <2>5, <2>6, <2>7 DEF Accounted
  <2> QED BY <1>14, <2>2, <2>3, <2>8 DEF more, k
<1>18. CASE tokens + Full(k, parents) > Budget /\ tokens + ChunkTokens[k] <= Budget
  <2>1. more = [chunks |-> longer, tokens |-> tokens + ChunkTokens[k], truncated |-> TRUE]
    BY <1>1, <1>2, <1>15, <1>18 DEF Add, With
  <2> HIDE DEF more, longer, tokens, chunks, k, sent
  <2>2. more \in Context
    BY <1>1, <1>2, <1>4, <2>1 DEF Context
  <2>3. more.chunks = longer /\ more.tokens = tokens + ChunkTokens[k] /\ more.truncated
    BY <2>1
  <2>4. more.tokens <= Budget /\ more.tokens < SentTokens(longer, parents)
    BY <1>1, <1>2, <1>3, <1>12, <1>15, <1>18, <2>3
  <2>5. \A m \in 1..n : candidates[m] \notin ToSet(longer) =>
           m \in 1..(n - 1) /\ candidates[m] \notin ToSet(chunks)
    BY <1>4, <1>10, <1>16
  <2>6. \A m \in 1..n : candidates[m] \notin ToSet(longer) =>
           more.tokens + ChunkTokens[candidates[m]] > Budget
    BY <1>1, <1>2, <1>12, <1>15, <2>3, <2>5
  <2>7. more.tokens <= SentTokens(longer, parents)
    BY <1>1, <1>2, <1>3, <2>3, <2>4
  <2>8. Accounted(more, candidates, n, parents)
    BY <2>3, <2>4, <2>6, <2>7 DEF Accounted
  <2> QED BY <1>14, <2>2, <2>3, <2>8 DEF more, k
<1>19. CASE tokens + Full(k, parents) > Budget /\ tokens + ChunkTokens[k] > Budget
  <2>1. more = [context EXCEPT !.truncated = TRUE]
    BY <1>1, <1>2, <1>15, <1>19 DEF Add
  <2>2. more = [chunks |-> chunks, tokens |-> tokens, truncated |-> TRUE]
    <3> HIDE DEF more, chunks, tokens
    <3> QED BY <1>1, <2>1, TruncatedContext
  <2> HIDE DEF more, longer, tokens, chunks, k, sent
  <2>3. more \in Context
    BY <1>1, <2>2 DEF Context
  <2>4. more.chunks = chunks /\ more.tokens = tokens /\ more.truncated
    BY <2>2
  <2>5. \A m \in 1..n : candidates[m] \notin ToSet(chunks) =>
           more.tokens + ChunkTokens[candidates[m]] > Budget
    BY <1>10, <1>12, <1>16, <1>19, <2>4
  <2>6. \E m \in 1..n : candidates[m] \notin ToSet(chunks)
    BY <1>9, <1>16
  <2>7. Accounted(more, candidates, n, parents)
    BY <1>12, <2>4, <2>5, <2>6 DEF Accounted, sent
  <2>8. Within(more, candidates, n)
    BY <1>13, <2>4 DEF Within, chunks
  <2> QED BY <2>3, <2>7, <2>8 DEF more, k
<1>20. tokens + Full(k, parents) \in Nat /\ tokens + ChunkTokens[k] \in Nat
  BY <1>1, <1>2
<1> QED BY <1>15, <1>17, <1>18, <1>19, <1>20

\* assemble_context, over all candidates.
LEMMA AssembledSound ==
  ASSUME NEW candidates \in Seq(Chunk), IsInjective(candidates), NEW parents
  PROVE  LET context == AssembleContext(candidates, parents)
         IN  /\ context \in Context
             /\ Accounted(context, candidates, Len(candidates), parents)
             /\ Within(context, candidates, Len(candidates))
<1> DEFINE N == Len(candidates)
           step == [n \in DOMAIN candidates |->
                      [context \in Context |-> Add(context, candidates[n], parents)]]
           Good(n, context) == /\ Accounted(context, candidates, n, parents)
                               /\ Within(context, candidates, n)
           P == [n \in 0..N |-> {context \in Context : Good(n, context)}]
<1>1. N \in Nat /\ DOMAIN candidates = 1..N /\ \A n \in 1..N : candidates[n] \in Chunk
  OBVIOUS
<1>2. ASSUME NEW k \in Chunk, NEW context \in Context PROVE Add(context, k, parents) \in Context
  <2>1. /\ context.chunks \in Seq(Chunk) /\ context.tokens \in Nat
        /\ context.truncated \in BOOLEAN
        /\ context = [chunks |-> context.chunks, tokens |-> context.tokens,
                      truncated |-> context.truncated]
    BY DEF Context
  <2>2. Append(context.chunks, k) \in Seq(Chunk)
    BY <2>1
  <2>3. \A x \in Nat : context.tokens + x \in Nat
    BY <2>1
  <2>4. [context EXCEPT !.truncated = TRUE] =
          [chunks |-> context.chunks, tokens |-> context.tokens, truncated |-> TRUE]
    BY <2>1, TruncatedContext
  <2>5. Full(k, parents) \in Nat /\ ChunkTokens[k] \in Nat
    BY FullTokens
  <2> QED BY <2>1, <2>2, <2>3, <2>4, <2>5 DEF Add, With, Context
<1>3. ASSUME NEW n \in 1..N, NEW context \in Context
      PROVE  step[n][context] = Add(context, candidates[n], parents) /\ step[n][context] \in Context
  <2>1. step[n] = [c \in Context |-> Add(c, candidates[n], parents)]
    BY <1>1
  <2> HIDE DEF step, N
  <2> QED BY <1>1, <1>2, <2>1
<1>4. Steps(step, N, Context)
  <2>1. \A n \in 1..N : step[n] = [c \in Context |-> step[n][c]]
    BY <1>1
  <2>2. step = [n \in 1..N |-> step[n]]
    BY <1>1
  <2> HIDE DEF step, N
  <2>3. \A n \in 1..N : step[n] \in [Context -> Context]
    BY <1>3, <2>1
  <2> QED BY <1>1, <2>2, <2>3 DEF Steps
<1>5. Empty \in Context /\ Empty \in P[0]
  <2> DEFINE none == <<>>
  <2>1. none \in Seq(Chunk) /\ Len(none) = 0 /\ ToSet(none) = {} /\ 1..0 = {} /\ 1..Len(none) = {}
    BY DEF ToSet
  <2>2. Empty = [chunks |-> none, tokens |-> 0, truncated |-> FALSE]
    BY DEF Empty
  <2>3. SentTokens(none, parents) = 0
    BY SentNothing
  <2>4. Places(none, none, candidates)
    BY DEF Places
  <2> HIDE DEF none
  <2>5. Empty \in Context /\ Empty.chunks = none /\ Empty.tokens = 0 /\ Empty.truncated = FALSE
    BY <2>1, <2>2 DEF Context
  <2>6. Accounted(Empty, candidates, 0, parents)
    BY <2>1, <2>3, <2>5, TokensAreNumbers DEF Accounted
  <2>7. Within(Empty, candidates, 0)
    BY <2>1, <2>4, <2>5 DEF Within
  <2> QED BY <1>1, <2>5, <2>6, <2>7
<1>6. ASSUME NEW n \in 1..N, NEW context \in Context, context \in P[n - 1]
      PROVE  step[n][context] \in P[n]
  <2>1. n - 1 \in 0..N /\ n \in 0..N
    BY <1>1
  <2>2. Good(n - 1, context)
    BY <1>6, <2>1
  <2>3. Good(n, Add(context, candidates[n], parents))
    BY <2>2, AddSound
  <2> HIDE DEF step, Good
  <2> QED BY <1>3, <2>1, <2>3
<1>7. Folded(Empty, step) \in Context \cap P[N]
  <2> HIDE DEF step, N, P
  <2> QED BY <1>4, <1>5, <1>6, FoldedInvariant
<1>8. AssembleContext(candidates, parents) = Folded(Empty, step)
  BY DEF AssembleContext
<1> HIDE DEF step, N, Good
<1>9. N \in 0..N
  BY <1>1
<1>10. AssembleContext(candidates, parents) \in Context
  BY <1>7, <1>8
<1>11. Good(N, AssembleContext(candidates, parents))
  BY <1>7, <1>8, <1>9
<1> QED BY <1>10, <1>11 DEF N, Good

\* The context of a ranking: its references are of the ranking, each the best of its
\* parent, in the order of the ranking.
LEMMA ContextSound ==
  ASSUME NEW ranking \in Seq(Chunk), IsInjective(ranking), NEW parents
  PROVE  LET candidates == Expand(ranking)
             context == AssembleContext(candidates, parents)
         IN  /\ context \in Context
             /\ Accounted(context, candidates, Len(candidates), parents)
             /\ Len(context.chunks) <= Len(ranking)
             /\ \E r : ExpandedFrom(r, context.chunks, ranking)
<1> DEFINE candidates == Expand(ranking)
           context == AssembleContext(candidates, parents)
<1>1. candidates \in Seq(Chunk) /\ Len(candidates) <= Len(ranking)
  BY ExpandedSound
<1>2. PICK p : ExpandedFrom(p, candidates, ranking)
  BY ExpandedSound
<1> HIDE DEF candidates
<1>3. IsInjective(candidates)
  <2>1. Places(p, candidates, ranking)
    BY <1>2 DEF ExpandedFrom
  <2>2. Len(candidates) \in Nat /\ DOMAIN candidates = 1..Len(candidates) /\ DOMAIN ranking = 1..Len(ranking)
    BY <1>1
  <2> QED BY <2>1, <2>2, PlacesInjective
<1>4. /\ context \in Context
      /\ Accounted(context, candidates, Len(candidates), parents)
      /\ Within(context, candidates, Len(candidates))
  BY <1>1, <1>3, AssembledSound
<1> HIDE DEF context
<1>5. PICK q : Places(q, context.chunks, candidates)
  BY <1>4 DEF Within
<1> DEFINE chunks == context.chunks
           r == [n \in 1..Len(chunks) |-> p[q[n]]]
<1>6. chunks \in Seq(Chunk) /\ Len(chunks) \in Nat /\ Len(chunks) <= Len(candidates)
  <2>1. chunks \in Seq(Chunk)
    BY <1>4 DEF Context
  <2> QED BY <1>4, <2>1 DEF Within
<1> HIDE DEF chunks
<1>7. Places(r, chunks, ranking)
  BY <1>1, <1>2, <1>5, <1>6, PlacesCompose DEF ExpandedFrom, chunks
<1>8. \A n \in 1..Len(chunks) : Represents(ranking, r[n])
  <2>1. \A n \in 1..Len(chunks) : q[n] \in 1..Len(candidates)
    BY <1>5 DEF Places, chunks
  <2> QED BY <1>2, <2>1 DEF ExpandedFrom
<1>9. Len(chunks) <= Len(ranking)
  <2>1. Len(candidates) \in Nat /\ Len(ranking) \in Nat
    BY <1>1
  <2> QED BY <1>1, <1>6, <2>1
<1>10. ExpandedFrom(r, chunks, ranking)
  <2> HIDE DEF r
  <2> QED BY <1>7, <1>8 DEF ExpandedFrom
<1> HIDE DEF r
<1> QED BY <1>4, <1>9, <1>10 DEF candidates, context, chunks

-------------------------------------------------------------------------------
\* A ranking is a list of the chunks that were found.
LEMMA OrdersAreLists ==
  ASSUME NEW S \in SUBSET Chunk, NEW order \in Orders(S)
  PROVE  /\ order \in Seq(Chunk) /\ Len(order) = Cardinality(S) /\ IsInjective(order)
         /\ \A n \in DOMAIN order : order[n] \in S
<1>1. Cardinality(S) \in Nat
  BY ChunksAreFinite, FS_Subset, FS_CardinalityType
<1> DEFINE N == Cardinality(S)
<1>2. order \in [1..N -> S] /\ IsInjective(order)
  BY DEF Orders
<1> HIDE DEF N
<1>3. N \in Nat
  BY <1>1 DEF N
<1>4. order \in Seq(S) /\ Len(order) = N
  BY <1>2, <1>3
<1>5. order \in Seq(Chunk)
  BY <1>4, SeqMonotonic
<1> QED BY <1>2, <1>4, <1>5 DEF N

\* Types at the start.
LEMMA TypeInit == Init => TypeOK
<1> SUFFICES ASSUME Init PROVE TypeOK
  OBVIOUS
<1>1. label \in [Document -> Label]
  <2>1. \A d \in Document : Labels[d] \in Seq(Label) /\ Labels[d] # <<>>
    BY DocumentsAreLabelled
  <2>2. \A d \in Document : Head(Labels[d]) \in Label
    <3> HIDE DEF Label
    <3> QED BY <2>1, HeadTailProperties
  <2> QED BY <2>2 DEF Init
<1>2. result \in [Call -> Result]
  BY DEF Init, Without, Result
<1>3. <<>> \in Seq(Chunk) /\ 0 \in 0..MaxRetries
  BY SizesPositive
<1>4. /\ status \in [Document -> {"absent", "active", "retired"}]
      /\ log = [i \in RequestId |-> NoRow]
      /\ request \in [Call -> {None}] /\ found \in [Call -> {{}}]
      /\ pc \in [Call -> Location] /\ id \in [Call -> {None}]
      /\ hits \in [Call -> {{}}] /\ response \in [Call -> Response] /\ barred \in [Call -> {{}}]
  BY DEF Init, Location, Response
<1>5. retries \in [Call -> 0..MaxRetries] /\ ranked \in [Call -> Seq(Chunk)]
  BY <1>3 DEF Init
<1> QED
  BY <1>1, <1>2, <1>4, <1>5 DEF TypeOK

\* A result of the kind that the query log has a row for.
LEMMA RowOfResult ==
  ASSUME NEW r \in Result, r.status # "none", NEW c \in Call
  PROVE  [status |-> r.status, references |-> r.references, by |-> c] \in Row
  BY DEF Result, Row

\* A row that becomes successful is a row.
LEMMA SuccessRow ==
  ASSUME NEW row \in Row
  PROVE  [row EXCEPT !.status = "success"] \in Row
  BY DEF Row

\* Every step keeps the types.
LEMMA TypeStep ==
  ASSUME Kept, TypeOK, RankedOnce, [Next]_vars
  PROVE  TypeOK'
<1> USE SizesPositive
    DEF TypeOK, Moves, Finishes, Leaves, Raises, Responds, documents, ask, search
<1>r. \A s \in {"none", "refused", "failed"} : Without(s) \in Result
  BY DEF Without, Result
<1>l. {"idle", "asked", "searched", "read", "ranked", "expanded", "finished", "logged",
       "committed", "generated", "done"} = Location
  BY DEF Location
<1>s. {"none", "retrieved", "refused", "success", "unavailable", "error"} = Response
  BY DEF Response
<1>e. <<>> \in Seq(Chunk) /\ {} \in SUBSET Chunk
  OBVIOUS
<1>1. ASSUME NEW c \in Call, Begin(c) PROVE TypeOK'
  <2>1. PICK r \in Requests[c] : request' = [request EXCEPT ![c] = r]
    BY <1>1 DEF Begin
  <2>2. r \in Request
    BY CallsAsk
  <2>3. PICK i \in RequestId : id' = [id EXCEPT ![c] = i]
    BY <1>1 DEF Begin
  <2> QED BY <1>1, <1>l, <2>1, <2>2, <2>3 DEF Begin
<1>2. ASSUME NEW c \in Call, RejectFilters(c) PROVE TypeOK'
  BY <1>2, <1>r, <1>l, <1>s, <1>e DEF RejectFilters
<1>3. ASSUME NEW c \in Call, RejectQuestion(c) PROVE TypeOK'
  BY <1>3, <1>r, <1>l DEF RejectQuestion
<1>4. ASSUME NEW c \in Call, EmbeddingFails(c) PROVE TypeOK'
  BY <1>4, <1>r, <1>l DEF EmbeddingFails
<1>5. ASSUME NEW c \in Call, Retry(c) PROVE TypeOK'
  BY <1>5 DEF Retry
<1>6. ASSUME NEW c \in Call, Search(c) PROVE TypeOK'
  BY <1>6, <1>l DEF Search, ChunksOf
<1>7. ASSUME NEW c \in Call, ReadChunks(c) PROVE TypeOK'
  BY <1>7, <1>l DEF ReadChunks, RetiredIsBarred
<1>8. ASSUME NEW c \in Call, Rank(c) PROVE TypeOK'
  <2>1. PICK best \in SUBSET hits[c] :
          \E order \in Orders(best) : ranked' = [ranked EXCEPT ![c] = order]
    BY <1>8 DEF Rank
  <2>2. PICK order \in Orders(best) : ranked' = [ranked EXCEPT ![c] = order]
    BY <2>1
  <2>3. order \in Seq(Chunk)
    BY <2>2, OrdersAreLists
  <2> QED BY <1>8, <1>l, <2>2, <2>3 DEF Rank
<1>9. ASSUME NEW c \in Call, Refuse(c) PROVE TypeOK'
  BY <1>9, <1>r, <1>l DEF Refuse
<1>10. ASSUME NEW c \in Call, ReadParents(c) PROVE TypeOK'
  BY <1>10, <1>l DEF ReadParents
<1>11. ASSUME NEW c \in Call, Assemble(c) PROVE TypeOK'
  <2> DEFINE context == AssembleContext(Expand(ranked[c]), found[c])
             r == IF context.chunks = <<>> THEN Without("refused")
                  ELSE [status |-> "retrieved", references |-> context.chunks,
                        tokens |-> context.tokens, truncated |-> context.truncated]
  <2>1. context \in Context
    <3>1. ranked[c] \in Seq(Chunk) /\ IsInjective(ranked[c])
      BY DEF RankedOnce
    <3> QED BY <3>1, ContextSound
  <2>2. /\ pc' = [pc EXCEPT ![c] = "finished"] /\ result' = [result EXCEPT ![c] = r]
        /\ UNCHANGED <<documents, log, ask, search, response>>
    BY <1>11 DEF Assemble
  <2> HIDE DEF context
  <2>3. r \in Result
    BY <1>r, <2>1 DEF Context, Result
  <2> HIDE DEF r
  <2> QED BY <1>l, <2>2, <2>3
<1>12. ASSUME NEW c \in Call, WriteLog(c) PROVE TypeOK'
  BY <1>12, <1>l, <1>e DEF WriteLog
<1>13. ASSUME NEW c \in Call, CommitLog(c) PROVE TypeOK'
  <2>1. result[c] \in Result /\ result[c].status # "none"
    BY <1>13 DEF CommitLog, Kept, CallsGoOn
  <2>2. [status |-> result[c].status, references |-> result[c].references, by |-> c] \in Row
    BY <2>1, RowOfResult
  <2> QED BY <1>13, <1>l, <2>2 DEF CommitLog, Kept, RowsAreComplete
<1>14. ASSUME NEW c \in Call, LogConflicts(c) PROVE TypeOK'
  BY <1>14, <1>r, <1>l, <1>s, <1>e DEF LogConflicts
<1>15. ASSUME NEW c \in Call, Break(c) PROVE TypeOK'
  BY <1>15, <1>r, <1>l, <1>s, <1>e DEF Break
<1>16. ASSUME NEW c \in Call, Respond(c) PROVE TypeOK'
  BY <1>16, <1>l, <1>s DEF Respond, Kept, CallsGoOn
<1>17. ASSUME NEW c \in Call, AnswerUnavailable(c) PROVE TypeOK'
  BY <1>17, <1>l, <1>s DEF AnswerUnavailable
<1>18. ASSUME NEW c \in Call, AnswerRefused(c) PROVE TypeOK'
  BY <1>18, <1>l, <1>s DEF AnswerRefused
<1>19. ASSUME NEW c \in Call, Generate(c) PROVE TypeOK'
  BY <1>19, <1>l DEF Generate
<1>20. ASSUME NEW c \in Call, UpdateAnswer(c) PROVE TypeOK'
  <2>1. DOMAIN log = RequestId /\ id[c] \in RequestId /\ log[id[c]] \in Row
    BY <1>20 DEF UpdateAnswer, Kept, RowsAreComplete, CallsGoOn, NoRow
  <2>2. [log[id[c]] EXCEPT !.status = "success"] \in Row
    BY <2>1, SuccessRow
  <2>3. \A i \in RequestId : log'[i] \in Row \cup {NoRow}
    BY <1>20, <2>1, <2>2 DEF UpdateAnswer
  <2> QED BY <1>20, <1>l, <1>s, <2>3 DEF UpdateAnswer
<1>21. ASSUME NEW c \in Call, UpdateRaises(c) PROVE TypeOK'
  BY <1>21, <1>r, <1>l, <1>s, <1>e DEF UpdateRaises
<1>22. ASSUME NEW d \in Document, Publish(d) \/ Retire(d) PROVE TypeOK'
  BY <1>22 DEF Publish, Retire
<1>23. ASSUME NEW d \in Document, NEW l \in ToSet(Labels[d]), Relabel(d, l) PROVE TypeOK'
  <2>1. l \in Label
    BY DocumentsAreLabelled DEF ToSet
  <2> QED BY <1>23, <2>1 DEF Relabel
<1>24. CASE UNCHANGED vars
  BY <1>24 DEF vars
<1> QED
  BY <1>1, <1>2, <1>3, <1>4, <1>5, <1>6, <1>7, <1>8, <1>9, <1>10, <1>11, <1>12, <1>13,
     <1>14, <1>15, <1>16, <1>17, <1>18, <1>19, <1>20, <1>21, <1>22, <1>23, <1>24
     DEF Next, Proceed

\* A call is ranked once, from what it found, and forgets its ranking when it leaves.
LEMMA RankedOnceStep ==
  ASSUME TypeOK, RankedOnce, [Next]_vars
  PROVE  RankedOnce'
<1> USE DEF TypeOK, RankedOnce
<1>1. ASSUME NEW c \in Call, Rank(c) PROVE RankedOnce'
  <2>1. PICK best \in SUBSET hits[c] :
          /\ Cardinality(best) <= FinalTopK
          /\ \E order \in Orders(best) : ranked' = [ranked EXCEPT ![c] = order]
    BY <1>1 DEF Rank
  <2>2. PICK order \in Orders(best) : ranked' = [ranked EXCEPT ![c] = order]
    BY <2>1
  <2>3. best \in SUBSET Chunk
    BY <2>1
  <2>4. Len(order) <= FinalTopK /\ IsInjective(order)
    BY <2>1, <2>3, OrdersAreLists
  <2> QED BY <2>2, <2>4
<1>2. ASSUME NEW c \in Call, Leaves(c) PROVE RankedOnce'
  <2> DEFINE none == <<>>
  <2>1. Len(none) <= FinalTopK /\ IsInjective(none)
    BY SizesPositive DEF IsInjective
  <2>2. ranked' = [ranked EXCEPT ![c] = none]
    BY <1>2 DEF Leaves
  <2> HIDE DEF none
  <2> QED BY <2>1, <2>2
<1>3. CASE UNCHANGED ranked
  BY <1>3
<1> QED
  BY <1>1, <1>2, <1>3
     DEF Next, Proceed, vars, documents, ask, search, Raises, Publish, Retire, Relabel, Begin,
         RejectFilters, RejectQuestion, EmbeddingFails, Retry, Search, ReadChunks, Refuse,
         ReadParents, Assemble, WriteLog, CommitLog, LogConflicts, Break, Respond,
         AnswerUnavailable, AnswerRefused, Generate, UpdateAnswer, UpdateRaises

\* What is barred from a call grows while it has hits, which are what is left of them,
\* and no more when it has ranked them.
LEMMA VisibleStep ==
  ASSUME TypeOK, RankedIsVisible, [Next]_vars
  PROVE  RankedIsVisible'
<1>t. /\ pc \in [Call -> Location] /\ result \in [Call -> Result] /\ hits \in [Call -> SUBSET Chunk]
      /\ DOMAIN ranked = Call /\ DOMAIN barred = Call
  BY DEF TypeOK
<1> USE ChunksBelong
    DEF RankedIsVisible, Visible, Retrieved, Moves, Finishes, Leaves, Raises, Responds,
        documents, ask, search
<1>1. ASSUME NEW c \in Call, Begin(c) PROVE RankedIsVisible'
  BY <1>t, <1>1 DEF Begin
<1>2. ASSUME NEW c \in Call, RejectFilters(c) PROVE RankedIsVisible'
  BY <1>t, <1>2 DEF RejectFilters, Without
<1>3. ASSUME NEW c \in Call, RejectQuestion(c) PROVE RankedIsVisible'
  BY <1>t, <1>3 DEF RejectQuestion, Without
<1>4. ASSUME NEW c \in Call, EmbeddingFails(c) PROVE RankedIsVisible'
  BY <1>t, <1>4 DEF EmbeddingFails, Without
<1>5. ASSUME NEW c \in Call, Retry(c) PROVE RankedIsVisible'
  BY <1>t, <1>5 DEF Retry
<1>6. ASSUME NEW c \in Call, Search(c) PROVE RankedIsVisible'
  BY <1>t, <1>6 DEF Search, ChunksOf, Active, InScope
<1>7. ASSUME NEW c \in Call, ReadChunks(c) PROVE RankedIsVisible'
  BY <1>t, <1>7 DEF ReadChunks, ChunksOf, Active, RetiredIsBarred
<1>8. ASSUME NEW c \in Call, Rank(c) PROVE RankedIsVisible'
  <2>1. PICK best \in SUBSET hits[c] :
          \E order \in Orders(best) : ranked' = [ranked EXCEPT ![c] = order]
    BY <1>8 DEF Rank
  <2>2. PICK order \in Orders(best) : ranked' = [ranked EXCEPT ![c] = order]
    BY <2>1
  <2>3. \A m \in DOMAIN order : order[m] \in hits[c]
    <3>1. best \in SUBSET Chunk
      BY <1>t, <2>1
    <3> QED BY <2>2, <3>1, OrdersAreLists
  <2> QED BY <1>t, <1>8, <2>2, <2>3 DEF Rank
<1>9. ASSUME NEW c \in Call, Refuse(c) PROVE RankedIsVisible'
  BY <1>t, <1>9 DEF Refuse, Without
<1>10. ASSUME NEW c \in Call, ReadParents(c) PROVE RankedIsVisible'
  BY <1>t, <1>10 DEF ReadParents
<1>11. ASSUME NEW c \in Call, Assemble(c) PROVE RankedIsVisible'
  BY <1>t, <1>11 DEF Assemble
<1>12. ASSUME NEW c \in Call, WriteLog(c) PROVE RankedIsVisible'
  BY <1>t, <1>12 DEF WriteLog
<1>13. ASSUME NEW c \in Call, CommitLog(c) PROVE RankedIsVisible'
  BY <1>t, <1>13 DEF CommitLog
<1>14. ASSUME NEW c \in Call, LogConflicts(c) PROVE RankedIsVisible'
  BY <1>t, <1>14 DEF LogConflicts, Without
<1>15. ASSUME NEW c \in Call, Break(c) PROVE RankedIsVisible'
  BY <1>t, <1>15 DEF Break, Without
<1>16. ASSUME NEW c \in Call, Respond(c) PROVE RankedIsVisible'
  BY <1>t, <1>16 DEF Respond
<1>17. ASSUME NEW c \in Call, AnswerUnavailable(c) PROVE RankedIsVisible'
  BY <1>t, <1>17 DEF AnswerUnavailable
<1>18. ASSUME NEW c \in Call, AnswerRefused(c) PROVE RankedIsVisible'
  BY <1>t, <1>18 DEF AnswerRefused
<1>19. ASSUME NEW c \in Call, Generate(c) PROVE RankedIsVisible'
  BY <1>t, <1>19 DEF Generate
<1>20. ASSUME NEW c \in Call, UpdateAnswer(c) PROVE RankedIsVisible'
  BY <1>t, <1>20 DEF UpdateAnswer
<1>21. ASSUME NEW c \in Call, UpdateRaises(c) PROVE RankedIsVisible'
  BY <1>t, <1>21 DEF UpdateRaises, Without
<1>22. ASSUME NEW d \in Document, Publish(d) \/ Retire(d) PROVE RankedIsVisible'
  BY <1>t, <1>22 DEF Publish, Retire
<1>23. ASSUME NEW d \in Document, NEW l \in ToSet(Labels[d]), Relabel(d, l)
      PROVE  RankedIsVisible'
  BY <1>t, <1>23 DEF Relabel
<1>24. CASE UNCHANGED vars
  BY <1>t, <1>24 DEF vars
<1> QED
  BY <1>1, <1>2, <1>3, <1>4, <1>5, <1>6, <1>7, <1>8, <1>9, <1>10, <1>11, <1>12, <1>13,
     <1>14, <1>15, <1>16, <1>17, <1>18, <1>19, <1>20, <1>21, <1>22, <1>23, <1>24
     DEF Next, Proceed

\* A result stays what its ranking gives until the call leaves.
LEMMA AssembledStep ==
  ASSUME TypeOK, Assembled, [Next]_vars
  PROVE  Assembled'
<1>t. /\ pc \in [Call -> Location] /\ result \in [Call -> Result]
      /\ DOMAIN ranked = Call /\ DOMAIN found = Call
  BY DEF TypeOK
<1> USE DEF Assembled, Retrieved, Moves, Finishes, Leaves, Raises, Responds,
        documents, ask, search
<1>1. ASSUME NEW c \in Call, Assemble(c) PROVE Assembled'
  <2> DEFINE Contexts(x) == AssembleContext(Expand(ranked[x]), found[x])
             context == Contexts(c)
  <2>1. UNCHANGED <<ranked, found>> /\ pc' = [pc EXCEPT ![c] = "finished"]
    BY <1>1 DEF Assemble
  <2>2. result' = [result EXCEPT ![c] =
          IF context.chunks = <<>> THEN Without("refused")
          ELSE [status |-> "retrieved", references |-> context.chunks,
                tokens |-> context.tokens, truncated |-> context.truncated]]
    BY <1>1 DEF Assemble
  <2>3. Without("refused").status # "retrieved"
    BY DEF Without
  <2> HIDE DEF Contexts
  <2>4. ASSUME NEW x \in Call, pc'[x] = "finished", result'[x].status = "retrieved"
        PROVE  /\ Contexts(x).chunks # <<>>
               /\ result'[x] = [status |-> "retrieved", references |-> Contexts(x).chunks,
                               tokens |-> Contexts(x).tokens, truncated |-> Contexts(x).truncated]
    <3>1. CASE x = c
      BY <1>t, <2>2, <2>3, <2>4, <3>1
    <3>2. CASE x # c
      <4>1. pc[x] = "finished" /\ result[x].status = "retrieved" /\ result'[x] = result[x]
        BY <1>t, <2>1, <2>2, <2>4, <3>2
      <4> QED BY <4>1 DEF Contexts
    <3> QED BY <3>1, <3>2
  <2> QED BY <2>1, <2>4 DEF Contexts
<1>2. ASSUME NEW c \in Call, Rank(c) \/ ReadParents(c) PROVE Assembled'
  <2>1. pc' = [pc EXCEPT ![c] = "ranked"] \/ pc' = [pc EXCEPT ![c] = "expanded"]
    BY <1>2 DEF Rank, ReadParents
  <2>2. /\ \A x \in Call \ {c} : ranked'[x] = ranked[x] /\ found'[x] = found[x]
        /\ result' = result
    BY <1>t, <1>2 DEF Rank, ReadParents
  <2> QED BY <1>t, <2>1, <2>2
<1>3. ASSUME NEW c \in Call, Leaves(c), pc'[c] # "finished",
             \A x \in Call \ {c} : pc'[x] = pc[x] /\ result'[x] = result[x]
      PROVE  Assembled'
  BY <1>t, <1>3
<1>4. ASSUME NEW c \in Call, Finishes(c, Without("refused")) \/ Finishes(c, Without("failed")),
             Moves(c, pc[c], "finished"), UNCHANGED <<ranked, found>>
      PROVE  Assembled'
  BY <1>t, <1>4 DEF Without
<1>5. ASSUME UNCHANGED <<ranked, found, result>>, \A x \in Call : pc'[x] = "finished" => pc[x] = "finished"
      PROVE  Assembled'
  BY <1>t, <1>5
<1>6. ASSUME NEW c \in Call, RejectFilters(c) \/ WriteLog(c) \/ LogConflicts(c) \/ Break(c) \/ UpdateRaises(c)
      PROVE  Assembled'
  <2>1. Leaves(c) /\ \A x \in Call \ {c} : pc'[x] = pc[x] /\ result'[x] = result[x]
    BY <1>t, <1>6 DEF RejectFilters, WriteLog, LogConflicts, Break, UpdateRaises
  <2>2. pc'[c] # "finished"
    BY <1>t, <1>6 DEF RejectFilters, WriteLog, LogConflicts, Break, UpdateRaises
  <2> HIDE DEF Leaves, Assembled
  <2> QED BY <1>3, <2>1, <2>2
<1>7. ASSUME NEW c \in Call, RejectQuestion(c) \/ EmbeddingFails(c) \/ Refuse(c) PROVE Assembled'
  <2>1. /\ Finishes(c, Without("refused")) \/ Finishes(c, Without("failed"))
        /\ Moves(c, pc[c], "finished") /\ UNCHANGED <<ranked, found>>
    BY <1>7 DEF RejectQuestion, EmbeddingFails, Refuse
  <2> HIDE DEF Finishes, Moves, Assembled
  <2> QED BY <1>4, <2>1
<1>8. ASSUME NEW c \in Call,
             \/ Begin(c) \/ Retry(c) \/ Search(c) \/ ReadChunks(c) \/ CommitLog(c) \/ Respond(c)
             \/ AnswerUnavailable(c) \/ AnswerRefused(c) \/ Generate(c) \/ UpdateAnswer(c)
      PROVE  Assembled'
  <2>1. UNCHANGED <<ranked, found, result>>
    BY <1>8 DEF Begin, Retry, Search, ReadChunks, CommitLog, Respond, AnswerUnavailable,
       AnswerRefused, Generate, UpdateAnswer
  <2>2. \A x \in Call : pc'[x] = "finished" => pc[x] = "finished"
    BY <1>t, <1>8 DEF Begin, Retry, Search, ReadChunks, CommitLog, Respond, AnswerUnavailable,
       AnswerRefused, Generate, UpdateAnswer
  <2> HIDE DEF Assembled
  <2> QED BY <1>5, <2>1, <2>2
<1>9. ASSUME NEW d \in Document,
             Publish(d) \/ Retire(d) \/ \E l \in ToSet(Labels[d]) : Relabel(d, l)
      PROVE  Assembled'
  BY <1>9 DEF Publish, Retire, Relabel
<1>10. CASE UNCHANGED vars
  BY <1>10 DEF vars
<1> HIDE DEF Assembled
<1> QED
  BY <1>1, <1>2, <1>6, <1>7, <1>8, <1>9, <1>10 DEF Next, Proceed

\* References are sound wherever a result is what its ranking gives.
LEMMA FoundReferences ==
  ASSUME Found
  PROVE  ReferencesAreSound
<1> SUFFICES ASSUME NEW c \in Call, Retrieved(c)
             PROVE  LET refs == result[c].references
                        Position(k) == CHOOSE n \in DOMAIN ranked[c] : ranked[c][n] = k
                    IN  /\ Len(refs) \in 1..FinalTopK
                        /\ \A i \in DOMAIN refs : \A n \in 1..(Position(refs[i]) - 1) :
                             ParentOf[ranked[c][n]] # ParentOf[refs[i]]
                        /\ \A i, j \in DOMAIN refs : i < j => Position(refs[i]) < Position(refs[j])
                        /\ \A i \in DOMAIN refs : DocumentOf[ParentOf[refs[i]]] \notin barred[c]
  BY DEF ReferencesAreSound
<1> DEFINE ranking == ranked[c]
           context == AssembleContext(Expand(ranking), found[c])
           refs == result[c].references
           Position(k) == CHOOSE n \in DOMAIN ranking : ranking[n] = k
<1>1. ranking \in Seq(Chunk) /\ Len(ranking) <= FinalTopK /\ IsInjective(ranking)
  BY DEF Found, TypeOK, RankedOnce
<1>2. \A n \in DOMAIN ranking : DocumentOf[ParentOf[ranking[n]]] \notin barred[c]
  BY DEF Found, RankedIsVisible, Visible
<1>3. refs = context.chunks /\ context.chunks # <<>>
  <2>1. /\ context.chunks # <<>>
        /\ result[c] = [status |-> "retrieved", references |-> context.chunks,
                        tokens |-> context.tokens, truncated |-> context.truncated]
    BY DEF Found, Assembled
  <2> HIDE DEF context
  <2> QED BY <2>1
<1>4. refs \in Seq(Chunk)
  BY DEF Found, TypeOK, Result
<1>5. Len(refs) <= Len(ranking)
  BY <1>1, <1>3, ContextSound
<1>6. PICK r : ExpandedFrom(r, refs, ranking)
  BY <1>1, <1>3, ContextSound
<1> HIDE DEF refs, ranking, context
<1>7. /\ \A i \in 1..Len(refs) : /\ r[i] \in 1..Len(ranking) /\ refs[i] = ranking[r[i]]
                                 /\ Represents(ranking, r[i])
      /\ \A i \in 1..Len(refs), j \in 1..Len(refs) : i < j => r[i] < r[j]
  BY <1>6 DEF ExpandedFrom, Places
<1>8. DOMAIN refs = 1..Len(refs) /\ DOMAIN ranking = 1..Len(ranking) /\ Len(refs) \in Nat
      /\ Len(ranking) \in Nat /\ Len(refs) # 0
  BY <1>1, <1>3, <1>4
<1>9. ASSUME NEW i \in 1..Len(refs) PROVE Position(refs[i]) = r[i]
  <2>1. r[i] \in DOMAIN ranking /\ ranking[r[i]] = refs[i]
    BY <1>7, <1>8
  <2>2. \A n \in DOMAIN ranking : ranking[n] = refs[i] => n = r[i]
    BY <1>1, <2>1 DEF IsInjective
  <2> QED BY <2>1, <2>2
<1> HIDE DEF Position
<1>10. Len(refs) \in 1..FinalTopK
  BY <1>1, <1>5, <1>8, SizesPositive
<1>11. \A i \in DOMAIN refs : \A n \in 1..(Position(refs[i]) - 1) :
          ParentOf[ranking[n]] # ParentOf[refs[i]]
  BY <1>7, <1>8, <1>9 DEF Represents
<1>12. \A i, j \in DOMAIN refs : i < j => Position(refs[i]) < Position(refs[j])
  BY <1>7, <1>8, <1>9
<1>13. \A i \in DOMAIN refs : DocumentOf[ParentOf[refs[i]]] \notin barred[c]
  BY <1>2, <1>7, <1>8
<1> QED
  BY <1>10, <1>11, <1>12, <1>13 DEF refs, ranking, Position

\* So is the account of the context.
LEMMA FoundContext ==
  ASSUME Found
  PROVE  ContextIsAccounted
<1> SUFFICES ASSUME NEW c \in Call, Retrieved(c)
             PROVE  LET refs == result[c].references
                        sent == SentTokens(refs, found[c])
                        left == ToSet(Expand(ranked[c])) \ ToSet(refs)
                    IN  /\ result[c].tokens <= Budget /\ result[c].tokens <= sent
                        /\ \A k \in left : result[c].tokens + ChunkTokens[k] > Budget
                        /\ result[c].truncated <=> left # {} \/ result[c].tokens < sent
  BY DEF ContextIsAccounted
<1> DEFINE candidates == Expand(ranked[c])
           context == AssembleContext(candidates, found[c])
<1>1. ranked[c] \in Seq(Chunk) /\ IsInjective(ranked[c])
  BY DEF Found, TypeOK, RankedOnce
<1>2. Accounted(context, candidates, Len(candidates), found[c]) /\ candidates \in Seq(Chunk)
  BY <1>1, ContextSound, ExpandedSound
<1>3. /\ result[c].references = context.chunks /\ result[c].tokens = context.tokens
      /\ result[c].truncated = context.truncated
  <2>1. result[c] = [status |-> "retrieved", references |-> context.chunks,
                     tokens |-> context.tokens, truncated |-> context.truncated]
    BY DEF Found, Assembled
  <2> HIDE DEF context
  <2> QED BY <2>1
<1> HIDE DEF context, candidates
<1>4. ToSet(candidates) = {candidates[m] : m \in 1..Len(candidates)}
  BY <1>2 DEF ToSet
<1> QED
  BY <1>2, <1>3, <1>4 DEF Accounted, candidates

\* The invariant holds at the start.
LEMMA FoundInit == Init => Found
<1> SUFFICES ASSUME Init PROVE Found
  OBVIOUS
<1> DEFINE none == <<>>
<1>1. Len(none) <= FinalTopK /\ IsInjective(none)
  BY SizesPositive DEF IsInjective
<1>2. pc = [c \in Call |-> "idle"] /\ ranked = [c \in Call |-> none]
  BY DEF Init
<1> HIDE DEF none
<1>3. TypeOK
  BY TypeInit
<1>4. RankedOnce
  BY <1>1, <1>2 DEF RankedOnce
<1>5. RankedIsVisible /\ Assembled
  BY <1>2 DEF RankedIsVisible, Assembled, Retrieved
<1> QED BY <1>3, <1>4, <1>5 DEF Found

\* What is found, ranked and put together, next to what is known of the log.
LEMMA FoundAlways == Spec => []Found
<1>1. Kept /\ Found /\ [Next]_vars => Found'
  BY TypeStep, RankedOnceStep, VisibleStep, AssembledStep DEF Found
<1> QED
  BY <1>1, FoundInit, KeptAlways, PTL DEF Spec

\* Types (TypeOK).
THEOREM TypeAlways == Spec => []TypeOK
<1>1. Found => TypeOK
  BY DEF Found
<1> QED BY <1>1, FoundAlways, PTL

\* What is ranked, and so all that can be cited, is of documents that the caller could
\* see when the search ran and that were not retired when the chunks were read.
THEOREM RankedIsVisibleAlways == Spec => []RankedIsVisible
<1>1. Found => RankedIsVisible
  BY DEF Found
<1> QED BY <1>1, FoundAlways, PTL

\* References are one for each parent, the best one, in the order of the ranking
\* (ReferencesAreSound).
THEOREM ReferencesAreSoundAlways == Spec => []ReferencesAreSound
  BY FoundAlways, FoundReferences, PTL

\* The tokens of a context are accounted for (ContextIsAccounted).
THEOREM ContextIsAccountedAlways == Spec => []ContextIsAccounted
  BY FoundAlways, FoundContext, PTL
===============================================================================
