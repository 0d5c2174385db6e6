--------------------------------- MODULE Texts ---------------------------------
(***************************************************************************)
(* The texts of chunks as sequences of tokens, and how overlong_split cuts  *)
(* one.  A body is a run of CJK characters with a few spaces, so that a     *)
(* character is a token; the estimate of 1.3 tokens for a Latin word and    *)
(* the hyphens between the lines of Latin text are left out.  Punctuation   *)
(* counts for nothing.                                                      *)
(***************************************************************************)
EXTENDS Naturals, Lists

CONSTANT WordBatch  \* _FALLBACK_WORD_BATCH: longest slice of one word

ASSUME WordBatchPositive == WordBatch \in Nat \ {0}

(***************************************************************************)
(* A token belongs to the block "of", with a place "at" in it.  "starts"    *)
(* and "ends" say what a text looks like that starts or ends with it; "gap" *)
(* is a space before it.                                                    *)
(***************************************************************************)
Role == {"body", "heading", "header", "punct"}
Start == {"joins",    \* lower case, or a CJK character: continues a sentence
          "section",  \* a CJK character, but of the title of an article or chapter
          "fresh",    \* anything else: upper case, digits, a list item
          "header",   \* a running header of the page
          "punct"}    \* punctuation that belongs to the text before
End == {"closed", "open",
        "soft"}       \* continued by whatever follows on the next page: soft punctuation,
                      \* an item of a list, a box at the foot of its page

Token == [of : Nat, role : Role, at : Nat \X Nat, starts : Start, ends : End, gap : BOOLEAN]

Count(text) == Len(At(text, {k \in DOMAIN text : text[k].role # "punct"}))

Spaced(text, gap) == IF text = <<>> THEN <<>> ELSE [text EXCEPT ![1].gap = gap]

Text == Seq(Token)

\* A sequence, cut before the positions in P.
Cut(text, P) ==
    Folded(<<>>, [k \in DOMAIN text |->
                     [parts \in Seq(Text) |->
                         IF parts = <<>> \/ k \in P THEN Append(parts, <<text[k]>>)
                         ELSE [parts EXCEPT ![Len(parts)] = Append(@, text[k])]]])

Words(text) == Cut(text, {k \in DOMAIN text : text[k].gap})
\* Paragraphs and sentences: a heading is a paragraph, a body a sentence.
ParagraphEnds(a, b) == a.role = "heading" /\ b.role # "heading"
SentenceEnds(a, b) == a.ends = "closed" /\ <<a.of, a.role>> # <<b.of, b.role>>
Units(text) ==
    Cut(text, {k \in 2..Len(text) : \/ ParagraphEnds(text[k - 1], text[k])
                                    \/ SentenceEnds(text[k - 1], text[k])})

NonEmpty(parts) == At(parts, {k \in DOMAIN parts : parts[k] # <<>>})

\* Fills parts up to the limit; an item over the limit is broken into parts of its own.
Packing == [parts : Seq(Text), current : Text]
Packed(acc, item, limit, broken) ==
    IF Count(item) > limit
    THEN [parts |-> acc.parts \o <<acc.current>> \o broken, current |-> <<>>]
    ELSE IF Count(acc.current \o item) > limit
    THEN [parts |-> Append(acc.parts, acc.current), current |-> item]
    ELSE [parts |-> acc.parts, current |-> acc.current \o item]
Pack(items, limit, broken) ==
    LET packed == Folded([parts |-> <<>>, current |-> <<>>],
                         [n \in DOMAIN items |->
                             [acc \in Packing |-> Packed(acc, items[n], limit, broken[n])]])
    IN  NonEmpty(Append(packed.parts, packed.current))

\* One word: slices of WordBatch characters, halved until a slice is within the limit.
Slice(word, k, size) == SubSeq(word, k, Min({k + size - 1, Len(word)}))
Halved(word, k, size, limit) ==
    Folded(size, [n \in 1..size |->
                     [h \in 1..WordBatch |->
                         IF h > 1 /\ Count(Slice(word, k, h)) > limit THEN h \div 2 ELSE h]])
Slicing == [parts : Seq(Text), next : Nat \ {0}, size : 1..WordBatch]
Sliced(acc, word, limit) ==
    IF acc.next > Len(word) THEN acc
    ELSE LET size == Halved(word, acc.next, acc.size, limit)
         IN  [parts |-> Append(acc.parts, Slice(word, acc.next, size)),
              next |-> acc.next + size, size |-> size]
Slices(word, limit) ==
    Folded([parts |-> <<>>, next |-> 1, size |-> Min({Len(word), WordBatch})],
           [n \in DOMAIN word |-> [acc \in Slicing |-> Sliced(acc, word, limit)]]).parts

HardSplit(unit, limit) ==
    LET words == Words(unit)
    IN  IF Len(words) > 1 THEN Pack(words, limit, [n \in DOMAIN words |-> <<words[n]>>])
        ELSE Slices(unit, limit)

\* Mutation: only the first part of an overlong unit is kept.
SplitKeepsFirst(text, limit) ==
    LET units == Units(text)
    IN  Pack(units, limit, [n \in DOMAIN units |-> <<HardSplit(units[n], limit)[1]>>])
SplitText(text, limit) ==
    LET units == Units(text)
    IN  Pack(units, limit, [n \in DOMAIN units |-> HardSplit(units[n], limit)])
===============================================================================
