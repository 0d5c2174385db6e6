------------------------------ MODULE ParsingProofs ------------------------------
(***************************************************************************)
(* ChunkingInv is an invariant of module Chunking, and so is what it says   *)
(* of parsers and documents; for any files, outcomes of parsers, polls and  *)
(* deadlines.  What each parser makes of the items of a file is in order    *)
(* (Orderly), and what the passes make of that has its place and its        *)
(* section (Sectioned, TreeUpto).                                           *)
(***************************************************************************)
EXTENDS ChunkingInvariant, ListProofs

\* A priority list is of parsers.
LEMMA ListIsSequence == List \in Seq(Parser)
<1> DEFINE p == job.parser
<1>1. Configured(p) \in Seq(Parser)
  <2>1. CASE p \in {"docling", "mineru"}
    <3>1. Configured(p) = <<p, "pypdf">>
      BY <2>1 DEF Configured
    <3> QED
      BY <2>1, <3>1 DEF Parser
  <2>2. CASE p \in {"pypdf", "table_file", "text_file"}
    <3>1. Configured(p) = <<p>>
      BY <2>2 DEF Configured
    <3> QED
      BY <2>2, <3>1 DEF Parser
  <2>3. CASE p \notin {"docling", "mineru", "pypdf", "table_file", "text_file"}
    <3>1. Configured(p) = <<"docling", "mineru", "pypdf">>
      BY <2>3 DEF Configured, DefaultPriority
    <3> QED
      BY <3>1 DEF Parser
  <2> QED
    BY <2>1, <2>2, <2>3
<1>2. <<"table_file">> \in Seq(Parser) /\ <<"text_file">> \in Seq(Parser)
  BY DEF Parser
<1> QED
  BY <1>1, <1>2 DEF List, Priority

-----------------------------------------------------------------------------
\* A parser that is passed over
LEMMA PassedOver ==
  ASSUME Chain, stage \in {"attempt", "mineru"}, queue # <<>>, NextParser, job' = job,
         stage' = "attempt"
  PROVE  Chain'
<1>1. /\ Current \in Parser /\ queue' \in Seq(Parser) /\ attempted' \in Seq(Parser)
      /\ attempted' \o queue' = attempted \o queue
  BY MoveHead DEF Chain, ChainTypes, NextParser, Current
<1>2. ToSet(attempted') = ToSet(attempted) \cup {Current}
  BY <1>1, AppendedPart DEF Chain, ChainTypes, NextParser
<1> QED
  BY <1>1, <1>2 DEF Chain, ChainTypes, Underway, TaskIsNext, Accepted, Parsed, List, Stage,
                    NextParser

\* One that is accepted
LEMMA ParserAccepted ==
  ASSUME Chain, stage \in {"attempt", "mineru"}, queue # <<>>, Accept, Works(Current),
         Reading(Current) # <<>>
  PROVE  Chain'
<1>1. /\ Current \in Parser /\ attempted' \in Seq(Parser) /\ Tail(queue) \in Seq(Parser)
      /\ attempted' \o Tail(queue) = List
  BY MoveHead DEF Chain, ChainTypes, Underway, Accept, Current
<1>2. attempted' # <<>> /\ Last(attempted') = Current /\ Front(attempted') = attempted
  BY <1>1, AppendedPart DEF Chain, ChainTypes, Accept
<1>3. IsPrefix(attempted', List)
  BY <1>1, FirstPart
<1>4. job' = job /\ parsed' # <<>> /\ queue' = <<>> /\ stage' = "clean" /\ warned' = warned
  BY DEF Accept
<1>5. warned' = ToSet(Front(attempted'))
  BY <1>2, <1>4 DEF Chain, Underway
<1>6. job'.world[Last(attempted')] \notin {"absent", "fails"} /\ List' = List
  BY <1>2, <1>4 DEF Works, List
<1> QED
  BY <1>1, <1>2, <1>3, <1>4, <1>5, <1>6
     DEF Chain, ChainTypes, Underway, TaskIsNext, Accepted, Parsed, Stage, Works

\* What the other steps leave
LEMMA ChainKept ==
  ASSUME Chain, UNCHANGED <<job, queue, attempted, warned, parsed>>,
         \/ stage' = stage
         \/ stage = "attempt" /\ stage' = "refused" /\ queue = <<>>
         \/ stage = "attempt" /\ stage' = "mineru" /\ queue # <<>> /\ Current = "mineru"
            /\ Works("mineru")
         \/ Parsed /\ stage' \in {"tree", "chunk", "done"}
  PROVE  Chain'
  BY DEF Chain, ChainTypes, Underway, TaskIsNext, Accepted, Parsed, List, Works, Stage, Current

\* Every step keeps the account of what was tried.
LEMMA ChainStep ==
  ASSUME Chain, [Next]_vars
  PROVE  Chain'
<1>1. CASE PassOver
  BY <1>1, PassedOver DEF PassOver, Trying
<1>2. CASE ParserReads
  BY <1>2, ParserAccepted DEF ParserReads, Trying, Works
<1>3. CASE Refuse
  BY <1>3, ChainKept DEF Refuse, parsing, document
<1>4. CASE StartMinerU
  BY <1>4, ChainKept DEF StartMinerU, Trying, Works, parsing, document
<1>5. CASE TaskCreated \/ Uploaded \/ Pending \/ Finished \/ DownloadBreaks \/ Downloaded
  BY <1>5, ChainKept
     DEF TaskCreated, Uploaded, Pending, Finished, DownloadBreaks, Downloaded, GoTo, Serve, document
<1>6. CASE TaskFails
  BY <1>6, PassedOver DEF TaskFails, InService, Chain, TaskIsNext
<1>7. CASE ReadNothing
  BY <1>7, PassedOver DEF ReadNothing, InService, Chain, TaskIsNext
<1>8. CASE ArchiveRead
  BY <1>8, ParserAccepted DEF ArchiveRead, InService, Chain, TaskIsNext
<1>9. CASE CleanNoise
  BY <1>9, ChainKept DEF CleanNoise, Parsed, parsing
<1>10. CASE BuildSections
  BY <1>10, ChainKept DEF BuildSections, Parsed, parsing
<1>11. CASE ChunkDocument
  BY <1>11, ChainKept DEF ChunkDocument, Parsed, parsing, document
<1>12. CASE CallerGivesUp
  BY <1>12, ChainKept DEF CallerGivesUp, parsing, document
<1>13. CASE Over \/ UNCHANGED vars
  BY <1>13, ChainKept DEF Over, vars, parsing, document
<1> QED
  BY <1>1, <1>2, <1>3, <1>4, <1>5, <1>6, <1>7, <1>8, <1>9, <1>10, <1>11, <1>12, <1>13
     DEF Next, Attempt, MinerUSteps

\* At the start nothing was tried yet.
LEMMA ChainInit == Init => Chain
<1> SUFFICES ASSUME Init PROVE Chain
  OBVIOUS
<1>1. queue = List /\ attempted = <<>> /\ warned = {} /\ stage = "attempt"
  BY DEF Init, List
<1>2. attempted \o queue = List /\ ToSet(attempted) = {}
  BY <1>1, ListIsSequence DEF ToSet
<1> QED
  BY <1>1, <1>2, ListIsSequence
     DEF Chain, ChainTypes, Underway, TaskIsNext, Accepted, Parsed, Stage

\* Parsers are tried in the order of the list, each is recorded, and the one in use works.
THEOREM FallbackAlwaysRecorded == Spec => []FallbackRecorded
<1>1. Chain => FallbackRecorded
  <2> SUFFICES ASSUME Chain PROVE FallbackRecorded
    OBVIOUS
  <2>1. attempted \in Seq(Parser) /\ queue \in Seq(Parser)
    BY DEF Chain, ChainTypes
  <2>2. stage \in {"attempt", "mineru", "refused"} \/ Parsed
    BY DEF Chain, ChainTypes, Stage, Parsed
  <2>3. IsPrefix(attempted, List)
    BY <2>1, <2>2, FirstPart DEF Chain, Underway, Accepted
  <2>4. stage = "refused" => attempted = List
    BY <2>1 DEF Chain, Underway
  <2> QED
    BY <2>3, <2>4 DEF Chain, Underway, Accepted, FallbackRecorded, List, Works
<1> QED
  BY <1>1, ChainInit, ChainStep, PTL DEF Spec

Proper == {i \in Item : OneLine(i) /\ (HasTitle(i) => i.title # <<>>)}
\* A scan that has come to item n
ScanTo(n) == {acc \in Scan : Orderly(acc.blocks)
                 /\ \A k \in 1..Len(acc.blocks) : EndsBefore(acc.blocks[k], n + 1)}

\* What has been read ends before anything later.
LEMMA ScanOn ==
  ASSUME NEW n \in Nat, NEW acc \in ScanTo(n)
  PROVE  acc \in ScanTo(n + 1)
<1>1. acc \in Scan /\ Orderly(acc.blocks)
      /\ \A k \in 1..Len(acc.blocks) : EndsBefore(acc.blocks[k], n + 1)
  BY DEF ScanTo
<1>2. ASSUME NEW k \in 1..Len(acc.blocks)
      PROVE  EndsBefore(acc.blocks[k], n + 2)
  <2> DEFINE b == acc.blocks[k]
  <2>1. b \in Block /\ b.id < n + 1 /\ \A i \in 1..Len(b.text) : b.text[i].of < n + 1
    BY <1>1, <1>2 DEF EndsBefore, Orderly, Sound
  <2>2. b.id \in Nat /\ b.text \in Seq(Piece)
    BY <2>1 DEF Block
  <2> HIDE DEF b
  <2>3. \A i \in 1..Len(b.text) : b.text[i].of \in Nat
    <3>1. ASSUME NEW i \in 1..Len(b.text) PROVE b.text[i].of \in Nat
      <4>1. b.text[i] \in Piece
        BY <2>2
      <4> QED BY <4>1 DEF Piece
    <3> QED BY <3>1
  <2>4. EndsBefore(b, n + 2)
    BY <2>1, <2>2, <2>3 DEF EndsBefore
  <2> QED BY <2>4 DEF b
<1> QED
  BY <1>1, <1>2 DEF ScanTo

\* A block behind those before it.
LEMMA OrderlyAppend ==
  ASSUME NEW bs, Orderly(bs), NEW b, Sound(b),
         \A k \in 1..Len(bs) : EndsBefore(bs[k], b.id)
  PROVE  Orderly(Append(bs, b))
<1>1. bs \in Seq(Block) /\ b \in Block
  BY DEF Orderly, Sound
<1> DEFINE N == Len(bs)
           cs == Append(bs, b)
<1>2. cs \in Seq(Block) /\ Len(cs) = N + 1 /\ N \in Nat /\ cs[N + 1] = b
      /\ \A k \in 1..N : cs[k] = bs[k]
  BY <1>1
<1> HIDE DEF cs
<1>3. /\ \A k \in 1..N : Sound(bs[k])
      /\ \A k \in 1..N, j \in 1..N : j < k => EndsBefore(bs[j], bs[k].id)
  BY DEF Orderly
<1>4. \A k \in 1..(N + 1) : k \in 1..N \/ k = N + 1
  BY <1>2
<1>5. \A k \in 1..Len(cs) : Sound(cs[k])
  BY <1>2, <1>3, <1>4
<1>6. ASSUME NEW k \in 1..Len(cs), NEW j \in 1..Len(cs), j < k
      PROVE  EndsBefore(cs[j], cs[k].id)
  <2>1. j \in 1..N
    BY <1>2, <1>6
  <2>2. CASE k \in 1..N
    BY <1>2, <1>3, <1>6, <2>1, <2>2
  <2>3. CASE k = N + 1
    BY <1>2, <2>1, <2>3
  <2> QED BY <1>2, <1>4, <2>2, <2>3
<1>7. Orderly(cs)
  BY <1>2, <1>5, <1>6 DEF Orderly
<1> QED BY <1>7 DEF cs

\* What every adapter does with a block that it makes of item n.
Made(b, n) == Sound(b) /\ b.id = n /\ EndsBefore(b, n + 1)
\* A scan that has emitted the block of the next item
LEMMA ScanEmits ==
  ASSUME NEW n \in Nat, NEW acc \in ScanTo(n), NEW stack \in Seq(Title), NEW b, Made(b, n + 1)
  PROVE  Emit(acc, stack, b) \in ScanTo(n + 1)
<1> DEFINE bs == acc.blocks
           new == Emit(acc, stack, b)
<1>1. acc \in Scan /\ Orderly(bs) /\ \A k \in 1..Len(bs) : EndsBefore(bs[k], n + 1)
  BY DEF ScanTo
<1>2. Sound(b) /\ b \in Block /\ b.id = n + 1 /\ EndsBefore(b, n + 2)
  BY DEF Made, Sound
<1>3. Orderly(Append(bs, b))
  <2> HIDE DEF bs
  <2> QED BY <1>1, <1>2, OrderlyAppend
<1>4. bs \in Seq(Block) /\ acc.page \in Nat
  BY <1>1 DEF Scan
<1>5. new = [stack |-> stack, blocks |-> Append(bs, b), page |-> acc.page]
  <2>1. acc = [stack |-> acc.stack, blocks |-> acc.blocks, page |-> acc.page]
    BY <1>1 DEF Scan
  <2>2. new = [acc EXCEPT !.stack = stack, !.blocks = Append(acc.blocks, b)]
    BY DEF Emit
  <2> HIDE DEF new
  <2> QED BY <2>1, <2>2
<1>6. new \in Scan
  <2> DEFINE cs == Append(bs, b)
  <2>1. cs \in Seq(Block)
    BY <1>2, <1>4
  <2> HIDE DEF cs, bs
  <2>2. new = [stack |-> stack, blocks |-> cs, page |-> acc.page]
    BY <1>5 DEF cs
  <2> HIDE DEF new
  <2> QED BY <1>4, <2>1, <2>2 DEF Scan
<1>7. acc \in ScanTo(n + 1)
  BY ScanOn
<1>8. \A k \in 1..Len(bs) : EndsBefore(bs[k], n + 2)
  BY <1>7 DEF ScanTo
<1>9. ASSUME NEW k \in 1..Len(Append(bs, b))
      PROVE  EndsBefore(Append(bs, b)[k], n + 2)
  <2>1. k \in 1..Len(bs) \/ k = Len(bs) + 1
    BY <1>4
  <2>2. k \in 1..Len(bs) => Append(bs, b)[k] = bs[k]
    BY <1>4
  <2>3. Append(bs, b)[Len(bs) + 1] = b
    BY <1>4
  <2> HIDE DEF bs
  <2> QED BY <1>2, <1>8, <2>1, <2>2, <2>3
<1>10. new.blocks = Append(bs, b)
  BY <1>5
<1>11. Orderly(new.blocks) /\ \A k \in 1..Len(new.blocks) : EndsBefore(new.blocks[k], n + 2)
  <2> HIDE DEF new, bs
  <2> QED BY <1>3, <1>9, <1>10
<1>12. n + 1 + 1 = n + 2
  OBVIOUS
<1> HIDE DEF new
<1>13. new \in ScanTo(n + 1)
  BY <1>6, <1>11, <1>12 DEF ScanTo
<1> QED
  BY <1>13 DEF new

\* The text of item n: its pieces, and where one of them may end like page junk
Lettered(text, n, line) ==
    /\ text \in Seq(Piece) /\ Len(text) >= 2 /\ IsInjective(text)
    /\ \A k \in 1..Len(text) : text[k].of = n
    /\ \A k \in 3..Len(text) : text[k].part \in {"more", "mark"}
    /\ line \notin EndsAsJunk => text[2].part # "mark"
\* The text of a block that an item makes.
LEMMA TextMade ==
  ASSUME NEW n \in Nat, NEW line, NEW more \in {"none", "more", "mark"},
         line \in EndsAsJunk => more = "none"
  PROVE  Lettered(TextOf(n, line, more), n, line)
<1> DEFINE rest == IF line \in EndsAsJunk THEN "mark" ELSE "rest"
           p == [of |-> n, part |-> "label"]
           q == [of |-> n, part |-> rest]
           r == [of |-> n, part |-> more]
           text == TextOf(n, line, more)
<1>1. rest \in {"rest", "mark"} /\ (line \notin EndsAsJunk => rest = "rest")
      /\ (more # "none" => rest = "rest" /\ more \in {"more", "mark"})
  OBVIOUS
<1>5. more # "none" => text = <<p, q>> \o <<r>>
  BY DEF TextOf
<1>6. more = "none" => text = <<p, q>> \o <<>>
  BY DEF TextOf
<1> HIDE DEF text, rest
<1>7. /\ p \in Piece /\ q \in Piece /\ p.of = n /\ q.of = n /\ p # q
      /\ (line \notin EndsAsJunk => q.part # "mark")
  <2>1. p.part # q.part
    BY <1>1
  <2> QED BY <1>1, <2>1 DEF Piece
<1>8. more # "none" => /\ r \in Piece /\ r.of = n /\ p # r /\ q # r
                       /\ r.part \in {"more", "mark"}
  <2>1. more # "none" => p.part # r.part /\ q.part # r.part
    BY <1>1
  <2> QED BY <1>1, <2>1 DEF Piece
<1> HIDE DEF p, q, r
<1> DEFINE s == <<p, q>>
<1>2. s \in Seq(Piece) /\ Len(s) = 2 /\ s[1] = p /\ s[2] = q
  BY <1>7
<1>3. CASE more # "none"
  <2> DEFINE t == <<r>>
  <2>1. t \in Seq(Piece) /\ Len(t) = 1 /\ t[1] = r
    BY <1>3, <1>8
  <2>2. text = s \o t
    BY <1>3, <1>5
  <2> HIDE DEF s, t
  <2>10. s \in Seq(Piece) /\ t \in Seq(Piece)
    BY <1>2, <2>1
  <2>9. /\ s \o t \in Seq(Piece) /\ Len(s \o t) = Len(s) + Len(t)
        /\ \A k \in 1..Len(s) : (s \o t)[k] = s[k]
        /\ \A k \in 1..Len(t) : (s \o t)[Len(s) + k] = t[k]
    BY <2>10, ConcatParts
  <2>3. /\ text \in Seq(Piece) /\ Len(text) = 3
        /\ text[1] = p /\ text[2] = q /\ text[3] = r
    BY <1>2, <2>1, <2>2, <2>9
  <2>4. DOMAIN text = 1..3
    BY <2>3
  <2>5. \A k \in 1..3 : k = 1 \/ k = 2 \/ k = 3
    OBVIOUS
  <2>6. \A k \in 1..3 : text[k].of = n
    BY <1>3, <1>7, <1>8, <2>3, <2>5
  <2>7. \A j \in 1..3, k \in 1..3 : text[j] = text[k] => j = k
    BY <1>3, <1>7, <1>8, <2>3, <2>5
  <2>8. IsInjective(text)
    BY <2>4, <2>7 DEF IsInjective
  <2>11. \A k \in 3..3 : text[k].part \in {"more", "mark"}
    BY <1>3, <1>8, <2>3
  <2> QED BY <1>7, <2>3, <2>6, <2>8, <2>11 DEF Lettered, text
<1>4. CASE more = "none"
  <2> DEFINE t == <<>>
  <2>1. text = s \o t /\ t \in Seq(Piece)
    BY <1>4, <1>6
  <2>2. text = s
    <3> HIDE DEF s
    <3>1. s \o <<>> = s
      BY <1>2
    <3> QED BY <2>1, <3>1
  <2> HIDE DEF s, t
  <2>3. text \in Seq(Piece) /\ Len(text) = 2 /\ text[1] = p /\ text[2] = q
    BY <1>2, <2>2
  <2>4. DOMAIN text = 1..2
    BY <2>3
  <2>5. \A k \in 1..2 : k = 1 \/ k = 2
    OBVIOUS
  <2>6. \A k \in 1..2 : text[k].of = n
    BY <1>7, <2>3, <2>5
  <2>7. \A j \in 1..2, k \in 1..2 : text[j] = text[k] => j = k
    BY <1>7, <2>3, <2>5
  <2>8. IsInjective(text)
    BY <2>4, <2>7 DEF IsInjective
  <2> QED BY <1>7, <2>3, <2>6, <2>8 DEF Lettered, text
<1> QED BY <1>3, <1>4 DEF text

\* A heading is one because the parser or its first line says so.
HeadingOf(item, type) ==
    type = "heading" => \/ TypeOf(item.label) = "heading"
                        \/ item.line \in {"chapter", "article", "numbered", "keyword", "toc"}

\* The block that an item makes.
LEMMA BlockMade ==
  ASSUME NEW item \in Proper, NEW n \in Nat, NEW page \in Nat, NEW type \in BlockType,
         NEW path \in Seq(Title), HeadingOf(item, type)
  PROVE  LET b == BlockOf(item, n, page, type, path)
         IN  Made(b, n) /\ b.type = type
<1> DEFINE b == BlockOf(item, n, page, type, path)
           line == IF type = "figure" /\ item.line = "blank" THEN "phrase" ELSE item.line
           text == TextOf(n, item.line, item.more)
           sheet == <<>>
<1>1. b = [id |-> n, page |-> page, order |-> n, type |-> type, line |-> line,
           title |-> item.title, path |-> path, size |-> item.size,
           band |-> item.band, wide |-> item.wide, sheet |-> sheet, text |-> text]
  BY DEF BlockOf
<1>2. item \in Item /\ OneLine(item) /\ (HasTitle(item) => item.title # <<>>)
  BY DEF Proper
<1>3. /\ item.size \in Nat /\ item.title \in Title /\ item.band \in 0..2 /\ item.wide \in BOOLEAN
      /\ item.line \in Line /\ item.more \in {"none", "more", "mark"}
  BY <1>2 DEF Item
<1>4. line \in Line /\ sheet \in Title
  BY <1>3 DEF Line, Title
<1>13. Lettered(text, n, item.line)
  <2>1. item.line \in EndsAsJunk => item.more = "none"
    BY <1>2 DEF OneLine, EndsAsJunk, WholeText
  <2> QED BY <1>3, <2>1, TextMade
<1>14. ~ArticleLine(b) \/ item.line \notin EndsAsJunk
  <2>1. ArticleLine(b) => item.line \in {"article", "provision"}
    BY <1>1 DEF ArticleLine
  <2> QED BY <2>1 DEF EndsAsJunk
<1> HIDE DEF b, text, sheet
<1>5. /\ text \in Seq(Piece) /\ Len(text) >= 2 /\ IsInjective(text)
      /\ \A k \in 1..Len(text) : text[k].of = n
      /\ \A k \in 3..Len(text) : text[k].part \in {"more", "mark"}
      /\ item.line \notin EndsAsJunk => text[2].part # "mark"
  BY <1>13 DEF Lettered
<1>6. b \in Block
  <2> HIDE DEF line
  <2> QED BY <1>1, <1>3, <1>4, <1>5 DEF Block
<1>7. b.id = n /\ b.order = n /\ b.text = text /\ b.title = item.title /\ b.type = type
      /\ b.line = line
  BY <1>1
<1>12. type # "figure" => line = item.line
  OBVIOUS
<1> HIDE DEF line
<1>8. Entitled(b)
  <2>1. SUFFICES ASSUME Classified(b) \/ Inferred(b) PROVE HasTitle(item)
    BY <1>2, <1>7 DEF Entitled
  <2>2. \/ type = "heading" /\ item.line \in TitleLine
        \/ type = "paragraph" /\ item.line \in {"article", "chapter", "numbered"}
    <3>1. CASE Classified(b)
      <4>1. type = "heading" /\ line \in TitleLine
        BY <1>7, <3>1 DEF Classified
      <4> QED BY <1>12, <4>1
    <3>2. CASE Inferred(b)
      <4>1. type = "paragraph" /\ line \in {"article", "chapter", "numbered"}
        BY <1>7, <3>2 DEF Inferred, Structured
      <4> QED BY <1>12, <4>1
    <3> QED BY <2>1, <3>1, <3>2
  <2> QED BY <2>2 DEF HeadingOf, HasTitle
<1>9. Sound(b)
  <2>1. Lined(b)
    BY <1>5, <1>7, <1>14 DEF Lined
  <2> QED BY <1>5, <1>6, <1>7, <1>8, <2>1 DEF Sound
<1>10. EndsBefore(b, n + 1)
  BY <1>5, <1>7 DEF EndsBefore
<1>11. Made(b, n) /\ b.type = type
  BY <1>7, <1>9, <1>10 DEF Made
<1> QED
  BY <1>11 DEF b

\* Without its box it is the same block.
LEMMA NoBoxMade ==
  ASSUME NEW b, NEW n \in Nat, Made(b, n)
  PROVE  Made(NoBox(b), n) /\ NoBox(b).type = b.type /\ NoBox(b).band = 0
<1> DEFINE c == NoBox(b)
<1>1. b \in Block /\ Sound(b) /\ EndsBefore(b, n + 1)
  BY DEF Made, Sound
<1>2. c = [b EXCEPT !.band = 0, !.wide = FALSE]
  BY DEF NoBox
<1> HIDE DEF c
<1>3. /\ c.id = b.id /\ c.order = b.order /\ c.text = b.text /\ c.title = b.title
      /\ c.type = b.type /\ c.line = b.line /\ c.band = 0
  BY <1>1, <1>2 DEF Block
<1>4. c \in Block
  <2>1. b.text \in Seq(Piece) /\ b.path \in Seq(Title)
    BY <1>1 DEF Block
  <2>2. 0 \in 0..2 /\ FALSE \in BOOLEAN
    OBVIOUS
  <2> QED BY <1>1, <1>2, <2>2 DEF Block
<1>5. Sound(c)
  BY <1>1, <1>3, <1>4 DEF Sound, Entitled, Classified, Inferred, Lined
<1>6. EndsBefore(c, n + 1)
  BY <1>1, <1>3 DEF EndsBefore
<1>7. Made(c, n) /\ c.type = b.type /\ c.band = 0
  BY <1>3, <1>5, <1>6 DEF Made
<1> QED
  BY <1>7 DEF c

\* A title of a markdown file keeps its marks: it is not empty.
LEMMA MarkedMade ==
  ASSUME NEW b, NEW n \in Nat, Made(b, n)
  PROVE  Made(Marked(b), n) /\ Marked(b).band = b.band
<1> DEFINE c == Marked(b)
           title == <<"#">> \o b.title
<1>1. b \in Block /\ Sound(b) /\ EndsBefore(b, n + 1)
  BY DEF Made, Sound
<1>2. b.title \in Seq(Word) /\ "#" \in Word
  BY <1>1 DEF Block, Title, Word
<1>3. title \in Title /\ title # <<>>
  <2> DEFINE t == b.title
             w == "#"
  <2>1. t \in Seq(Word) /\ w \in Word
    BY <1>2
  <2> HIDE DEF t, w
  <2>2. <<w>> \o t \in Seq(Word) /\ Len(<<w>> \o t) = 1 + Len(t) /\ Len(t) \in Nat
    BY <2>1
  <2>3. <<w>> \o t # <<>>
    BY <2>2
  <2> QED BY <2>2, <2>3 DEF Title, t, w
<1>4. c = [b EXCEPT !.line = "phrase", !.title = title]
  BY DEF Marked
<1> HIDE DEF c, title
<1>5. "phrase" \in Line
  BY DEF Line
<1>6. /\ c.id = b.id /\ c.order = b.order /\ c.text = b.text /\ c.title = title
      /\ c.band = b.band /\ c.line = "phrase"
  BY <1>1, <1>4 DEF Block
<1>7. c \in Block
  <2>1. b.text \in Seq(Piece) /\ b.path \in Seq(Title)
    BY <1>1 DEF Block
  <2> QED BY <1>1, <1>3, <1>4, <1>5, <2>1 DEF Block
<1>8. Sound(c)
  <2>1. Lined(c)
    BY <1>1, <1>6 DEF Sound, Lined, ArticleLine
  <2> QED BY <1>1, <1>3, <1>6, <1>7, <2>1 DEF Sound, Entitled
<1>9. EndsBefore(c, n + 1)
  BY <1>1, <1>6 DEF EndsBefore
<1>10. Made(c, n) /\ c.band = b.band
  BY <1>6, <1>8, <1>9 DEF Made
<1> QED BY <1>10 DEF c

-----------------------------------------------------------------------------
(* The adapters *)

\* What the headings and the items of a file are
Given(items) == items \in Seq(Proper)

\* Every label has a type of block.
LEMMA TypeOfLabel == ASSUME NEW label \in Label PROVE TypeOf(label) \in BlockType
<1>1. CASE label = "text"
  BY <1>1 DEF TypeOf, BlockType
<1>2. CASE label \in {"title", "section_header"}
  BY <1>2 DEF TypeOf, BlockType
<1>3. CASE label = "list"
  BY <1>3 DEF TypeOf, BlockType
<1>4. CASE label = "picture"
  BY <1>4 DEF TypeOf, BlockType
<1>5. CASE label \notin {"text", "title", "section_header", "list", "picture"}
  <2>1. TypeOf(label) = label
    BY <1>5 DEF TypeOf
  <2> QED BY <1>5, <2>1 DEF Label
<1> QED
  BY <1>1, <1>2, <1>3, <1>4, <1>5

\* A heading goes on the stack of headings.
LEMMA PushType ==
  ASSUME NEW stack \in Seq(Title), NEW item \in Item
  PROVE  Push(stack, item) \in Seq(Title)
<1> DEFINE m == Min({item.level - 1, Len(stack)})
           above == SubSeq(stack, 1, m)
<1>1. item.level \in Nat /\ item.title \in Title /\ Len(stack) \in Nat
  BY DEF Item
<1>2. m \in Int /\ m <= Len(stack)
  <2> DEFINE a == item.level - 1
             c == Len(stack)
  <2>1. a \in Int /\ c \in Int
    BY <1>1
  <2> HIDE DEF a, c
  <2>2. \E x \in {a, c} : \A y \in {a, c} : x <= y
    BY <2>1
  <2>3. Min({a, c}) \in {a, c} /\ \A y \in {a, c} : Min({a, c}) <= y
    BY <2>2 DEF Min
  <2> QED BY <2>1, <2>3 DEF a, c
<1> HIDE DEF m
<1>3. above \in Seq(Title)
  <2>1. \A k \in 1..m : k \in 1..Len(stack)
    BY <1>1, <1>2
  <2> QED BY <1>1, <1>2, <2>1
<1>4. Push(stack, item) = Append(above, item.title)
  BY DEF Push, m
<1> HIDE DEF above
<1> QED
  BY <1>1, <1>3, <1>4

\* An adapter is a walk over the positions of the items; what each step keeps, holds at its end.
LEMMA ScanEnds ==
  ASSUME NEW items, Given(items), NEW steps,
         steps = [n \in DOMAIN Positions(items) |-> steps[n]],
         \A n \in 1..Len(items) : \A acc \in ScanTo(n - 1) : steps[n][acc] \in ScanTo(n)
  PROVE  Orderly(Folded(Nothing, steps).blocks)
<1>1. items \in Seq(Proper)
  BY DEF Given
<1> DEFINE N == Len(items)
           e == <<>>
           P == [n \in 0..N |-> ScanTo(n)]
<1>2. N \in Nat /\ DOMAIN items = 1..N
  BY <1>1
<1>3. DOMAIN Positions(items) = 1..N
  BY <1>2 DEF Positions
<1>4. Nothing \in ScanTo(0)
  <2>1. Nothing.blocks = e /\ Nothing = [stack |-> e, blocks |-> e, page |-> 0] /\ Len(e) = 0
    BY DEF Nothing
  <2>2. e \in Seq(Block) /\ e \in Seq(Title)
    OBVIOUS
  <2> HIDE DEF e
  <2>3. Orderly(e)
    BY <2>1, <2>2 DEF Orderly
  <2>4. Nothing \in Scan
    BY <2>1, <2>2 DEF Scan
  <2> QED BY <2>1, <2>3, <2>4 DEF ScanTo
<1>5. Len(steps) = N
  BY <1>2, <1>3, FunctionLen
<1>6. Nothing \in P[0] /\ \A n \in 1..N : \A v \in P[n - 1] : steps[n][v] \in P[n]
  <2>1. \A n \in 1..N : n - 1 \in 0..N /\ n \in 0..N
    BY <1>2
  <2>2. ASSUME NEW n \in 1..N, NEW v \in P[n - 1] PROVE steps[n][v] \in P[n]
    <3>1. P[n - 1] = ScanTo(n - 1) /\ P[n] = ScanTo(n)
      BY <2>1
    <3> HIDE DEF P
    <3> QED BY <2>2, <3>1
  <2>3. P[0] = ScanTo(0)
    BY <1>2
  <2> HIDE DEF P
  <2> QED BY <1>4, <2>2, <2>3
<1>7. Folded(Nothing, steps) \in P[N]
  <2> HIDE DEF P, N
  <2> QED BY <1>2, <1>5, <1>6, FoldedKeeps
<1>8. Folded(Nothing, steps) \in ScanTo(N)
  BY <1>2, <1>7
<1> QED
  BY <1>8 DEF ScanTo

\* What a step does with an item
LEMMA ScanItem ==
  ASSUME NEW items, Given(items), NEW n \in 1..Len(items), NEW acc \in ScanTo(n - 1)
  PROVE  /\ n - 1 \in Nat /\ n \in Nat /\ (n - 1) + 1 = n
         /\ items[n] \in Proper /\ items[n] \in Item /\ TypeOf(items[n].label) \in BlockType
         /\ items[n].page \in Nat /\ items[n].title \in Title /\ items[n].hints \in Seq(Title)
         /\ acc.stack \in Seq(Title) /\ acc.blocks \in Seq(Block) /\ acc.page \in Nat
         /\ acc \in ScanTo(n) /\ acc \in Scan
         /\ n \in DOMAIN Positions(items) /\ Positions(items)[n] = n
<1>1. items[n] \in Proper /\ n - 1 \in Nat /\ n \in Nat /\ (n - 1) + 1 = n
  BY DEF Given
<1>2. items[n] \in Item
  BY <1>1 DEF Proper
<1>3. /\ items[n].page \in Nat /\ items[n].title \in Title /\ items[n].hints \in Seq(Title)
      /\ items[n].label \in Label
  BY <1>2 DEF Item
<1>4. acc.stack \in Seq(Title) /\ acc.blocks \in Seq(Block) /\ acc.page \in Nat
  BY DEF ScanTo, Scan
<1>5. acc \in ScanTo(n) /\ acc \in Scan
  BY <1>1, ScanOn DEF ScanTo
<1>6. n \in DOMAIN Positions(items) /\ Positions(items)[n] = n
  BY DEF Given, Positions
<1> QED
  BY <1>1, <1>2, <1>3, <1>4, <1>5, <1>6, TypeOfLabel

\* Docling
LEMMA DoclingOrderly == ASSUME NEW items, Given(items) PROVE Orderly(DoclingBlocks(items))
<1> DEFINE steps == [n \in DOMAIN Positions(items) |->
                        [acc \in Scan |-> DoclingRead(acc, items, Positions(items)[n])]]
<1>1. ASSUME NEW n \in 1..Len(items), NEW acc \in ScanTo(n - 1)
      PROVE  steps[n][acc] \in ScanTo(n)
  <2> DEFINE item == items[n]
             type == TypeOf(item.label)
  <2>1. /\ n - 1 \in Nat /\ n \in Nat /\ (n - 1) + 1 = n /\ item \in Proper /\ item \in Item
        /\ type \in BlockType /\ item.page \in Nat /\ item.title \in Title
        /\ item.hints \in Seq(Title) /\ acc.stack \in Seq(Title)
    BY ScanItem
  <2>2. acc \in ScanTo(n) /\ steps[n][acc] = DoclingRead(acc, items, n)
    BY ScanItem
  <2> DEFINE stack == DoclingStack(acc, item)
             b == BlockOf(item, n, item.page, type, stack)
  <2>3. stack \in Seq(Title)
    BY <2>1, PushType DEF DoclingStack
  <2> HIDE DEF stack
  <2>4. Made(b, n)
    <3>1. HeadingOf(item, type)
      BY DEF HeadingOf
    <3> HIDE DEF type, item
    <3> QED BY <2>1, <2>3, <3>1, BlockMade
  <2> HIDE DEF b
  <2>5. Emit(acc, stack, b) \in ScanTo(n)
    BY <2>1, <2>3, <2>4, ScanEmits
  <2>6. DoclingRead(acc, items, n) \in {acc, Emit(acc, stack, b)}
    BY DEF DoclingRead, b, stack
  <2> QED BY <2>2, <2>5, <2>6
<1>2. steps = [n \in DOMAIN Positions(items) |-> steps[n]]
  OBVIOUS
<1>3. DoclingBlocks(items) = Folded(Nothing, steps).blocks
  BY DEF DoclingBlocks, Scanned, Walk
<1> HIDE DEF steps
<1> QED
  BY <1>1, <1>2, <1>3, ScanEnds

\* Docling by its chunks
LEMMA StructuredOrderly == ASSUME NEW items, Given(items) PROVE Orderly(StructuredBlocks(items))
<1> DEFINE steps == [n \in DOMAIN Positions(items) |->
                        [acc \in Scan |-> StructuredRead(acc, items, Positions(items)[n])]]
<1>1. ASSUME NEW n \in 1..Len(items), NEW acc \in ScanTo(n - 1)
      PROVE  steps[n][acc] \in ScanTo(n)
  <2> DEFINE item == items[n]
             type == TypeOf(item.label)
  <2>1. /\ n - 1 \in Nat /\ n \in Nat /\ (n - 1) + 1 = n /\ item \in Proper /\ item \in Item
        /\ type \in BlockType /\ item.page \in Nat /\ item.title \in Title
        /\ item.hints \in Seq(Title) /\ acc.stack \in Seq(Title)
    BY ScanItem
  <2>2. acc \in ScanTo(n) /\ steps[n][acc] = StructuredRead(acc, items, n)
    BY ScanItem
  <2> DEFINE b == BlockOf(item, n, item.page, type, item.hints)
             e == <<>>
  <2>3. Made(b, n)
    <3>1. HeadingOf(item, type)
      BY DEF HeadingOf
    <3> HIDE DEF type, item
    <3> QED BY <2>1, <3>1, BlockMade
  <2> HIDE DEF b
  <2>4. Made(NoBox(b), n)
    BY <2>1, <2>3, NoBoxMade
  <2>5. Emit(acc, e, NoBox(b)) \in ScanTo(n)
    <3>1. e \in Seq(Title)
      OBVIOUS
    <3> HIDE DEF e
    <3> QED BY <2>1, <2>4, <3>1, ScanEmits
  <2>6. StructuredRead(acc, items, n) \in {acc, Emit(acc, e, NoBox(b))}
    BY DEF StructuredRead, b
  <2> QED BY <2>2, <2>5, <2>6
<1>2. steps = [n \in DOMAIN Positions(items) |-> steps[n]]
  OBVIOUS
<1>3. StructuredBlocks(items) = Folded(Nothing, steps).blocks
  BY DEF StructuredBlocks, Scanned, Walk
<1> HIDE DEF steps
<1> QED
  BY <1>1, <1>2, <1>3, ScanEnds

\* The content list of MinerU
LEMMA MinerUOrderly == ASSUME NEW items, Given(items) PROVE Orderly(MinerUBlocks(items))
<1> DEFINE steps == [n \in DOMAIN Positions(items) |->
                        [acc \in Scan |-> MinerURead(acc, items, Positions(items)[n])]]
<1>1. ASSUME NEW n \in 1..Len(items), NEW acc \in ScanTo(n - 1)
      PROVE  steps[n][acc] \in ScanTo(n)
  <2> DEFINE item == items[n]
             type == TypeOf(item.label)
  <2>1. /\ n - 1 \in Nat /\ n \in Nat /\ (n - 1) + 1 = n /\ item \in Proper /\ item \in Item
        /\ type \in BlockType /\ item.page \in Nat /\ item.title \in Title
        /\ item.hints \in Seq(Title) /\ acc.stack \in Seq(Title)
    BY ScanItem
  <2>2. acc \in ScanTo(n) /\ steps[n][acc] = MinerURead(acc, items, n)
    BY ScanItem
  <2> DEFINE stack == IF type = "heading" THEN Push(acc.stack, item) ELSE acc.stack
             b == BlockOf(item, n, item.page, type, stack)
  <2>3. stack \in Seq(Title)
    BY <2>1, PushType
  <2> HIDE DEF stack
  <2>4. Made(b, n)
    <3>1. HeadingOf(item, type)
      BY DEF HeadingOf
    <3> HIDE DEF type, item
    <3> QED BY <2>1, <2>3, <3>1, BlockMade
  <2> HIDE DEF b
  <2>5. Emit(acc, stack, b) \in ScanTo(n)
    BY <2>1, <2>3, <2>4, ScanEmits
  <2>6. MinerURead(acc, items, n) \in {acc, Emit(acc, stack, b)}
    BY DEF MinerURead, b, stack
  <2> QED BY <2>2, <2>5, <2>6
<1>2. steps = [n \in DOMAIN Positions(items) |-> steps[n]]
  OBVIOUS
<1>3. MinerUBlocks(items) = Folded(Nothing, steps).blocks
  BY DEF MinerUBlocks, Scanned, Walk
<1> HIDE DEF steps
<1> QED
  BY <1>1, <1>2, <1>3, ScanEnds

\* A text file
LEMMA TextOrderly == ASSUME NEW items, Given(items) PROVE Orderly(TextBlocks(items))
<1> DEFINE steps == [n \in DOMAIN Positions(items) |->
                        [acc \in Scan |-> TextRead(acc, items, Positions(items)[n])]]
<1>1. ASSUME NEW n \in 1..Len(items), NEW acc \in ScanTo(n - 1)
      PROVE  steps[n][acc] \in ScanTo(n)
  <2> DEFINE item == items[n]
             type == TypeOf(item.label)
  <2>1. /\ n - 1 \in Nat /\ n \in Nat /\ (n - 1) + 1 = n /\ item \in Proper /\ item \in Item
        /\ type \in BlockType /\ item.page \in Nat /\ item.title \in Title
        /\ item.hints \in Seq(Title) /\ acc.stack \in Seq(Title)
    BY ScanItem
  <2>2. acc \in ScanTo(n) /\ steps[n][acc] = TextRead(acc, items, n)
    BY ScanItem
  <2> DEFINE stack == IF TextHeading(item) THEN <<item.title>> ELSE acc.stack
             kind0 == TextType(item)
             b == BlockOf(item, n, 1, kind0, stack)
  <2>3. stack \in Seq(Title)
    BY <2>1
  <2>4. kind0 \in BlockType /\ HeadingOf(item, kind0)
    BY DEF TextType, TextHeading, MarkedTitle, HeadingOf, BlockType
  <2> HIDE DEF stack, kind0
  <2>5. Made(b, n)
    <3> HIDE DEF type, item
    <3> QED BY <2>1, <2>3, <2>4, BlockMade
  <2> HIDE DEF b
  <2> DEFINE plain == NoBox(b)
             marked == Marked(plain)
  <2>6. Made(plain, n)
    BY <2>1, <2>5, NoBoxMade
  <2>9. Made(marked, n)
    <3> HIDE DEF plain
    <3> QED BY <2>1, <2>6, MarkedMade
  <2>8. TextRead(acc, items, n) \in {acc, Emit(acc, stack, plain), Emit(acc, stack, marked)}
    BY DEF TextRead, b, stack, kind0
  <2> HIDE DEF plain, marked
  <2>7. Emit(acc, stack, plain) \in ScanTo(n) /\ Emit(acc, stack, marked) \in ScanTo(n)
    BY <2>1, <2>3, <2>6, <2>9, ScanEmits
  <2> QED BY <2>2, <2>7, <2>8
<1>2. steps = [n \in DOMAIN Positions(items) |-> steps[n]]
  OBVIOUS
<1>3. TextBlocks(items) = Folded(Nothing, steps).blocks
  BY DEF TextBlocks, Scanned, Walk
<1> HIDE DEF steps
<1> QED
  BY <1>1, <1>2, <1>3, ScanEnds

\* The rows of a table
LEMMA RowOrderly == ASSUME NEW items, Given(items) PROVE Orderly(RowBlocks(items))
<1> DEFINE steps == [n \in DOMAIN Positions(items) |->
                        [acc \in Scan |-> RowRead(acc, items, Positions(items)[n])]]
<1>1. ASSUME NEW n \in 1..Len(items), NEW acc \in ScanTo(n - 1)
      PROVE  steps[n][acc] \in ScanTo(n)
  <2> DEFINE item == items[n]
             type == TypeOf(item.label)
  <2>1. /\ n - 1 \in Nat /\ n \in Nat /\ (n - 1) + 1 = n /\ item \in Proper /\ item \in Item
        /\ type \in BlockType /\ item.page \in Nat /\ item.title \in Title
        /\ item.hints \in Seq(Title) /\ acc.stack \in Seq(Title)
    BY ScanItem
  <2>2. acc \in ScanTo(n) /\ steps[n][acc] = RowRead(acc, items, n)
    BY ScanItem
  <2> DEFINE path == <<item.title>>
             b == BlockOf(item, n, 1, "table", path)
             c == NoBox(b)
             d == [c EXCEPT !.line = "phrase", !.title = <<>>, !.sheet = item.title]
             e == <<>>
  <2>3. path \in Seq(Title) /\ e \in Seq(Title) /\ e \in Title /\ item.title \in Title
    BY <2>1 DEF Title
  <2>4. "table" \in BlockType /\ HeadingOf(item, "table") /\ "phrase" \in Line
    BY DEF BlockType, HeadingOf, Line
  <2> HIDE DEF path, e
  <2>5. Made(b, n) /\ b.type = "table"
    <3> HIDE DEF type, item
    <3> QED BY <2>1, <2>3, <2>4, BlockMade
  <2> HIDE DEF b
  <2>6. Made(c, n) /\ c.type = "table"
    BY <2>1, <2>5, NoBoxMade
  <2>10. c.band = 0
    BY <2>1, <2>5, NoBoxMade
  <2> HIDE DEF c
  <2>7. Made(d, n)
    <3>1. c \in Block /\ Sound(c) /\ EndsBefore(c, n + 1) /\ c.id = n
      BY <2>6 DEF Made, Sound
    <3> DEFINE sheet == item.title
    <3>2. sheet \in Title
      BY <2>3
    <3> HIDE DEF sheet, item
    <3>3. d = [c EXCEPT !.line = "phrase", !.title = e, !.sheet = sheet]
      BY DEF e, sheet
    <3> HIDE DEF d
    <3>4. /\ d.id = c.id /\ d.order = c.order /\ d.text = c.text /\ d.type = c.type
          /\ d.band = 0 /\ d \in Block
      BY <2>3, <2>4, <2>10, <3>1, <3>2, <3>3 DEF Block
    <3>5. Entitled(d)
      BY <2>6, <3>4 DEF Entitled, Classified, Inferred
    <3>6. Sound(d)
      BY <3>1, <3>4, <3>5 DEF Sound, Lined
    <3> QED BY <3>1, <3>4, <3>6 DEF Made, EndsBefore
  <2>8. Emit(acc, e, d) \in ScanTo(n)
    <3> HIDE DEF d
    <3> QED BY <2>1, <2>3, <2>7, ScanEmits
  <2>9. RowRead(acc, items, n) \in {acc, Emit(acc, e, d)}
    BY DEF RowRead, b, c, e, path
  <2> QED BY <2>2, <2>8, <2>9
<1>2. steps = [n \in DOMAIN Positions(items) |-> steps[n]]
  OBVIOUS
<1>3. RowBlocks(items) = Folded(Nothing, steps).blocks
  BY DEF RowBlocks, Scanned, Walk
<1> HIDE DEF steps
<1> QED
  BY <1>1, <1>2, <1>3, ScanEnds

\* The first chapter or article of a page is a path of titles.
LEMMA FirstOnType ==
  ASSUME NEW items, Given(items), NEW page, NEW lines
  PROVE  FirstOn(items, page, lines) \in Seq(Title)
<1> DEFINE S == {i \in Proper : i.page = page /\ i.line \in lines}
           P == {n \in DOMAIN items : items[n].page = page /\ items[n].line \in lines}
           found == At(items, P)
<1>1. items \in Seq(Proper)
  BY DEF Given
<1>2. \A n \in DOMAIN items : n \in P <=> items[n] \in S
  BY <1>1
<1>3. found \in Seq(Proper)
  <2> HIDE DEF P, S
  <2>1. found = Only(items, S)
    BY <1>2, AtIsOnly
  <2> QED BY <1>1, <2>1, OnlyType
<1>4. FirstOn(items, page, lines) = IF found = <<>> THEN <<>> ELSE <<Short(Head(found).title)>>
  BY DEF FirstOn
<1> HIDE DEF found
<1>5. CASE found = <<>>
  BY <1>4, <1>5
<1>6. CASE found # <<>>
  <2>1. Head(found) \in Item
    BY <1>3, <1>6 DEF Proper
  <2>2. Head(found).title \in Title
    BY <2>1 DEF Item
  <2>3. Short(Head(found).title) \in Title
    <3> DEFINE t == Head(found).title
               w == "cut"
    <3>1. w \in Word
      BY DEF Word
    <3>3. t \in Seq(Word)
      BY <2>2 DEF Title
    <3> HIDE DEF t, w
    <3>2. Append(t, w) \in Seq(Word)
      BY <3>1, <3>3
    <3> QED BY <3>2 DEF Short, Title, t, w
  <2>4. FirstOn(items, page, lines) = <<Short(Head(found).title)>>
    BY <1>4, <1>6
  <2> QED BY <2>3, <2>4
<1> QED
  BY <1>5, <1>6

\* A page of a PDF starts with the path of its own metadata.
LEMMA PagePathType ==
  ASSUME NEW items, Given(items), NEW page
  PROVE  PagePath(items, page) \in Seq(Title)
<1>1. /\ FirstOn(items, page, {"chapter"}) \in Seq(Title)
      /\ FirstOn(items, page, {"article", "provision"}) \in Seq(Title)
  BY FirstOnType
<1> QED
  BY <1>1 DEF PagePath

\* Without the running headers and footers it is a file still.
LEMMA UndecoratedGiven ==
  ASSUME NEW items, Given(items)
  PROVE  Given(Undecorated(items))
<1>1. items \in Seq(Proper)
  BY DEF Given
<1> DEFINE gone == Furniture(items)
           new == Undecorated(items)
<1>2. new = [k \in DOMAIN items |->
                IF k \in gone THEN [items[k] EXCEPT !.line = "blank", !.more = "none"] ELSE items[k]]
  BY DEF Undecorated
<1> HIDE DEF gone, new
<1>3. ASSUME NEW i \in Proper PROVE [i EXCEPT !.line = "blank", !.more = "none"] \in Proper
  <2> DEFINE j == [i EXCEPT !.line = "blank", !.more = "none"]
  <2>1. i \in Item /\ "blank" \in Line
    BY DEF Proper, Line
  <2>2. i.hints \in Seq(Title) /\ i.title \in Title
    BY <2>1 DEF Item
  <2>3. j \in Item /\ j.line = "blank" /\ j.more = "none"
    BY <2>1, <2>2 DEF Item
  <2> HIDE DEF j
  <2>4. ~HasTitle(j) /\ OneLine(j)
    BY <2>3 DEF HasTitle, TitleLine, OneLine
  <2>5. j \in Proper
    BY <2>3, <2>4 DEF Proper
  <2> QED BY <2>5 DEF j
<1>4. ASSUME NEW k \in DOMAIN items
      PROVE  (IF k \in gone THEN [items[k] EXCEPT !.line = "blank", !.more = "none"]
              ELSE items[k]) \in Proper
  <2>1. items[k] \in Proper
    BY <1>1
  <2> QED BY <2>1, <1>3
<1>5. DOMAIN items = 1..Len(items) /\ Len(items) \in Nat
  BY <1>1
<1> HIDE DEF Given
<1>6. new \in [1..Len(items) -> Proper]
  BY <1>2, <1>4, <1>5
<1>7. new \in Seq(Proper)
  BY <1>5, <1>6
<1> QED
  BY <1>7 DEF Given, new

\* With its lines in one it is the same item.
LEMMA UnwrappedProper ==
  ASSUME NEW i \in Proper
  PROVE  Unwrapped(i) \in Proper /\ Unwrapped(i).line = i.line /\ Unwrapped(i).label = i.label
<1> DEFINE more == IF i.more = "more" THEN "none" ELSE i.more
           j == [i EXCEPT !.more = more]
<1>1. i \in Item /\ OneLine(i) /\ (HasTitle(i) => i.title # <<>>)
  BY DEF Proper
<1>2. /\ more \in {"none", "more", "mark"} /\ (i.more = "none" => more = "none")
      /\ i.hints \in Seq(Title) /\ i.title \in Title
  BY <1>1 DEF Item
<1>3. Unwrapped(i) = j
  BY DEF Unwrapped
<1> HIDE DEF more
<1>4. /\ j \in Item /\ j.line = i.line /\ j.label = i.label /\ j.title = i.title /\ j.more = more
  BY <1>1, <1>2 DEF Item
<1> HIDE DEF j
<1>5. OneLine(j) /\ (HasTitle(j) => j.title # <<>>)
  BY <1>1, <1>2, <1>4 DEF OneLine, HasTitle
<1> QED BY <1>3, <1>4, <1>5 DEF Proper

\* PyPDF
LEMMA PyPdfOrderly == ASSUME NEW file, Given(file) PROVE Orderly(PyPdfBlocks(file))
<1> DEFINE items == Undecorated(file)
           steps == [n \in DOMAIN Positions(items) |->
                        [acc \in Scan |-> PyPdfRead(acc, items, Positions(items)[n])]]
<1>4. Given(items)
  BY UndecoratedGiven
<1>3. PyPdfBlocks(file) = Folded(Nothing, steps).blocks
  BY DEF PyPdfBlocks, Scanned, Walk
<1>2. steps = [n \in DOMAIN Positions(items) |-> steps[n]]
  OBVIOUS
<1> HIDE DEF items
<1>1. ASSUME NEW n \in 1..Len(items), NEW acc \in ScanTo(n - 1)
      PROVE  steps[n][acc] \in ScanTo(n)
  <2> DEFINE item == items[n]
             type == TypeOf(item.label)
  <2>1. /\ n - 1 \in Nat /\ n \in Nat /\ (n - 1) + 1 = n /\ item \in Proper /\ item \in Item
        /\ type \in BlockType /\ item.page \in Nat /\ item.title \in Title
        /\ item.hints \in Seq(Title) /\ acc.stack \in Seq(Title)
    BY <1>4, ScanItem
  <2>2. acc \in ScanTo(n) /\ steps[n][acc] = PyPdfRead(acc, items, n)
    BY <1>4, ScanItem
  <2> DEFINE stack == PyPdfStack(acc, items, n)
             kind0 == PyPdfType(item)
             flat == Unwrapped(item)
             b == BlockOf(flat, n, item.page, kind0, stack)
             new == Emit(acc, stack, NoBox(b))
  <2>3. stack \in Seq(Title)
    BY <1>4, <2>1, PagePathType DEF PyPdfStack
  <2>4. kind0 \in BlockType /\ HeadingOf(item, kind0)
    BY DEF PyPdfType, HeadingOf, BlockType
  <2>10. flat \in Proper /\ flat.line = item.line /\ flat.label = item.label
    BY <2>1, UnwrappedProper
  <2>11. HeadingOf(flat, kind0)
    BY <2>4, <2>10 DEF HeadingOf
  <2> HIDE DEF stack, kind0, flat
  <2>5. Made(b, n)
    <3> HIDE DEF type, item
    <3> QED BY <2>1, <2>3, <2>4, <2>10, <2>11, BlockMade
  <2> HIDE DEF b
  <2>6. Made(NoBox(b), n)
    BY <2>1, <2>5, NoBoxMade
  <2>7. new \in ScanTo(n)
    BY <2>1, <2>3, <2>6, ScanEmits
  <2>8. PyPdfRead(acc, items, n) \in {acc, [new EXCEPT !.page = item.page]}
    BY DEF PyPdfRead, b, flat, stack, kind0
  <2> HIDE DEF new
  <2>9. [new EXCEPT !.page = item.page] \in ScanTo(n)
    <3>1. new \in Scan
      BY <2>7 DEF ScanTo
    <3>2. [new EXCEPT !.page = item.page] \in Scan
          /\ [new EXCEPT !.page = item.page].blocks = new.blocks
      BY <2>1, <3>1 DEF Scan
    <3> QED BY <2>7, <3>2 DEF ScanTo
  <2> QED BY <2>2, <2>8, <2>9<1> HIDE DEF steps
<1> QED
  BY <1>1, <1>2, <1>3, <1>4, ScanEnds

\* A paragraph goes to the one before it.
LEMMA GrownSound ==
  ASSUME NEW b, NEW c, NEW n \in Nat, Sound(b), Made(c, n), EndsBefore(b, n), b.band = 0,
         b.type = "paragraph"
  PROVE  LET d == [b EXCEPT !.text = b.text \o c.text, !.size = b.size + c.size,
                            !.line = IF b.line \in WholeText THEN "phrase" ELSE b.line]
         IN  Sound(d) /\ d.id = b.id /\ d.band = 0 /\ EndsBefore(d, n + 1)
<1> DEFINE text == b.text \o c.text
           size == b.size + c.size
           line == IF b.line \in WholeText THEN "phrase" ELSE b.line
           d == [b EXCEPT !.text = text, !.size = size, !.line = line]
           N == Len(b.text)
           M == Len(c.text)
<1>1. b \in Block /\ c \in Block /\ c.id = n /\ Sound(c) /\ EndsBefore(c, n + 1)
  BY DEF Made, Sound
<1>2. /\ b.text \in Seq(Piece) /\ c.text \in Seq(Piece) /\ b.path \in Seq(Title)
      /\ b.size \in Nat /\ c.size \in Nat /\ b.id \in Nat
  BY <1>1 DEF Block
<1>3. /\ text \in Seq(Piece) /\ Len(text) = N + M /\ N \in Nat /\ M \in Nat
      /\ \A k \in 1..N : text[k] = b.text[k]
      /\ \A k \in 1..M : text[N + k] = c.text[k]
  <2> DEFINE s == b.text
             t == c.text
  <2>1. s \in Seq(Piece) /\ t \in Seq(Piece)
    BY <1>2
  <2> HIDE DEF s, t
  <2>2. /\ s \o t \in Seq(Piece) /\ Len(s \o t) = Len(s) + Len(t)
        /\ \A k \in 1..Len(s) : (s \o t)[k] = s[k]
        /\ \A k \in 1..Len(t) : (s \o t)[Len(s) + k] = t[k]
    BY <2>1, ConcatParts
  <2>3. Len(s) \in Nat /\ Len(t) \in Nat
    BY <2>1
  <2> QED BY <2>2, <2>3 DEF s, t
<1>4. size \in Nat
  BY <1>2
<1>5. /\ N >= 2 /\ IsInjective(b.text) /\ IsInjective(c.text)
      /\ b.id < n /\ \A k \in 1..N : b.text[k].of < n /\ b.id <= b.text[k].of
      /\ \A k \in 1..M : n <= c.text[k].of /\ c.text[k].of < n + 1
  BY <1>1 DEF Sound, EndsBefore
<1>6. DOMAIN b.text = 1..N /\ DOMAIN c.text = 1..M
  BY <1>2
<1>13. /\ \A k \in 1..N : b.text[k].of \in Nat
       /\ \A k \in 1..M : c.text[k].of \in Nat
  <2>1. ASSUME NEW k \in 1..N PROVE b.text[k].of \in Nat
    <3>1. b.text[k] \in Piece
      BY <1>2
    <3> QED BY <3>1 DEF Piece
  <2>2. ASSUME NEW k \in 1..M PROVE c.text[k].of \in Nat
    <3>1. c.text[k] \in Piece
      BY <1>2
    <3> QED BY <3>1 DEF Piece
  <2> QED BY <2>1, <2>2
<1> DEFINE s == b.text
           t == c.text
<1>14. \A j \in 1..N, k \in 1..N : s[j] = s[k] => j = k
  BY <1>5, <1>6 DEF IsInjective
<1>15. \A j \in 1..M, k \in 1..M : t[j] = t[k] => j = k
  BY <1>5, <1>6 DEF IsInjective
<1>16. /\ \A k \in 1..N : text[k] = s[k] /\ s[k].of \in Nat /\ s[k].of < n /\ b.id <= s[k].of
       /\ \A k \in 1..M : text[N + k] = t[k] /\ t[k].of \in Nat /\ n <= t[k].of /\ t[k].of < n + 1
  BY <1>3, <1>5, <1>13
<1>17. d = [b EXCEPT !.text = text, !.size = size, !.line = line]
  OBVIOUS
<1>20. line \in Line /\ (line = b.line \/ line = "phrase")
  BY <1>1 DEF Block, Line
<1> HIDE DEF text, size, line, s, t, N, M, d
<1>7. \A k \in 1..(N + M) : k \in 1..N \/ \E j \in 1..M : k = N + j
  <2>1. ASSUME NEW k \in 1..(N + M), k \notin 1..N PROVE \E j \in 1..M : k = N + j
    <3>1. k - N \in 1..M /\ k = N + (k - N)
      BY <1>3, <2>1
    <3> QED BY <3>1
  <2> QED BY <2>1
<1>8. IsInjective(text)
  <2>1. DOMAIN text = 1..(N + M)
    BY <1>3
  <2>2. ASSUME NEW j \in 1..(N + M), NEW k \in 1..(N + M), text[j] = text[k] PROVE j = k
    <3>1. CASE j \in 1..N /\ k \in 1..N
      BY <1>14, <1>16, <2>2, <3>1
    <3>2. CASE j \in 1..N /\ k \notin 1..N
      <4>1. PICK i \in 1..M : k = N + i
        BY <1>7, <3>2
      <4>2. text[j].of < n /\ n <= text[k].of /\ text[k].of \in Nat /\ text[j].of \in Nat
        BY <1>16, <3>2, <4>1
      <4> QED BY <2>2, <4>2
    <3>3. CASE j \notin 1..N /\ k \in 1..N
      <4>1. PICK i \in 1..M : j = N + i
        BY <1>7, <3>3
      <4>2. text[k].of < n /\ n <= text[j].of /\ text[k].of \in Nat /\ text[j].of \in Nat
        BY <1>16, <3>3, <4>1
      <4> QED BY <2>2, <4>2
    <3>4. CASE j \notin 1..N /\ k \notin 1..N
      <4>1. PICK i \in 1..M : j = N + i
        BY <1>7, <3>4
      <4>2. PICK l \in 1..M : k = N + l
        BY <1>7, <3>4
      <4>3. t[i] = t[l]
        BY <1>16, <2>2, <4>1, <4>2
      <4>4. i = l
        BY <1>15, <4>3
      <4> QED BY <4>1, <4>2, <4>4
    <3> QED BY <3>1, <3>2, <3>3, <3>4
  <2> QED BY <2>1, <2>2 DEF IsInjective
<1>9. \A k \in 1..(N + M) : b.id <= text[k].of /\ text[k].of < n + 1
  <2>1. ASSUME NEW k \in 1..N PROVE b.id <= text[k].of /\ text[k].of < n + 1
    <3>1. text[k] = s[k] /\ s[k].of \in Nat /\ s[k].of < n /\ b.id <= s[k].of
      BY <1>16
    <3> QED BY <3>1
  <2>2. ASSUME NEW j \in 1..M PROVE b.id <= text[N + j].of /\ text[N + j].of < n + 1
    <3>1. text[N + j] = t[j] /\ t[j].of \in Nat /\ n <= t[j].of /\ t[j].of < n + 1
      BY <1>16
    <3> QED BY <1>2, <1>5, <3>1
  <2> QED BY <1>7, <2>1, <2>2
<1>10. /\ d.id = b.id /\ d.order = b.order /\ d.text = text /\ d.title = b.title
       /\ d.type = b.type /\ d.line = line /\ d.band = 0
  BY <1>1, <1>17 DEF Block
<1>11. d \in Block
  BY <1>1, <1>2, <1>3, <1>4, <1>17, <1>20 DEF Block
<1>12. Sound(d)
  <2>1. b.id = b.order /\ Entitled(b)
    BY DEF Sound
  <2>2. Entitled(d)
    <3>1. Classified(d) \/ Inferred(d) => Inferred(b)
      BY <1>10, <1>20 DEF Classified, Inferred, Structured
    <3> QED BY <1>10, <2>1, <3>1 DEF Entitled
  <2>3. Len(text) >= 2
    BY <1>3, <1>5
  <2> QED BY <1>3, <1>8, <1>9, <1>10, <1>11, <2>1, <2>2, <2>3 DEF Sound, Lined
<1>18. d.id < n + 1
  BY <1>2, <1>5, <1>10
<1>19. EndsBefore(d, n + 1)
  BY <1>3, <1>9, <1>10, <1>18 DEF EndsBefore
<1> QED BY <1>10, <1>12, <1>19 DEF d, text, size, line

\* The last of the blocks grows.
LEMMA GrownOrderly ==
  ASSUME NEW bs, Orderly(bs), NEW d, Sound(d), NEW N, N = Len(bs), N # 0, d.id = bs[N].id
  PROVE  Orderly([bs EXCEPT ![N] = d])
<1> DEFINE cs == [bs EXCEPT ![N] = d]
<1>1. bs \in Seq(Block) /\ d \in Block /\ N \in Nat
  BY DEF Orderly, Sound
<1>2. cs \in Seq(Block) /\ Len(cs) = N /\ cs[N] = d /\ \A k \in 1..N : k # N => cs[k] = bs[k]
  BY <1>1
<1> HIDE DEF cs
<1>3. /\ \A k \in 1..N : Sound(bs[k])
      /\ \A k \in 1..N, j \in 1..N : j < k => EndsBefore(bs[j], bs[k].id)
  BY DEF Orderly
<1>4. \A k \in 1..N : Sound(cs[k]) /\ cs[k].id = bs[k].id
  BY <1>2, <1>3
<1>5. ASSUME NEW k \in 1..N, NEW j \in 1..N, j < k PROVE EndsBefore(cs[j], cs[k].id)
  <2>1. j # N
    BY <1>1, <1>5
  <2>2. cs[j] = bs[j] /\ cs[k].id = bs[k].id /\ EndsBefore(bs[j], bs[k].id)
    BY <1>2, <1>3, <1>4, <1>5, <2>1
  <2> QED BY <2>2
<1>6. Orderly(cs)
  BY <1>2, <1>4, <1>5 DEF Orderly
<1> QED BY <1>6 DEF cs

\* The markdown of MinerU says of no block where it was on the page.
FlatTo(n) == {acc \in ScanTo(n) : \A k \in 1..Len(acc.blocks) : acc.blocks[k].band = 0}

\* One more block without a box
LEMMA FlatEmits ==
  ASSUME NEW n \in Nat, NEW acc \in FlatTo(n), NEW stack \in Seq(Title), NEW b, Made(b, n + 1),
         b.band = 0
  PROVE  Emit(acc, stack, b) \in FlatTo(n + 1)
<1> DEFINE bs == acc.blocks
           new == Emit(acc, stack, b)
           cs == Append(bs, b)
<1>1. acc \in ScanTo(n) /\ bs \in Seq(Block) /\ \A k \in 1..Len(bs) : bs[k].band = 0
  BY DEF FlatTo, ScanTo, Scan
<1>2. new \in ScanTo(n + 1)
  BY <1>1, ScanEmits
<1>3. new.blocks = cs
  <2>1. acc = [stack |-> acc.stack, blocks |-> acc.blocks, page |-> acc.page]
    BY <1>1 DEF ScanTo, Scan
  <2>2. new = [acc EXCEPT !.stack = stack, !.blocks = Append(acc.blocks, b)]
    BY DEF Emit
  <2> HIDE DEF new
  <2>3. new = [stack |-> stack, blocks |-> Append(acc.blocks, b), page |-> acc.page]
    BY <2>1, <2>2
  <2> QED BY <2>3
<1> HIDE DEF new
<1>4. \A k \in 1..Len(cs) : cs[k].band = 0
  <2>1. ASSUME NEW k \in 1..Len(cs) PROVE cs[k].band = 0
    <3>1. k \in 1..Len(bs) \/ k = Len(bs) + 1
      BY <1>1
    <3>2. k \in 1..Len(bs) => cs[k] = bs[k]
      BY <1>1
    <3>3. cs[Len(bs) + 1] = b
      BY <1>1
    <3> HIDE DEF cs, bs
    <3> QED BY <1>1, <3>1, <3>2, <3>3
  <2> QED BY <2>1
<1> HIDE DEF cs
<1>5. new \in FlatTo(n + 1)
  BY <1>2, <1>3, <1>4 DEF FlatTo
<1> QED BY <1>5 DEF new

\* A paragraph of item n goes to the block before it.
LEMMA ScanGrows ==
  ASSUME NEW n \in Nat, NEW acc \in FlatTo(n), NEW c, Made(c, n + 1), acc.blocks # <<>>,
         Last(acc.blocks).type = "paragraph"
  PROVE  Grow(acc, c) \in FlatTo(n + 1)
<1> DEFINE bs == acc.blocks
           N == Len(bs)
           b == bs[N]
           d == [b EXCEPT !.text = b.text \o c.text, !.size = b.size + c.size,
                          !.line = IF b.line \in WholeText THEN "phrase" ELSE b.line]
           cs == [bs EXCEPT ![N] = d]
           new == Grow(acc, c)
<1>1. acc \in Scan /\ Orderly(bs) /\ \A k \in 1..N : EndsBefore(bs[k], n + 1)
  BY DEF FlatTo, ScanTo
<1>15. acc \in ScanTo(n) /\ \A k \in 1..N : bs[k].band = 0
  BY DEF FlatTo
<1>2. bs \in Seq(Block) /\ bs # <<>> /\ acc.stack \in Seq(Title) /\ acc.page \in Nat
  BY <1>1 DEF Scan
<1>3. N \in Nat /\ N # 0 /\ N \in 1..N /\ bs[N] = b
  BY <1>2
<1>4. Sound(b) /\ EndsBefore(b, n + 1)
  BY <1>1, <1>3 DEF Orderly
<1>16. b.band = 0 /\ b.type = "paragraph"
  <2>1. b = Last(bs)
    BY DEF Last
  <2> QED BY <1>3, <1>15, <2>1
<1>5. Sound(d) /\ d.id = b.id /\ d.band = 0 /\ EndsBefore(d, n + 2)
  <2> HIDE DEF b
  <2>1. n + 1 \in Nat /\ (n + 1) + 1 = n + 2
    OBVIOUS
  <2> QED BY <1>4, <1>16, <2>1, GrownSound
<1>6. new = [stack |-> acc.stack, blocks |-> cs, page |-> acc.page]
  <2>1. acc = [stack |-> acc.stack, blocks |-> acc.blocks, page |-> acc.page]
    BY <1>1 DEF Scan
  <2>2. new = [acc EXCEPT !.blocks = cs]
    <3>1. new = [acc EXCEPT !.blocks[N] = d]
      BY DEF Grow
    <3> HIDE DEF new, d, N
    <3>2. [acc EXCEPT !.blocks[N] = d] = [acc EXCEPT !.blocks = [acc.blocks EXCEPT ![N] = d]]
      BY <2>1
    <3> QED BY <3>1, <3>2
  <2> HIDE DEF new, cs
  <2> QED BY <2>1, <2>2
<1>7. cs \in Seq(Block) /\ Len(cs) = N /\ cs[N] = d /\ \A k \in 1..N : k # N => cs[k] = bs[k]
  <2>1. d \in Block
    BY <1>5 DEF Sound
  <2> HIDE DEF d, b
  <2>2. bs \in Seq(Block) /\ N \in 1..Len(bs)
    BY <1>2, <1>3
  <2> HIDE DEF bs
  <2> QED BY <2>1, <2>2
<1>8. Orderly(cs)
  <2> HIDE DEF d, b
  <2>1. d.id = bs[N].id
    BY <1>5 DEF b
  <2> HIDE DEF bs
  <2> QED BY <1>1, <1>3, <1>5, <2>1, GrownOrderly
<1>9. new \in Scan
  <2> HIDE DEF new, cs, bs
  <2> QED BY <1>2, <1>6, <1>7 DEF Scan
<1>10. acc \in ScanTo(n + 1)
  BY <1>15, ScanOn
<1>11. \A k \in 1..N : EndsBefore(bs[k], n + 2)
  BY <1>10 DEF ScanTo
<1>12. \A k \in 1..N : EndsBefore(cs[k], n + 2)
  <2> HIDE DEF cs, bs, d
  <2> QED BY <1>5, <1>7, <1>11
<1>13. new.blocks = cs /\ n + 2 = (n + 1) + 1
  BY <1>6
<1> HIDE DEF new, cs
<1>14. new \in ScanTo(n + 1)
  BY <1>7, <1>8, <1>9, <1>12, <1>13 DEF ScanTo
<1>17. \A k \in 1..N : cs[k].band = 0
  <2> HIDE DEF bs, d
  <2> QED BY <1>5, <1>7, <1>15
<1>18. new \in FlatTo(n + 1)
  BY <1>7, <1>13, <1>14, <1>17 DEF FlatTo
<1> QED BY <1>18 DEF new

\* The blocks of all items
LEMMA FlatEnds ==
  ASSUME NEW items, Given(items), NEW steps,
         steps = [n \in DOMAIN Positions(items) |-> steps[n]],
         \A n \in 1..Len(items) : \A acc \in FlatTo(n - 1) : steps[n][acc] \in FlatTo(n)
  PROVE  Orderly(Folded(Nothing, steps).blocks)
<1>1. items \in Seq(Proper)
  BY DEF Given
<1> DEFINE N == Len(items)
           e == <<>>
           P == [n \in 0..N |-> FlatTo(n)]
<1>2. N \in Nat /\ DOMAIN items = 1..N
  BY <1>1
<1>3. DOMAIN Positions(items) = 1..N
  BY <1>2 DEF Positions
<1>4. Nothing \in FlatTo(0)
  <2>1. Nothing.blocks = e /\ Nothing = [stack |-> e, blocks |-> e, page |-> 0] /\ Len(e) = 0
    BY DEF Nothing
  <2>2. e \in Seq(Block) /\ e \in Seq(Title)
    OBVIOUS
  <2> HIDE DEF e
  <2>5. \A k \in 1..Len(e) : e[k].band = 0
    BY <2>1
  <2>3. Orderly(e)
    BY <2>1, <2>2 DEF Orderly
  <2>4. Nothing \in Scan
    BY <2>1, <2>2 DEF Scan
  <2> QED BY <2>1, <2>3, <2>4, <2>5 DEF FlatTo, ScanTo
<1>5. Len(steps) = N
  BY <1>2, <1>3, FunctionLen
<1>6. Nothing \in P[0] /\ \A n \in 1..N : \A v \in P[n - 1] : steps[n][v] \in P[n]
  <2>1. \A n \in 1..N : n - 1 \in 0..N /\ n \in 0..N
    BY <1>2
  <2>2. ASSUME NEW n \in 1..N, NEW v \in P[n - 1] PROVE steps[n][v] \in P[n]
    <3>1. P[n - 1] = FlatTo(n - 1) /\ P[n] = FlatTo(n)
      BY <2>1
    <3> HIDE DEF P
    <3> QED BY <2>2, <3>1
  <2>3. P[0] = FlatTo(0)
    BY <1>2
  <2> HIDE DEF P
  <2> QED BY <1>4, <2>2, <2>3
<1>7. Folded(Nothing, steps) \in P[N]
  <2> HIDE DEF P, N
  <2> QED BY <1>2, <1>5, <1>6, FoldedKeeps
<1>8. Folded(Nothing, steps) \in FlatTo(N)
  BY <1>2, <1>7
<1> QED
  BY <1>8 DEF FlatTo, ScanTo

\* The markdown of MinerU
LEMMA MarkdownOrderly == ASSUME NEW items, Given(items) PROVE Orderly(MarkdownBlocks(items))
<1> DEFINE steps == [n \in DOMAIN Positions(items) |->
                        [acc \in Scan |-> MarkdownRead(acc, items, Positions(items)[n])]]
<1>1. ASSUME NEW n \in 1..Len(items), NEW acc \in FlatTo(n - 1)
      PROVE  steps[n][acc] \in FlatTo(n)
  <2> DEFINE item == items[n]
             type == TypeOf(item.label)
  <2>14. acc \in ScanTo(n - 1)
    BY DEF FlatTo
  <2>1. /\ n - 1 \in Nat /\ n \in Nat /\ (n - 1) + 1 = n /\ item \in Proper /\ item \in Item
        /\ type \in BlockType /\ item.page \in Nat /\ item.title \in Title
        /\ item.hints \in Seq(Title) /\ acc.stack \in Seq(Title)
    BY <2>14, ScanItem
  <2>2. acc \in FlatTo(n) /\ steps[n][acc] = MarkdownRead(acc, items, n)
    <3>1. acc \in ScanTo(n) /\ steps[n][acc] = MarkdownRead(acc, items, n)
      BY <2>14, ScanItem
    <3>2. \A k \in 1..Len(acc.blocks) : acc.blocks[k].band = 0
      BY DEF FlatTo
    <3>3. acc \in FlatTo(n)
      BY <3>1, <3>2 DEF FlatTo
    <3> QED BY <3>1, <3>3
  <2> DEFINE title == Push(acc.stack, item)
             h == BlockOf(item, n, 1, "heading", title)
             heading == NoBox(Marked(h))
             p == BlockOf(item, n, 1, "paragraph", acc.stack)
             plain == NoBox(p)
             paragraph == IF type = "heading" THEN Marked(plain) ELSE plain
  <2>3. title \in Seq(Title)
    BY <2>1, PushType
  <2>4. "heading" \in BlockType /\ "paragraph" \in BlockType
    BY DEF BlockType
  <2>5. HeadingOf(item, "paragraph") /\ (type = "heading" => HeadingOf(item, "heading"))
    BY DEF HeadingOf
  <2>6. MarkdownRead(acc, items, n) =
          IF item.line = "blank" THEN acc
          ELSE IF type = "heading" /\ item.more = "none" THEN Emit(acc, title, heading)
          ELSE IF Buffered(acc, paragraph) THEN Grow(acc, paragraph)
          ELSE Emit(acc, acc.stack, paragraph)
    BY DEF MarkdownRead, MarkedTitle
  <2> HIDE DEF title, type, item
  <2>7. Made(p, n)
    BY <2>1, <2>4, <2>5, BlockMade
  <2>8. type = "heading" => Made(h, n)
    BY <2>1, <2>3, <2>4, <2>5, BlockMade
  <2> HIDE DEF h, p
  <2>15. Made(plain, n) /\ plain.band = 0
    BY <2>1, <2>7, NoBoxMade
  <2> HIDE DEF plain
  <2>9. Made(paragraph, n) /\ paragraph.band = 0
    BY <2>1, <2>15, MarkedMade
  <2>10. type = "heading" => Made(heading, n) /\ heading.band = 0
    BY <2>1, <2>8, MarkedMade, NoBoxMade
  <2> HIDE DEF heading, paragraph
  <2>11. type = "heading" => Emit(acc, title, heading) \in FlatTo(n)
    BY <2>1, <2>3, <2>10, FlatEmits
  <2>12. Emit(acc, acc.stack, paragraph) \in FlatTo(n)
    BY <2>1, <2>9, FlatEmits
  <2>13. Buffered(acc, paragraph) => Grow(acc, paragraph) \in FlatTo(n)
    BY <2>1, <2>9, ScanGrows DEF Buffered
  <2> QED BY <2>2, <2>6, <2>11, <2>12, <2>13
<1>2. steps = [n \in DOMAIN Positions(items) |-> steps[n]]
  OBVIOUS
<1>3. MarkdownBlocks(items) = Folded(Nothing, steps).blocks
  BY DEF MarkdownBlocks, Scanned, Walk
<1> HIDE DEF steps
<1> QED
  BY <1>1, <1>2, <1>3, FlatEnds

\* What is parsed is a file.
LEMMA JobGiven == ASSUME job \in Jobs PROVE Given(job.items)
<1>1. job.items \in Seq({i \in Item : OneLine(i) /\ (HasTitle(i) => i.title # <<>>)})
  BY JobsAreFiles
<1> QED BY <1>1 DEF Given, Proper

\* Whatever a parser reads, its blocks are sound and in order.
LEMMA ReadingOrderly == ASSUME job \in Jobs, NEW parser PROVE Orderly(Reading(parser))
<1> DEFINE items == job.items
<1>1. Given(items)
  BY JobGiven
<1> HIDE DEF items
<1>2. /\ Orderly(StructuredBlocks(items)) /\ Orderly(DoclingBlocks(items))
      /\ Orderly(MarkdownBlocks(items)) /\ Orderly(MinerUBlocks(items))
      /\ Orderly(PyPdfBlocks(items)) /\ Orderly(TextBlocks(items)) /\ Orderly(RowBlocks(items))
  BY <1>1, StructuredOrderly, DoclingOrderly, MarkdownOrderly, MinerUOrderly, PyPdfOrderly,
     TextOrderly, RowOrderly
<1>3. Reading(parser) \in {StructuredBlocks(items), DoclingBlocks(items), MarkdownBlocks(items),
                           MinerUBlocks(items), PyPdfBlocks(items), TextBlocks(items),
                           RowBlocks(items)}
  <2>1. CASE parser = "docling"
    <3>1. Reading(parser) = IF job.world.docling = "chunks" THEN StructuredBlocks(items)
                            ELSE DoclingBlocks(items)
      BY <2>1 DEF Reading, items
    <3> QED BY <3>1
  <2>2. CASE parser = "mineru"
    <3>1. Reading(parser) = IF job.world.mineru = "markdown" THEN MarkdownBlocks(items)
                            ELSE MinerUBlocks(items)
      BY <2>2 DEF Reading, items
    <3> QED BY <3>1
  <2>3. CASE parser = "pypdf"
    BY <2>3 DEF Reading, items
  <2>4. CASE parser = "text_file"
    BY <2>4 DEF Reading, items
  <2>5. CASE parser \notin {"docling", "mineru", "pypdf", "text_file"}
    BY <2>5 DEF Reading, items
  <2> QED BY <2>1, <2>2, <2>3, <2>4, <2>5
<1> QED
  BY <1>2, <1>3

-----------------------------------------------------------------------------
(* The passes over the document *)

\* A block with its place stands in for the one it was made of.
GivenTitle == Title \ {<<>>}
GoodPath == Seq(GivenTitle)
Settled(c, b) ==
    /\ c \in Block /\ c.path \in GoodPath /\ c.path # <<>>
    /\ c = [b EXCEPT !.path = c.path, !.type = c.type]
    /\ c.type \in {b.type, "heading"}

\* A selection of blocks keeps their order.
LEMMA PlacesOrderly ==
  ASSUME NEW bs, Orderly(bs), NEW cs \in Seq(Block), NEW p, Places(p, cs, bs)
  PROVE  Orderly(cs)
<1>1. bs \in Seq(Block) /\ Len(bs) \in Nat /\ Len(cs) \in Nat
  BY DEF Orderly
<1> DEFINE N == Len(bs)
           M == Len(cs)
<1>2. /\ \A k \in 1..N : Sound(bs[k])
      /\ \A k \in 1..N, j \in 1..N : j < k => EndsBefore(bs[j], bs[k].id)
  BY DEF Orderly
<1>3. /\ p \in [1..M -> 1..N] /\ \A n \in 1..M : cs[n] = bs[p[n]]
      /\ \A m \in 1..M, n \in 1..M : m < n => p[m] < p[n]
  BY DEF Places
<1>4. \A k \in 1..M : Sound(cs[k])
  <2> HIDE DEF N, M
  <2> QED BY <1>2, <1>3
<1>5. \A k \in 1..M, j \in 1..M : j < k => EndsBefore(cs[j], cs[k].id)
  <2> HIDE DEF N, M
  <2> QED BY <1>2, <1>3
<1> QED
  BY <1>4, <1>5 DEF Orderly

\* What is not noise is what is left, in its order.
LEMMA CleanedOrderly ==
  ASSUME NEW bs, Orderly(bs)
  PROVE  /\ Orderly(Cleaned(bs))
         /\ ToSet(Cleaned(bs)) = {b \in ToSet(bs) : ~Noise(b, bs)}
<1> DEFINE S == {b \in Block : ~Noise(b, bs)}
           P == {n \in DOMAIN bs : ~Noise(bs[n], bs)}
           cs == Only(bs, S)
<1>1. bs \in Seq(Block) /\ DOMAIN bs = 1..Len(bs)
  BY DEF Orderly
<1>2. \A n \in DOMAIN bs : n \in P <=> bs[n] \in S
  BY <1>1
<1>3. Cleaned(bs) = cs
  <2>1. Cleaned(bs) = At(bs, P)
    BY DEF Cleaned
  <2> HIDE DEF S, P
  <2> QED BY <1>2, <2>1, AtIsOnly
<1>4. cs \in Seq(Block)
  <2> HIDE DEF S
  <2> QED BY <1>1, OnlyType
<1>5. Orderly(cs)
  <2>1. PICK p : Places(p, cs, bs)
    <3> HIDE DEF S
    <3> QED BY <1>1, OnlyPlaces
  <2> HIDE DEF cs
  <2> QED BY <1>4, <2>1, PlacesOrderly
<1>6. ToSet(cs) = {b \in ToSet(bs) : b \in S}
  <2> HIDE DEF S
  <2>1. /\ \A n \in 1..Len(cs) : cs[n] \in S /\ \E m \in 1..Len(bs) : bs[m] = cs[n]
        /\ \A m \in 1..Len(bs) : bs[m] \in S => \E n \in 1..Len(cs) : bs[m] = cs[n]
    BY <1>1, OnlyElements
  <2>2. DOMAIN cs = 1..Len(cs)
    BY <1>4
  <2> HIDE DEF cs
  <2>3. ASSUME NEW b \in ToSet(cs) PROVE b \in ToSet(bs) /\ b \in S
    <3>1. PICK n \in 1..Len(cs) : b = cs[n]
      BY <2>2 DEF ToSet
    <3> QED BY <1>1, <2>1, <3>1 DEF ToSet
  <2>4. ASSUME NEW b \in ToSet(bs), b \in S PROVE b \in ToSet(cs)
    <3>1. PICK m \in 1..Len(bs) : b = bs[m]
      BY <1>1 DEF ToSet
    <3> QED BY <2>1, <2>2, <2>4, <3>1 DEF ToSet
  <2> QED BY <2>3, <2>4
<1>7. \A b \in ToSet(bs) : b \in Block
  BY <1>1 DEF ToSet
<1>8. ToSet(cs) = {b \in ToSet(bs) : ~Noise(b, bs)}
  BY <1>6, <1>7
<1> QED
  BY <1>3, <1>5, <1>8

\* A path without empty titles
LEMMA CleanPathType ==
  ASSUME NEW path \in Seq(Title)
  PROVE  CleanPath(path) \in GoodPath
<1> DEFINE V == Seq(Title)
           N == Len(path)
           steps == [n \in DOMAIN path |->
                        [out \in V |-> IF path[n] = <<>> \/ path[n] \in ToSet(out) THEN out
                                       ELSE Append(out, path[n])]]
           P == [n \in 0..N |-> GoodPath]
           e == <<>>
<1>1. CleanPath(path) = Folded(e, steps)
  BY DEF CleanPath, Walk
<1>2. N \in Nat /\ DOMAIN path = 1..N
  OBVIOUS
<1>3. GoodPath \subseteq V /\ e \in GoodPath
  <2>1. GivenTitle \subseteq Title
    BY DEF GivenTitle
  <2> QED BY <2>1 DEF GoodPath
<1>4. ASSUME NEW n \in 1..N, NEW out \in GoodPath PROVE steps[n][out] \in GoodPath
  <2>1. path[n] \in Title
    OBVIOUS
  <2>2. \/ steps[n][out] = out
        \/ path[n] # <<>> /\ steps[n][out] = Append(out, path[n])
    BY <1>2, <1>3
  <2> HIDE DEF steps
  <2>3. path[n] # <<>> => Append(out, path[n]) \in GoodPath
    <3>1. path[n] # <<>> => path[n] \in GivenTitle
      BY <2>1 DEF GivenTitle
    <3> DEFINE t == path[n]
    <3>2. path[n] # <<>> => t \in GivenTitle
      BY <3>1
    <3> HIDE DEF t
    <3>3. t \in GivenTitle => Append(out, t) \in GoodPath
      BY DEF GoodPath
    <3> QED BY <3>2, <3>3 DEF t
  <2> QED BY <2>2, <2>3
<1>5. steps = [n \in DOMAIN path |-> steps[n]]
  OBVIOUS
<1> HIDE DEF steps
<1>6. e \in P[0] /\ \A n \in 1..N : \A v \in P[n - 1] : steps[n][v] \in P[n]
  <2>1. \A n \in 1..N : n - 1 \in 0..N /\ n \in 0..N
    BY <1>2
  <2>2. \A n \in 0..N : P[n] = GoodPath
    OBVIOUS
  <2>3. 0 \in 0..N
    BY <1>2
  <2> HIDE DEF P, e
  <2> QED BY <1>3, <1>4, <2>1, <2>2, <2>3
<1>7. Folded(e, steps) \in P[N]
  <2> HIDE DEF P, e
  <2> QED BY <1>5, <1>6, WalkKeeps DEF N
<1>8. P[N] = GoodPath
  BY <1>2
<1> QED
  BY <1>1, <1>7, <1>8

\* A heading goes below the path it belongs to.
LEMMA PathWithType ==
  ASSUME NEW path \in GoodPath, NEW title \in GivenTitle, NEW level \in {1, 2}
  PROVE  PathWith(path, title, level) \in GoodPath /\ PathWith(path, title, level) # <<>>
<1> DEFINE m == Min({level - 1, Len(path)})
           above == SubSeq(path, 1, m)
           known == SelectInSeq(above, LAMBDA t : t = title)
           I == {i \in 1..Len(above) : above[i] = title}
           up == SubSeq(above, 1, known)
<1>1. path \in Seq(GivenTitle) /\ Len(path) \in Nat
  BY DEF GoodPath
<1>2. m \in Int /\ m <= Len(path)
  <2> DEFINE a == level - 1
             c == Len(path)
  <2>1. a \in Int /\ c \in Int
    BY <1>1
  <2> HIDE DEF a, c
  <2>2. Min({a, c}) \in {a, c} /\ Min({a, c}) <= a /\ Min({a, c}) <= c
    BY <2>1, MinOfTwo
  <2> QED BY <2>1, <2>2 DEF a, c
<1> HIDE DEF m
<1>3. above \in Seq(GivenTitle)
  BY <1>1, <1>2, FrontPart
<1>4. PathWith(path, title, level) = IF level <= 1 \/ path = <<>> THEN <<title>>
                                     ELSE IF known # 0 THEN up ELSE Append(above, title)
  BY DEF PathWith, m
<1>5. known = IF I # {} THEN Min(I) ELSE 0
  BY DEF SelectInSeq
<1> HIDE DEF above, known
<1>6. known = 0 \/ known \in 1..Len(above)
  <2> HIDE DEF I
  <2>1. Len(above) \in Nat /\ I \subseteq 1..Len(above)
    BY <1>3 DEF I
  <2> QED BY <1>5, <2>1, FirstOf
<1>7. known # 0 => up \in Seq(GivenTitle) /\ Len(up) = known /\ known > 0
  <2>1. SUFFICES ASSUME known # 0 PROVE up \in Seq(GivenTitle) /\ Len(up) = known /\ known > 0
    OBVIOUS
  <2>2. known \in Int /\ known <= Len(above) /\ known > 0
    BY <1>3, <1>6, <2>1
  <2> QED BY <1>3, <2>2, FrontPart
<1>8. known # 0 => up \in Seq(GivenTitle) /\ up # <<>>
  BY <1>7
<1> HIDE DEF up
<1>9. <<title>> \in Seq(GivenTitle) /\ <<title>> # <<>>
  OBVIOUS
<1>10. Append(above, title) \in Seq(GivenTitle) /\ Append(above, title) # <<>>
  <2> DEFINE T == GivenTitle
  <2>1. above \in Seq(T) /\ title \in T
    BY <1>3
  <2> HIDE DEF T
  <2>2. Append(above, title) \in Seq(T) /\ Len(Append(above, title)) = Len(above) + 1
    BY <2>1
  <2>3. Len(above) \in Nat
    BY <2>1
  <2> QED BY <2>2, <2>3 DEF T
<1> QED
  BY <1>4, <1>8, <1>9, <1>10 DEF GoodPath

\* The path of a block is one, and the section of the document when it is empty.
LEMMA PathAtType ==
  ASSUME NEW path \in GoodPath, NEW b, Sound(b)
  PROVE  PathAt(path, b) \in GoodPath
<1>1. b \in Block /\ Entitled(b)
  BY DEF Sound
<1>2. b.path \in Seq(Title) /\ b.title \in Title
  BY <1>1 DEF Block
<1>3. CleanPath(b.path) \in GoodPath
  BY <1>2, CleanPathType
<1>4. Level(b) \in {1, 2}
  BY DEF Level
<1>5. Classified(b) \/ Inferred(b) => PathWith(path, b.title, Level(b)) \in GoodPath
  <2>1. Classified(b) \/ Inferred(b) => b.title \in GivenTitle
    BY <1>1, <1>2 DEF Entitled, GivenTitle
  <2> QED BY <1>4, <2>1, PathWithType
<1> QED
  BY <1>3, <1>5 DEF PathAt

\* A block in its section
LEMMA PlacedSettled ==
  ASSUME NEW path \in GoodPath, NEW b, Sound(b)
  PROVE  Settled(Placed(path, b), b) /\ Sound(Placed(path, b))
<1> DEFINE place == IF path = <<>> THEN Root ELSE path
           type == IF b.path = <<>> /\ Inferred(b) THEN "heading" ELSE b.type
           c == Placed(path, b)
<1>1. b \in Block /\ Entitled(b)
  BY DEF Sound
<1>2. place \in GoodPath /\ place # <<>>
  <2> DEFINE w == "Document"
             t == <<w>>
             r == <<t>>
  <2>1. w \in Word
    BY DEF Word
  <2> HIDE DEF w
  <2>2. t \in Title /\ t # <<>>
    BY <2>1 DEF Title
  <2>3. t \in GivenTitle
    BY <2>2 DEF GivenTitle
  <2> HIDE DEF t
  <2>4. r \in GoodPath /\ r # <<>>
    BY <2>3 DEF GoodPath
  <2>5. r = Root
    BY DEF r, t, w, Root
  <2> QED BY <2>4, <2>5
<1>3. type \in {b.type, "heading"} /\ type \in BlockType
  <2>1. b.type \in BlockType
    BY <1>1 DEF Block
  <2> QED BY <2>1 DEF BlockType
<1>9. type # b.type => Inferred(b)
  OBVIOUS
<1>4. c = [b EXCEPT !.path = place, !.type = type]
  BY DEF Placed
<1> HIDE DEF place, type, c
<1>5. place \in Seq(Title)
  <2>1. GivenTitle \subseteq Title
    BY DEF GivenTitle
  <2> QED BY <1>2, <2>1 DEF GoodPath
<1>6. c \in Block
  <2>1. b.text \in Seq(Piece)
    BY <1>1 DEF Block
  <2> QED BY <1>1, <1>3, <1>4, <1>5, <2>1 DEF Block
<1>7. /\ c.path = place /\ c.type = type /\ c.id = b.id /\ c.order = b.order /\ c.line = b.line
      /\ c.title = b.title /\ c.text = b.text /\ c.band = b.band
  BY <1>1, <1>4 DEF Block
<1>8. Settled(c, b)
  BY <1>2, <1>3, <1>4, <1>6, <1>7 DEF Settled
<1>10. Entitled(c)
  <2>1. CASE type = b.type
    BY <1>1, <1>7, <2>1 DEF Entitled, Classified, Inferred
  <2>2. CASE type # b.type
    BY <1>1, <1>7, <1>9, <2>2 DEF Entitled
  <2> QED BY <2>1, <2>2
<1>11. Sound(c)
  <2>1. Lined(c)
    BY <1>7 DEF Sound, Lined, ArticleLine
  <2> QED BY <1>6, <1>7, <1>10, <2>1 DEF Sound
<1> QED
  BY <1>8, <1>11 DEF c

\* All blocks get a place, one after the other.
LEMMA PlacedAll ==
  ASSUME NEW bs, Orderly(bs)
  PROVE  /\ Len(PlacedBlocks(bs)) = Len(bs)
         /\ PlacedBlocks(bs) \in Seq(Block)
         /\ \A k \in 1..Len(bs) : Settled(PlacedBlocks(bs)[k], bs[k]) /\ Sound(PlacedBlocks(bs)[k])
<1> DEFINE N == Len(bs)
           e == <<>>
           base == [path |-> e, blocks |-> e]
           steps == [n \in DOMAIN bs |-> [acc \in Placing |-> PlaceNext(acc, bs[n])]]
           Upto(n) == {acc \in Placing :
                          /\ acc.path \in GoodPath
                          /\ Len(acc.blocks) = n
                          /\ \A k \in 1..n : Settled(acc.blocks[k], bs[k]) /\ Sound(acc.blocks[k])}
           P == [n \in 0..N |-> Upto(n)]
<1>1. bs \in Seq(Block) /\ \A k \in 1..N : Sound(bs[k])
  BY DEF Orderly
<1>2. N \in Nat /\ DOMAIN bs = 1..N
  BY <1>1
<1>3. ASSUME NEW n \in 1..N, NEW acc \in Upto(n - 1) PROVE steps[n][acc] \in Upto(n)
  <2> DEFINE b == bs[n]
             path == PathAt(acc.path, b)
             c == Placed(path, b)
             done == acc.blocks
             cs == Append(done, c)
             new == PlaceNext(acc, b)
  <2>1. acc \in Placing /\ steps[n][acc] = new
    BY <1>2
  <2>2. new = [path |-> path, blocks |-> cs]
    BY DEF PlaceNext
  <2>3. Sound(b)
    BY <1>1
  <2>4. /\ acc.path \in GoodPath /\ Len(done) = n - 1 /\ done \in Seq(Block)
        /\ \A k \in 1..(n - 1) : Settled(done[k], bs[k]) /\ Sound(done[k])
    BY <2>1 DEF Placing
  <2>10. n \in Nat /\ n >= 1
    BY <1>2
  <2> HIDE DEF steps, b, done, new, N
  <2>5. path \in GoodPath
    BY <2>3, <2>4, PathAtType
  <2> HIDE DEF path
  <2>6. Settled(c, b) /\ Sound(c) /\ c \in Block
    BY <2>3, <2>5, PlacedSettled DEF Settled
  <2> HIDE DEF c
  <2>7. cs \in Seq(Block) /\ Len(cs) = n /\ cs[n] = c /\ \A k \in 1..(n - 1) : cs[k] = done[k]
    BY <2>4, <2>6, <2>10
  <2> HIDE DEF cs
  <2>8. \A k \in 1..n : Settled(cs[k], bs[k]) /\ Sound(cs[k])
    <3>1. ASSUME NEW k \in 1..n PROVE Settled(cs[k], bs[k]) /\ Sound(cs[k])
      <4>1. CASE k \in 1..(n - 1)
        BY <2>4, <2>7, <4>1
      <4>2. CASE k \notin 1..(n - 1)
        <5>1. k = n
          BY <2>10, <4>2
        <5> QED BY <2>6, <2>7, <5>1 DEF b
      <4> QED BY <4>1, <4>2
    <3> QED BY <3>1
  <2>9. new \in Placing
    <3>1. path \in Seq(Title)
      <4>1. GivenTitle \subseteq Title
        BY DEF GivenTitle
      <4> QED BY <2>5, <4>1 DEF GoodPath
    <3> QED BY <2>2, <2>7, <3>1 DEF Placing
  <2>11. new.path = path /\ new.blocks = cs
    BY <2>2
  <2> QED BY <2>1, <2>5, <2>7, <2>8, <2>9, <2>11
<1>4. base \in Upto(0)
  <2>1. base.path = e /\ base.blocks = e /\ Len(e) = 0
    OBVIOUS
  <2>2. e \in Seq(Block) /\ e \in Seq(Title) /\ e \in GoodPath
    BY DEF GoodPath
  <2> HIDE DEF e
  <2>3. base \in Placing
    BY <2>2 DEF Placing
  <2> HIDE DEF base
  <2> QED BY <2>1, <2>2, <2>3
<1>5. steps = [n \in DOMAIN bs |-> steps[n]]
  OBVIOUS
<1>6. PlacedBlocks(bs) = Folded(base, steps).blocks
  BY DEF PlacedBlocks, Walk
<1> HIDE DEF steps, base, Upto
<1>7. base \in P[0] /\ \A n \in 1..N : \A v \in P[n - 1] : steps[n][v] \in P[n]
  <2>1. \A n \in 1..N : n - 1 \in 0..N /\ n \in 0..N
    BY <1>2
  <2>2. \A n \in 0..N : P[n] = Upto(n)
    OBVIOUS
  <2>3. 0 \in 0..N
    BY <1>2
  <2> HIDE DEF P
  <2> QED BY <1>3, <1>4, <2>1, <2>2, <2>3
<1>8. P[N] = Upto(N)
  BY <1>2
<1>9. Folded(base, steps) \in Upto(N)
  <2> HIDE DEF P
  <2> QED BY <1>1, <1>5, <1>7, <1>8, WalkKeeps DEF N
<1> QED
  BY <1>6, <1>9 DEF Upto, Placing

\* Blocks that have their place, and what the section tree is of.
Sectioned(bs) == bs \in Seq(Block) /\ \A k \in 1..Len(bs) : bs[k].path \in GoodPath \ {<<>>}
Section == [first : Nat, last : Nat, blocks : SUBSET Nat]
Tree == UNION {[D -> Section] : D \in SUBSET (GoodPath \ {<<>>})}
Holding(bs, n, q) == {bs[k].id : k \in {j \in 1..n : bs[j].path = q}}
\* The tree of the first n blocks: what it lists, spans and holds
TreeUpto(bs, n) ==
    {t \in Tree :
        /\ DOMAIN t = UNION {Lineage(bs[k].path) : k \in 1..n}
        /\ \A q \in DOMAIN t : t[q].first <= t[q].last /\ t[q].blocks = Holding(bs, n, q)
        /\ \A k \in 1..n : \A q \in Lineage(bs[k].path) :
               t[q].first <= bs[k].page /\ bs[k].page <= t[q].last}

\* The prefixes of a path are paths, the path itself among them.
LEMMA LineagePaths ==
  ASSUME NEW path \in GoodPath \ {<<>>}
  PROVE  /\ Lineage(path) \subseteq GoodPath \ {<<>>}
         /\ path \in Lineage(path)
         /\ \A q \in Lineage(path) : Len(q) > 1 => Front(q) \in Lineage(path)
         /\ \A q \in GoodPath \ {<<>>} : IsPrefix(q, path) => q \in Lineage(path)
<1>1. path \in Seq(GivenTitle) /\ Len(path) \in Nat \ {0}
  BY DEF GoodPath
<1> DEFINE N == Len(path)
<1>2. ASSUME NEW n \in 1..N
      PROVE  /\ SubSeq(path, 1, n) \in Seq(GivenTitle) /\ Len(SubSeq(path, 1, n)) = n
             /\ \A k \in 1..n : SubSeq(path, 1, n)[k] = path[k]
  <2>1. n \in Int /\ n <= N /\ n >= 0
    BY <1>1
  <2> QED BY <1>1, <2>1, FrontPart
<1>3. \A n \in 1..N : SubSeq(path, 1, n) \in GoodPath \ {<<>>}
  <2>1. ASSUME NEW n \in 1..N PROVE SubSeq(path, 1, n) \in GoodPath \ {<<>>}
    <3>1. SubSeq(path, 1, n) \in Seq(GivenTitle) /\ Len(SubSeq(path, 1, n)) = n /\ n > 0
      BY <1>2
    <3> DEFINE s == SubSeq(path, 1, n)
    <3> HIDE DEF s
    <3>2. s \in Seq(GivenTitle) /\ Len(s) > 0
      BY <3>1 DEF s
    <3>3. s # <<>>
      BY <3>2
    <3> QED BY <3>2, <3>3 DEF GoodPath, s
  <2> QED BY <2>1
<1>4. path = SubSeq(path, 1, N) /\ N \in 1..N
  BY <1>1
<1>5. ASSUME NEW q \in Lineage(path), Len(q) > 1 PROVE Front(q) \in Lineage(path)
  <2>1. PICK n \in 1..N : q = SubSeq(path, 1, n)
    BY DEF Lineage
  <2>2. q \in Seq(GivenTitle) /\ Len(q) = n /\ \A k \in 1..n : q[k] = path[k]
    BY <1>2, <2>1
  <2>3. n - 1 \in 1..N /\ n - 1 \in Int /\ n - 1 <= Len(q) /\ n - 1 >= 0
    BY <1>1, <1>5, <2>2
  <2> DEFINE f == SubSeq(q, 1, n - 1)
             g == SubSeq(path, 1, n - 1)
             m == n - 1
  <2>4. f \in Seq(GivenTitle) /\ Len(f) = m /\ \A k \in 1..m : f[k] = q[k]
    <3>1. m \in Int /\ m <= Len(q) /\ m >= 0
      BY <2>3
    <3> HIDE DEF m
    <3>2. SubSeq(q, 1, m) \in Seq(GivenTitle) /\ Len(SubSeq(q, 1, m)) = m /\ \A k \in 1..m : SubSeq(q, 1, m)[k] = q[k]
      BY <2>2, <3>1, FrontPart
    <3> QED BY <3>2 DEF m
  <2>5. g \in Seq(GivenTitle) /\ Len(g) = m /\ \A k \in 1..m : g[k] = path[k]
    <3>1. m \in 1..N
      BY <2>3
    <3> HIDE DEF m
    <3>2. SubSeq(path, 1, m) \in Seq(GivenTitle) /\ Len(SubSeq(path, 1, m)) = m /\ \A k \in 1..m : SubSeq(path, 1, m)[k] = path[k]
      BY <3>1, <1>2
    <3> QED BY <3>2 DEF m
  <2>6. \A k \in 1..m : q[k] = path[k]
    BY <2>2
  <2>7. Front(q) = f
    BY <2>2 DEF Front
  <2>9. m \in 1..N
    BY <2>3
  <2> HIDE DEF f, m
  <2>8. f = g
    <3> HIDE DEF g
    <3> QED BY <2>4, <2>5, <2>6
  <2>10. g = SubSeq(path, 1, m)
    BY DEF m
  <2> HIDE DEF g
  <2> QED BY <2>7, <2>8, <2>9, <2>10 DEF Lineage
<1>6. ASSUME NEW q \in GoodPath \ {<<>>}, IsPrefix(q, path) PROVE q \in Lineage(path)
  <2>1. q \in Seq(GivenTitle) /\ Len(q) > 0 /\ Len(q) \in Nat
    BY DEF GoodPath
  <2>2. Len(q) <= N /\ SubSeq(q, 1, Len(q)) = SubSeq(path, 1, Len(q))
    BY <1>6 DEF IsPrefix
  <2>3. SubSeq(q, 1, Len(q)) = q
    BY <2>1
  <2>4. Len(q) \in 1..N
    BY <1>1, <2>1, <2>2
  <2> QED BY <2>2, <2>3, <2>4 DEF Lineage
<1> QED
  BY <1>3, <1>4, <1>5, <1>6 DEF Lineage

\* One more block in the tree
LEMMA EnsureNext ==
  ASSUME NEW bs, Sectioned(bs), NEW n \in 1..Len(bs), NEW t \in TreeUpto(bs, n - 1)
  PROVE  Ensure(t, bs[n].path, bs[n]) \in TreeUpto(bs, n)
<1> DEFINE b == bs[n]
           path == b.path
           new == Ensure(t, path, b)
           D == DOMAIN t \cup Lineage(path)
           Old(q) == IF q \in DOMAIN t THEN t[q] ELSE [first |-> b.page, last |-> b.page, blocks |-> {}]
           Wider(q) == IF q \notin Lineage(path) THEN Old(q)
                      ELSE [first |-> Min({Old(q).first, b.page}), last |-> Max({Old(q).last, b.page}),
                            blocks |-> Old(q).blocks \cup (IF q = path THEN {b.id} ELSE {})]
<1>1. b \in Block /\ path \in GoodPath \ {<<>>} /\ n \in Nat /\ n - 1 \in Nat
  BY DEF Sectioned
<1>2. b.page \in Nat /\ b.id \in Nat
  BY <1>1 DEF Block
<1>3. new = [q \in D |-> Wider(q)]
  BY DEF Ensure
<1>4. /\ t \in Tree /\ DOMAIN t = UNION {Lineage(bs[k].path) : k \in 1..(n - 1)}
      /\ \A q \in DOMAIN t : t[q].first <= t[q].last /\ t[q].blocks = Holding(bs, n - 1, q)
      /\ \A k \in 1..(n - 1) : \A q \in Lineage(bs[k].path) :
             t[q].first <= bs[k].page /\ bs[k].page <= t[q].last
  BY DEF TreeUpto
<1>5. \A q \in DOMAIN t : t[q] \in Section /\ q \in GoodPath \ {<<>>}
  BY <1>4 DEF Tree
<1>6. Lineage(path) \subseteq GoodPath \ {<<>>} /\ path \in Lineage(path)
  BY <1>1, LineagePaths
<1>7. \A q \in D : q \in GoodPath \ {<<>>}
  BY <1>5, <1>6
<1> HIDE DEF b, path, new
<1>8. ASSUME NEW q \in D
      PROVE  /\ Old(q) \in Section /\ Old(q).first <= Old(q).last
             /\ q \in DOMAIN t => Old(q) = t[q]
             /\ q \notin DOMAIN t => Old(q).blocks = {}
  <2>1. CASE q \in DOMAIN t
    BY <1>4, <1>5, <2>1
  <2>2. CASE q \notin DOMAIN t
    BY <1>2, <2>2 DEF Section
  <2> QED BY <2>1, <2>2
<1> HIDE DEF Old
<1>9. ASSUME NEW q \in D
      PROVE  /\ Wider(q) \in Section /\ Wider(q).first <= Wider(q).last
             /\ Wider(q).first <= Old(q).first /\ Old(q).last <= Wider(q).last
             /\ q \in Lineage(path) => Wider(q).first <= b.page /\ b.page <= Wider(q).last
             /\ Wider(q).blocks = Old(q).blocks \cup (IF q = path THEN {b.id} ELSE {})
  <2> DEFINE o == Old(q)
             g == Wider(q)
             lo == Min({o.first, b.page})
             hi == Max({o.last, b.page})
             bl == o.blocks \cup (IF q = path THEN {b.id} ELSE {})
  <2>1. o \in Section /\ o.first <= o.last
    BY <1>8
  <2>2. o.first \in Nat /\ o.last \in Nat /\ o.blocks \in SUBSET Nat
    BY <2>1 DEF Section
  <2>3. CASE q \notin Lineage(path)
    <3>1. q # path /\ g = o
      BY <1>6, <2>3
    <3> HIDE DEF o, g
    <3> QED BY <2>1, <2>2, <2>3, <3>1 DEF o, g
  <2>4. CASE q \in Lineage(path)
    <3>1. g = [first |-> lo, last |-> hi, blocks |-> bl]
      BY <2>4
    <3> HIDE DEF o, g
    <3>2. lo \in Nat /\ lo <= o.first /\ lo <= b.page
      <4> DEFINE x == o.first
                 y == b.page
      <4>1. x \in Nat /\ y \in Nat
        BY <1>2, <2>2
      <4> HIDE DEF x, y
      <4>2. x \in Int /\ y \in Int
        BY <4>1
      <4>3. Min({x, y}) \in {x, y} /\ Min({x, y}) <= x /\ Min({x, y}) <= y
        BY <4>2, MinOfTwo
      <4> QED BY <4>1, <4>3 DEF x, y
    <3>3. hi \in Nat /\ o.last <= hi /\ b.page <= hi
      <4>1. \E x \in {o.last, b.page} : \A y \in {o.last, b.page} : x >= y
        BY <1>2, <2>2
      <4>2. hi \in {o.last, b.page} /\ \A y \in {o.last, b.page} : hi >= y
        BY <4>1 DEF Max
      <4> QED BY <1>2, <2>2, <4>2
    <3>4. bl \in SUBSET Nat
      BY <1>2, <2>2
    <3> HIDE DEF lo, hi, bl
    <3>5. g \in Section /\ g.first = lo /\ g.last = hi /\ g.blocks = bl
      BY <3>1, <3>2, <3>3, <3>4 DEF Section
    <3>6. lo <= hi
      BY <1>2, <3>2, <3>3
    <3> QED BY <3>2, <3>3, <3>5, <3>6 DEF bl, o, g
  <2> QED BY <2>3, <2>4
<1> HIDE DEF Wider
<1>10. new \in Tree /\ DOMAIN new = D /\ \A q \in D : new[q] = Wider(q)
  <2>1. new \in [D -> Section]
    BY <1>3, <1>9
  <2>2. D \in SUBSET (GoodPath \ {<<>>})
    BY <1>7
  <2>3. DOMAIN new = D /\ \A q \in D : new[q] = Wider(q)
    BY <1>3
  <2> HIDE DEF D
  <2> QED BY <2>1, <2>2, <2>3 DEF Tree
<1>11. D = UNION {Lineage(bs[k].path) : k \in 1..n}
  <2>1. 1..n = (1..(n - 1)) \cup {n}
    BY <1>1
  <2> QED BY <1>4, <2>1 DEF path, b
<1>12. ASSUME NEW q \in D PROVE new[q].blocks = Holding(bs, n, q)
  <2>1. new[q].blocks = Old(q).blocks \cup (IF q = path THEN {b.id} ELSE {})
    BY <1>9, <1>10
  <2>2. Old(q).blocks = Holding(bs, n - 1, q)
    <3>1. CASE q \in DOMAIN t
      BY <1>4, <1>8, <3>1
    <3>2. CASE q \notin DOMAIN t
      <4>1. ASSUME NEW k \in 1..(n - 1), bs[k].path = q PROVE FALSE
        <5>1. k \in 1..Len(bs)
          BY <1>1
        <5>2. bs[k].path \in GoodPath \ {<<>>}
          BY <5>1 DEF Sectioned
        <5>3. q \in Lineage(bs[k].path)
          BY <4>1, <5>2, LineagePaths
        <5> QED BY <1>4, <3>2, <5>3
      <4>2. Holding(bs, n - 1, q) = {}
        BY <4>1 DEF Holding
      <4> QED BY <1>8, <3>2, <4>2
    <3> QED BY <3>1, <3>2
  <2>3. Holding(bs, n, q) = Holding(bs, n - 1, q) \cup (IF q = path THEN {b.id} ELSE {})
    <3>1. \A k : k \in 1..n <=> k \in 1..(n - 1) \/ k = n
      BY <1>1
    <3> QED BY <3>1 DEF Holding, path, b
  <2> QED BY <2>1, <2>2, <2>3
<1>13. ASSUME NEW k \in 1..n, NEW q \in Lineage(bs[k].path)
       PROVE  new[q].first <= bs[k].page /\ bs[k].page <= new[q].last
  <2>1. q \in D
    BY <1>11
  <2>2. k \in 1..(n - 1) \/ k = n
    BY <1>1
  <2>3. CASE k = n
    BY <1>9, <1>10, <2>1, <2>3 DEF path, b
  <2>4. CASE k \in 1..(n - 1)
    <3>1. q \in DOMAIN t /\ Old(q) = t[q] /\ t[q] \in Section
      BY <1>4, <1>5, <1>8, <2>1, <2>4
    <3>2. t[q].first <= bs[k].page /\ bs[k].page <= t[q].last
      BY <1>4, <2>4
    <3>3. /\ new[q] \in Section /\ new[q].first <= t[q].first /\ t[q].last <= new[q].last
      BY <1>9, <1>10, <2>1, <3>1
    <3>4. bs[k].page \in Nat
      <4>1. bs[k] \in Block
        BY <1>1, <2>4 DEF Sectioned
      <4> QED BY <4>1 DEF Block
    <3>5. /\ new[q].first \in Nat /\ new[q].last \in Nat /\ t[q].first \in Nat /\ t[q].last \in Nat
      BY <3>1, <3>3 DEF Section
    <3> QED BY <3>2, <3>3, <3>4, <3>5
  <2> QED BY <2>2, <2>3, <2>4
<1>14. \A q \in D : new[q].first <= new[q].last
  BY <1>9, <1>10
<1>15. new \in TreeUpto(bs, n)
  BY <1>10, <1>11, <1>12, <1>13, <1>14 DEF TreeUpto
<1> QED
  BY <1>15 DEF new, path, b

\* The whole tree
LEMMA TreeWhole ==
  ASSUME NEW bs, Sectioned(bs)
  PROVE  TreeOf(bs) \in TreeUpto(bs, Len(bs))
<1> DEFINE N == Len(bs)
           e == <<>>
           W == UNION {TreeUpto(bs, n) : n \in 0..N}
           step == [n \in 1..N |-> [v \in W |-> IF Ensure(v, bs[n].path, bs[n]) \in W
                                               THEN Ensure(v, bs[n].path, bs[n]) ELSE e]]
           P == [n \in 0..N |-> TreeUpto(bs, n)]
           Eq(f) == f = [n \in 0..N |-> IF n = 0 THEN e ELSE Ensure(f[n - 1], bs[n].path, bs[n])]
           c == CHOOSE f : Eq(f)
<1>1. N \in Nat
  BY DEF Sectioned
<1>2. e \in TreeUpto(bs, 0)
  <2>1. DOMAIN e = {}
    OBVIOUS
  <2>2. e \in [{} -> Section]
    OBVIOUS
  <2>3. e \in Tree
    BY <2>2 DEF Tree
  <2> HIDE DEF e
  <2> QED BY <2>1, <2>3 DEF TreeUpto
<1> HIDE DEF e
<1>3. e \in W /\ \A n \in 0..N : TreeUpto(bs, n) \subseteq W
  BY <1>1, <1>2
<1>4. Steps(step, N, W)
  <2> HIDE DEF W
  <2> QED BY <1>1, <1>3 DEF Steps
<1>5. PICK g : Leads(g, W, e, N, step)
  <2> HIDE DEF W, step
  <2> QED BY <1>3, <1>4, Recursion
<1> DEFINE S == {n \in Nat : n <= N => /\ g[n] \in TreeUpto(bs, n)
                                       /\ n > 0 => g[n] = Ensure(g[n - 1], bs[n].path, bs[n])}
<1>6. Nat \subseteq S
  <2>1. 0 \in S
    BY <1>2, <1>5 DEF Leads
  <2>2. ASSUME NEW n \in Nat, n \in S PROVE n + 1 \in S
    <3>1. SUFFICES ASSUME n + 1 <= N PROVE n + 1 \in S
      OBVIOUS
    <3>2. n + 1 \in 1..N /\ (n + 1) - 1 = n /\ n + 1 \in 0..N
      BY <1>1, <3>1
    <3>3. g[n] \in TreeUpto(bs, n) /\ n \in 0..N
      BY <1>1, <2>2, <3>1
    <3> DEFINE next == Ensure(g[n], bs[n + 1].path, bs[n + 1])
    <3>4. next \in TreeUpto(bs, n + 1)
      <4> DEFINE m == n + 1
      <4>1. m \in 1..Len(bs) /\ g[n] \in TreeUpto(bs, m - 1)
        BY <3>2, <3>3
      <4> HIDE DEF m
      <4>2. Ensure(g[n], bs[m].path, bs[m]) \in TreeUpto(bs, m)
        BY <4>1, EnsureNext
      <4> QED BY <4>2 DEF m
    <3>5. g[n] \in W /\ next \in W
      BY <1>3, <3>2, <3>3, <3>4
    <3>6. g[n + 1] = step[n + 1][g[n]]
      BY <1>5, <3>2 DEF Leads
    <3>7. g[n + 1] = next
      <4> HIDE DEF W
      <4> QED BY <3>2, <3>5, <3>6
    <3> QED BY <3>2, <3>4, <3>7
  <2> HIDE DEF S
  <2> QED BY <2>1, <2>2, Induction
<1>7. \A n \in 0..N : g[n] \in TreeUpto(bs, n) /\ (n > 0 => g[n] = Ensure(g[n - 1], bs[n].path, bs[n]))
  BY <1>1, <1>6
<1> HIDE DEF W, step, S, N
<1>8. /\ g = [n \in 0..N |-> g[n]] /\ DOMAIN g = 0..N /\ g[0] = e
      /\ \A n \in 1..N : g[n] = Ensure(g[n - 1], bs[n].path, bs[n])
  BY <1>1, <1>5, <1>7 DEF Leads
<1>9. Eq(g)
  <2>1. \A n \in 0..N : n = 0 \/ n \in 1..N
    BY <1>1
  <2>2. \A n \in 0..N : g[n] = IF n = 0 THEN e ELSE Ensure(g[n - 1], bs[n].path, bs[n])
    BY <1>8, <2>1, Zenon
  <2>3. [n \in 0..N |-> g[n]] = [n \in 0..N |-> IF n = 0 THEN e ELSE Ensure(g[n - 1], bs[n].path, bs[n])]
    BY <2>2, Zenon
  <2> QED BY <1>8, <2>3, Zenon
<1>10. Eq(c)
  <2> HIDE DEF Eq
  <2> QED BY <1>9, Zenon
<1> HIDE DEF c
<1>11. c[0] = e /\ \A n \in 1..N : c[n] = Ensure(c[n - 1], bs[n].path, bs[n])
  BY <1>1, <1>10
<1>12. c = [n \in 0..N |-> c[n]] /\ DOMAIN c = 0..N
  BY <1>1, <1>10
<1>13. c = g
  <2>1. \A n \in 1..N : c[n - 1] = g[n - 1] => c[n] = g[n]
    BY <1>8, <1>11
  <2>2. c[0] = g[0]
    BY <1>8, <1>11
  <2> QED BY <1>1, <1>8, <1>12, <2>1, <2>2, SameRecursion
<1>14. TreeOf(bs) = c[N]
  BY DEF TreeOf, c, e, N
<1> QED
  BY <1>1, <1>7, <1>13, <1>14 DEF N

\* Ids grow with the blocks.
LEMMA OrderlyIds ==
  ASSUME NEW bs, Orderly(bs)
  PROVE  /\ bs \in Seq(Block) /\ Len(bs) \in Nat /\ DOMAIN bs = 1..Len(bs)
         /\ \A k \in 1..Len(bs) : bs[k] \in Block /\ bs[k].id \in Nat /\ bs[k].order = bs[k].id
         /\ \A j \in 1..Len(bs), k \in 1..Len(bs) : j < k => bs[j].id < bs[k].id
         /\ \A j \in 1..Len(bs), k \in 1..Len(bs) : bs[j].id = bs[k].id => j = k
<1>1. bs \in Seq(Block) /\ Len(bs) \in Nat /\ DOMAIN bs = 1..Len(bs)
  BY DEF Orderly
<1>2. ASSUME NEW k \in 1..Len(bs)
      PROVE  bs[k] \in Block /\ bs[k].id \in Nat /\ bs[k].order = bs[k].id
  <2>1. Sound(bs[k])
    BY DEF Orderly
  <2>2. bs[k] \in Block /\ bs[k].order = bs[k].id
    BY <2>1 DEF Sound
  <2> QED BY <2>2 DEF Block
<1>3. \A j \in 1..Len(bs), k \in 1..Len(bs) : j < k => bs[j].id < bs[k].id
  BY DEF Orderly, EndsBefore
<1>4. ASSUME NEW j \in 1..Len(bs), NEW k \in 1..Len(bs), bs[j].id = bs[k].id PROVE j = k
  <2>1. j < k \/ k < j \/ j = k
    BY <1>1
  <2>2. bs[j].id \in Nat /\ bs[k].id \in Nat
    BY <1>2
  <2> QED BY <1>3, <1>4, <2>1, <2>2
<1> QED
  BY <1>1, <1>2, <1>3, <1>4

\* What a settled block has of the one it stands in for
LEMMA SettledFields ==
  ASSUME NEW b \in Block, NEW c, Settled(c, b)
  PROVE  /\ c \in Block /\ c.id = b.id /\ c.page = b.page /\ c.order = b.order /\ c.line = b.line
         /\ c.title = b.title /\ c.text = b.text /\ c.path \in GoodPath \ {<<>>}
         /\ c.type \in {b.type, "heading"}
<1>1. c = [b EXCEPT !.path = c.path, !.type = c.type]
  BY DEF Settled
<1>2. /\ c.id = b.id /\ c.page = b.page /\ c.order = b.order /\ c.line = b.line
      /\ c.title = b.title /\ c.text = b.text
  <2> DEFINE p == c.path
             t == c.type
  <2>1. c = [b EXCEPT !.path = p, !.type = t]
    BY <1>1
  <2> HIDE DEF p, t
  <2> QED BY <2>1 DEF Block
<1> QED
  BY <1>2 DEF Settled

\* The blocks that have been placed, in their order
LEMMA PlacedOrderly ==
  ASSUME NEW bs, Orderly(bs)
  PROVE  /\ Orderly(PlacedBlocks(bs)) /\ Sectioned(PlacedBlocks(bs))
         /\ Len(PlacedBlocks(bs)) = Len(bs)
         /\ \A k \in 1..Len(bs) : Settled(PlacedBlocks(bs)[k], bs[k])
<1> DEFINE cs == PlacedBlocks(bs)
           N == Len(bs)
<1>1. Len(cs) = N /\ cs \in Seq(Block) /\ \A k \in 1..N : Settled(cs[k], bs[k]) /\ Sound(cs[k])
  BY PlacedAll
<1> HIDE DEF cs
<1>2. /\ bs \in Seq(Block) /\ \A k \in 1..N : bs[k] \in Block
      /\ \A k \in 1..N, j \in 1..N : j < k => EndsBefore(bs[j], bs[k].id)
  BY DEF Orderly
<1>3. \A k \in 1..N : /\ cs[k].id = bs[k].id /\ cs[k].text = bs[k].text
                      /\ cs[k].path \in GoodPath \ {<<>>}
  BY <1>1, <1>2, SettledFields
<1>4. \A k \in 1..N, j \in 1..N : j < k => EndsBefore(cs[j], cs[k].id)
  BY <1>2, <1>3 DEF EndsBefore
<1>5. Orderly(cs) /\ Sectioned(cs)
  BY <1>1, <1>3, <1>4 DEF Orderly, Sectioned
<1> QED
  BY <1>1, <1>5 DEF cs

\* A block is in the section it names and within its pages.
LEMMA InItsSection ==
  ASSUME NEW bs, Orderly(bs), Sectioned(bs), NEW t, t \in TreeUpto(bs, Len(bs)),
         NEW b \in ToSet(bs)
  PROVE  /\ b.path \in DOMAIN t
         /\ \A q \in DOMAIN t : /\ IsPrefix(q, b.path) => b.page \in t[q].first..t[q].last
                                /\ b.id \in t[q].blocks <=> b.path = q
<1> DEFINE N == Len(bs)
<1>1. /\ t \in Tree /\ DOMAIN t = UNION {Lineage(bs[k].path) : k \in 1..N}
      /\ \A q \in DOMAIN t : t[q].blocks = Holding(bs, N, q)
      /\ \A k \in 1..N : \A q \in Lineage(bs[k].path) :
             t[q].first <= bs[k].page /\ bs[k].page <= t[q].last
  BY DEF TreeUpto
<1>2. PICK k \in 1..N : b = bs[k]
  BY OrderlyIds DEF ToSet
<1>3. b.path \in GoodPath \ {<<>>} /\ b \in Block
  BY <1>2 DEF Sectioned
<1>4. b.path \in Lineage(b.path)
  BY <1>3, LineagePaths
<1>5. b.path \in DOMAIN t
  BY <1>1, <1>2, <1>4
<1>6. ASSUME NEW q \in DOMAIN t, IsPrefix(q, b.path) PROVE b.page \in t[q].first..t[q].last
  <2>1. q \in GoodPath \ {<<>>} /\ t[q] \in Section
    BY <1>1 DEF Tree
  <2>2. q \in Lineage(b.path)
    BY <1>3, <1>6, <2>1, LineagePaths
  <2>3. t[q].first <= b.page /\ b.page <= t[q].last
    BY <1>1, <1>2, <2>2
  <2>4. t[q].first \in Nat /\ t[q].last \in Nat
    BY <2>1 DEF Section
  <2>5. b.page \in Nat
    BY <1>3 DEF Block
  <2> QED BY <2>3, <2>4, <2>5
<1>7. ASSUME NEW q \in DOMAIN t PROVE b.id \in t[q].blocks <=> b.path = q
  <2>1. t[q].blocks = {bs[j].id : j \in {i \in 1..N : bs[i].path = q}}
    BY <1>1 DEF Holding
  <2>2. \A j \in 1..N : bs[j].id = bs[k].id => j = k
    BY OrderlyIds
  <2> QED BY <1>2, <2>1, <2>2
<1> QED
  BY <1>5, <1>6, <1>7

-----------------------------------------------------------------------------
\* What the passes have made of the blocks of a parser
LEMMA WhatIsBuilt ==
  ASSUME Orderly(parsed)
  PROVE  LET cs == Cleaned(parsed)
             bs == PlacedBlocks(cs)
         IN  /\ Orderly(cs) /\ Orderly(bs) /\ Sectioned(bs)
             /\ TreeOf(bs) \in TreeUpto(bs, Len(bs))
             /\ \A b \in ToSet(bs) : \E c \in ToSet(cs) : Settled(b, c)
             /\ bs = <<>> => \A b \in ToSet(parsed) : Noise(b, parsed)
<1> DEFINE cs == Cleaned(parsed)
           bs == PlacedBlocks(cs)
<1>1. Orderly(cs) /\ ToSet(cs) = {b \in ToSet(parsed) : ~Noise(b, parsed)}
  BY CleanedOrderly
<1> HIDE DEF cs
<1>2. /\ Orderly(bs) /\ Sectioned(bs) /\ Len(bs) = Len(cs)
      /\ \A k \in 1..Len(cs) : Settled(bs[k], cs[k])
  BY <1>1, PlacedOrderly
<1> HIDE DEF bs
<1>3. TreeOf(bs) \in TreeUpto(bs, Len(bs))
  BY <1>2, TreeWhole
<1>4. DOMAIN bs = 1..Len(bs) /\ DOMAIN cs = 1..Len(cs) /\ cs \in Seq(Block)
  BY <1>1, <1>2, OrderlyIds
<1>5. \A b \in ToSet(bs) : \E c \in ToSet(cs) : Settled(b, c)
  BY <1>2, <1>4 DEF ToSet
<1>6. bs = <<>> => \A b \in ToSet(parsed) : Noise(b, parsed)
  <2>1. SUFFICES ASSUME bs = <<>> PROVE ToSet(cs) = {}
    BY <1>1
  <2>2. Len(cs) = 0
    BY <1>2, <2>1
  <2> QED BY <1>4, <2>2 DEF ToSet
<1> QED
  BY <1>1, <1>2, <1>3, <1>5, <1>6 DEF bs, cs

\* validate_parsed_document warns of nothing but of an empty document.
LEMMA OnlyEmptyWarned ==
  ASSUME Orderly(parsed), parsed # <<>>
  PROVE  LET cs == Cleaned(parsed)
             bs == PlacedBlocks(cs)
             w == DocumentWarnings(bs, Listed(cs), TreeOf(bs))
         IN  w \subseteq {"no blocks"} /\ (w # {} => bs = <<>>)
<1> DEFINE cs == Cleaned(parsed)
           bs == PlacedBlocks(cs)
           ps == Listed(cs)
           t == TreeOf(bs)
<1>1. /\ Orderly(cs) /\ Orderly(bs) /\ Sectioned(bs) /\ t \in TreeUpto(bs, Len(bs))
      /\ \A b \in ToSet(bs) : \E c \in ToSet(cs) : Settled(b, c)
  BY WhatIsBuilt
<1>2. ToSet(cs) \subseteq ToSet(parsed)
  BY CleanedOrderly
<1>3. ps = [p \in PagesOf(parsed) |-> IdsOnPage(parsed, p) \cap IdSet(cs)]
  BY DEF Listed
<1> HIDE DEF cs, bs, ps, t
<1>4. DOMAIN ps # {}
  <2>1. 1 \in DOMAIN parsed
    BY OrderlyIds
  <2> QED BY <1>3, <2>1 DEF PagesOf
<1>5. IsInjective(IdsOf(bs))
  <2>1. \A j \in 1..Len(bs), k \in 1..Len(bs) : bs[j].id = bs[k].id => j = k
    BY <1>1, OrderlyIds
  <2>2. DOMAIN bs = 1..Len(bs)
    BY <1>1, OrderlyIds
  <2> QED BY <2>1, <2>2 DEF IsInjective, IdsOf
<1>6. PagelessBlocks(bs, ps) = {}
  <2>1. ASSUME NEW b \in ToSet(bs) PROVE b.page \in DOMAIN ps /\ b.id \in ps[b.page]
    <3>1. PICK c \in ToSet(cs) : Settled(b, c)
      BY <1>1
    <3>2. c \in Block
      BY <1>1, OrderlyIds DEF ToSet
    <3>3. b.id = c.id /\ b.page = c.page
      BY <3>1, <3>2, SettledFields
    <3>4. c \in ToSet(parsed)
      BY <1>2
    <3>5. c.page \in PagesOf(parsed) /\ c.id \in IdsOnPage(parsed, c.page) /\ c.id \in IdSet(cs)
      BY <3>4 DEF PagesOf, IdsOnPage, IdSet, ToSet
    <3> QED BY <1>3, <3>3, <3>5
  <2> QED BY <2>1 DEF PagelessBlocks
<1>7. OutOfOrder(bs) = {}
  <2>1. ASSUME NEW k \in DOMAIN bs, NEW j \in 1..(k - 1) PROVE ~(bs[j].order > bs[k].order)
    <3>1. k \in 1..Len(bs) /\ j \in 1..Len(bs) /\ j < k
      BY <1>1, OrderlyIds
    <3>2. bs[j].id < bs[k].id /\ bs[j].id \in Nat /\ bs[k].id \in Nat
          /\ bs[j].order = bs[j].id /\ bs[k].order = bs[k].id
      BY <1>1, <3>1, OrderlyIds
    <3> QED BY <3>2
  <2> QED BY <2>1 DEF OutOfOrder
<1>8. Unplaced(bs, t) = {}
  <2>1. \A b \in ToSet(bs) : b.path \in DOMAIN t
    BY <1>1, InItsSection
  <2> QED BY <2>1 DEF Unplaced
<1>9. OddSections(t) = {}
  <2>1. ASSUME NEW q \in DOMAIN t
        PROVE  /\ Last(q) # <<>> /\ ~(t[q].first > t[q].last)
               /\ Len(q) > 1 => Front(q) \in DOMAIN t
    <3>1. /\ t \in Tree /\ DOMAIN t = UNION {Lineage(bs[k].path) : k \in 1..Len(bs)}
          /\ t[q].first <= t[q].last
      BY <1>1 DEF TreeUpto
    <3>2. q \in GoodPath \ {<<>>} /\ t[q] \in Section
      BY <3>1 DEF Tree
    <3>3. Last(q) # <<>>
      <4>1. q \in Seq(GivenTitle) /\ Len(q) \in 1..Len(q)
        BY <3>2 DEF GoodPath
      <4>2. q[Len(q)] \in GivenTitle
        BY <4>1
      <4> QED BY <4>2 DEF Last, GivenTitle
    <3>4. t[q].first \in Nat /\ t[q].last \in Nat
      BY <3>2 DEF Section
    <3>5. PICK k \in 1..Len(bs) : q \in Lineage(bs[k].path)
      BY <3>1
    <3>6. bs[k].path \in GoodPath \ {<<>>}
      BY <1>1 DEF Sectioned
    <3>7. Len(q) > 1 => Front(q) \in Lineage(bs[k].path)
      BY <3>5, <3>6, LineagePaths
    <3> QED BY <3>1, <3>3, <3>4, <3>7
  <2> QED BY <2>1 DEF OddSections
<1>10. DocumentWarnings(bs, ps, t) = {w \in {"no blocks"} : bs = <<>>}
  <2> DEFINE ws == {"no blocks", "no pages", "duplicate id", "page", "order", "heading", "section"}
             Holds(w) ==
        CASE w = "no blocks" -> bs = <<>>
          [] w = "no pages" -> DOMAIN ps = {}
          [] w = "duplicate id" -> ~IsInjective(IdsOf(bs))
          [] w = "page" -> PagelessBlocks(bs, ps) # {}
          [] w = "order" -> OutOfOrder(bs) # {}
          [] w = "heading" -> Unplaced(bs, t) # {}
          [] w = "section" -> OddSections(t) # {}
  <2>1. DocumentWarnings(bs, ps, t) = {w \in ws : Holds(w)}
    BY DEF DocumentWarnings
  <2>2. Holds("no blocks") = (bs = <<>>)
    OBVIOUS
  <2>3. ~Holds("no pages")
    BY <1>4
  <2>4. ~Holds("duplicate id")
    BY <1>5
  <2>5. ~Holds("page")
    BY <1>6
  <2>6. ~Holds("order")
    BY <1>7
  <2>7. ~Holds("heading")
    BY <1>8
  <2>8. ~Holds("section")
    BY <1>9
  <2> HIDE DEF Holds
  <2> QED BY <2>1, <2>2, <2>3, <2>4, <2>5, <2>6, <2>7, <2>8
<1> QED
  BY <1>10 DEF bs, cs, ps, t

-----------------------------------------------------------------------------
(* The invariant *)

\* Whatever is asked for, there is a template.
LEMMA KeywordTemplate == ASSUME NEW bs PROVE ByKeyword(bs) \in Template
<1> DEFINE I == {i \in 1..Len(Rules) : \E b \in ToSet(bs) : b.line \in Keywords[Rules[i]]}
           rule == SelectInSeq(Rules, LAMBDA t : \E b \in ToSet(bs) : b.line \in Keywords[t])
<1>1. rule = IF I # {} THEN Min(I) ELSE 0
  BY DEF SelectInSeq
<1>2. Len(Rules) = 6 /\ \A i \in 1..6 : Rules[i] \in Template
  BY DEF Rules, Template
<1>3. I \subseteq 1..6
  BY <1>2
<1>4. ByKeyword(bs) = IF rule = 0 THEN "generic_structured" ELSE Rules[rule]
  BY DEF ByKeyword
<1> HIDE DEF I, rule
<1>5. rule = 0 \/ rule \in 1..6
  BY <1>1, <1>3, FirstOf
<1> QED
  BY <1>2, <1>4, <1>5 DEF Template

\* The kind of a document is a template.
LEMMA TypeIsTemplate ==
  ASSUME NEW bs, NEW requested, NEW parser
  PROVE  DocumentType(bs, requested, parser) \in Template
<1>1. CASE requested \in Template
  <2>1. "auto" \notin Template
    BY DEF Template
  <2>2. requested # "auto" /\ requested \in Template \cup {"auto"}
    BY <1>1, <2>1
  <2>3. DocumentType(bs, requested, parser) = requested
    BY <1>1, <2>2 DEF DocumentType
  <2> QED BY <1>1, <2>3
<1>2. CASE requested \notin Template \cup {"auto"}
  <2>1. DocumentType(bs, requested, parser) = "generic_structured"
    BY <1>2 DEF DocumentType
  <2> QED BY <2>1 DEF Template
<1>3. CASE requested = "auto"
  <2>1. "auto" \notin Template
    BY DEF Template
  <2>2. CASE parser = "table_file"
    <3>1. DocumentType(bs, requested, parser) = "table_data"
      BY <1>3, <2>1, <2>2 DEF DocumentType
    <3> QED BY <3>1 DEF Template
  <2>3. CASE parser # "table_file"
    <3>1. DocumentType(bs, requested, parser)
            = IF MoreThanAThird(bs, "table") THEN "table_data"
              ELSE IF MoreThanAThird(bs, "figure") THEN "picture_pdf" ELSE ByKeyword(bs)
      BY <1>3, <2>1, <2>3 DEF DocumentType
    <3>2. "table_data" \in Template /\ "picture_pdf" \in Template
      BY DEF Template
    <3> QED BY <3>1, <3>2, KeywordTemplate
  <2> QED BY <2>2, <2>3
<1> QED
  BY <1>1, <1>2, <1>3

-----------------------------------------------------------------------------
\* At the start
LEMMA InvInit == Init => ChunkingInv
<1> SUFFICES ASSUME Init PROVE ChunkingInv
  OBVIOUS
<1>1. Serving
  BY LimitsAreNumbers DEF Init, Idle, Serving, Step, DownloadAttempts
<1>2. Passes
  <2>1. stage = "attempt" /\ parsed = <<>> /\ blocks = <<>> /\ kind = "none"
        /\ parents = <<>> /\ children = <<>>
    BY DEF Init
  <2> QED BY <2>1 DEF Passes, Parsed
<1>3. Calls /\ job \in Jobs
  BY DEF Init, Calls
<1> QED
  BY <1>1, <1>2, <1>3, ChainInit DEF ChunkingInv

\* The service: what a step of the task changes
LEMMA ServingStep ==
  ASSUME Serving, [Next]_vars
  PROVE  Serving'
<1>1. service \in [step : Step, polls : 0..PollLimit, downloads : 0..DownloadAttempts]
  BY DEF Serving
<1>2. Idle \in [step : Step, polls : 0..PollLimit, downloads : 0..DownloadAttempts]
      /\ Idle.downloads < DownloadAttempts
  BY LimitsAreNumbers DEF Idle, Step, DownloadAttempts
<1>3. CASE service' = service
  BY <1>3 DEF Serving
<1>4. CASE service' = Idle
  BY <1>2, <1>4 DEF Serving
<1>5. ASSUME NEW step \in Step, service' = [service EXCEPT !.step = step],
             step \in {"create", "upload", "poll", "download"} => service.downloads < DownloadAttempts
      PROVE  Serving'
  <2>1. /\ service' \in [step : Step, polls : 0..PollLimit, downloads : 0..DownloadAttempts]
        /\ service'.step = step /\ service'.downloads = service.downloads
    BY <1>1, <1>5
  <2> QED BY <1>5, <2>1 DEF Serving
<1>6. CASE PassOver \/ StartMinerU \/ Refuse \/ CleanNoise \/ BuildSections \/ ChunkDocument
           \/ CallerGivesUp \/ Over \/ UNCHANGED vars
  BY <1>3, <1>6 DEF PassOver, StartMinerU, Refuse, CleanNoise, BuildSections, ChunkDocument,
                    CallerGivesUp, Over, vars, parsing
<1>7. CASE ParserReads \/ ArchiveRead \/ TaskFails \/ ReadNothing
  BY <1>4, <1>7 DEF ParserReads, ArchiveRead, TaskFails, ReadNothing, Accept
<1>8. CASE TaskCreated
  BY <1>5, <1>8 DEF TaskCreated, InService, GoTo, Serve, Serving, Step
<1>9. CASE Uploaded
  BY <1>5, <1>9 DEF Uploaded, InService, GoTo, Serve, Serving, Step
<1>10. CASE Finished
  BY <1>5, <1>10 DEF Finished, InService, GoTo, Serve, Serving, Step
<1>11. CASE Downloaded
  BY <1>5, <1>11 DEF Downloaded, InService, GoTo, Serve, Serving, Step
<1>12. CASE Pending
  <2>1. service.polls < PollLimit /\ service' = [service EXCEPT !.polls = service.polls + 1]
        /\ service.step = "poll"
    BY <1>12 DEF Pending, InService, Serve
  <2>2. service.polls + 1 \in 0..PollLimit
    BY <1>1, <2>1, LimitsAreNumbers
  <2>3. /\ service' \in [step : Step, polls : 0..PollLimit, downloads : 0..DownloadAttempts]
        /\ service'.step = "poll" /\ service'.downloads = service.downloads
    BY <1>1, <2>1, <2>2
  <2> QED BY <2>1, <2>3 DEF Serving
<1>13. CASE DownloadBreaks
  <2> DEFINE d == service.downloads + 1
             next == IF d = DownloadAttempts THEN "curl" ELSE "download"
  <2>1. service.step = "download" /\ service' = [service EXCEPT !.downloads = d, !.step = next]
    BY <1>13 DEF DownloadBreaks, InService, Serve
  <2>2. service.downloads \in 0..DownloadAttempts /\ service.downloads < DownloadAttempts
    BY <1>1, <2>1 DEF Serving
  <2>3. d \in 0..DownloadAttempts /\ next \in Step /\ (next # "curl" => d < DownloadAttempts)
    BY <2>2 DEF DownloadAttempts, Step
  <2> HIDE DEF d, next
  <2>4. /\ service' \in [step : Step, polls : 0..PollLimit, downloads : 0..DownloadAttempts]
        /\ service'.step = next /\ service'.downloads = d
    BY <1>1, <2>1, <2>3
  <2> QED BY <2>3, <2>4 DEF Serving
<1> QED
  BY <1>6, <1>7, <1>8, <1>9, <1>10, <1>11, <1>12, <1>13 DEF Next, Attempt, MinerUSteps

-----------------------------------------------------------------------------
\* The ids of a page are ids of the document.
LEMMA PageIds ==
  ASSUME NEW bs, NEW p
  PROVE  IdsOnPage(bs, p) \subseteq IdSet(bs)
  BY DEF IdsOnPage, IdSet, ToSet

\* The blocks that a parser found are accepted.
LEMMA AcceptedPasses ==
  ASSUME job \in Jobs, Passes, Accept, stage \in {"attempt", "mineru"}, Reading(Current) # <<>>
  PROVE  Passes'
<1>1. /\ parsed' = Reading(Current) /\ blocks' = parsed' /\ stage' = "clean"
      /\ pages' = [p \in PagesOf(parsed') |-> IdsOnPage(parsed', p)]
      /\ kind' = kind /\ parents' = parents /\ children' = children
  BY DEF Accept, package
<1>2. Orderly(parsed')
  BY <1>1, ReadingOrderly
<1>3. kind = "none" /\ parents = <<>> /\ children = <<>>
  BY DEF Passes, Parsed
<1>4. pages' = [p \in PagesOf(parsed') |-> IdsOnPage(parsed', p) \cap IdSet(parsed')]
  <2>1. \A p : IdsOnPage(parsed', p) = IdsOnPage(parsed', p) \cap IdSet(parsed')
    BY PageIds
  <2> QED BY <1>1, <2>1
<1>5. pages' = Listed(parsed)'
  BY <1>4 DEF Listed
<1> QED
  BY <1>1, <1>2, <1>3, <1>5 DEF Passes, Parsed

\* The passes over the document
LEMMA CleanPasses ==
  ASSUME Passes, CleanNoise
  PROVE  Passes'
<1>1. /\ stage = "clean" /\ stage' = "tree" /\ blocks' = Cleaned(blocks) /\ parsed' = parsed
      /\ pages' = [p \in DOMAIN pages |-> pages[p] \cap IdSet(blocks')]
      /\ kind' = kind /\ parents' = parents /\ children' = children
  BY DEF CleanNoise, package
<1>2. /\ blocks = parsed /\ pages = Listed(parsed) /\ kind = "none"
      /\ parents = <<>> /\ children = <<>> /\ (parsed # <<>> => Orderly(parsed))
  BY <1>1 DEF Passes
<1>3. pages = [p \in PagesOf(parsed) |-> IdsOnPage(parsed, p) \cap IdSet(parsed)]
  BY <1>2 DEF Listed
<1>4. pages' = [p \in PagesOf(parsed) |-> IdsOnPage(parsed, p) \cap IdSet(blocks')]
  <2>1. \A p : IdsOnPage(parsed, p) \cap IdSet(parsed) = IdsOnPage(parsed, p)
    BY PageIds
  <2> QED BY <1>1, <1>3, <2>1
<1>5. pages' = Listed(blocks)'
  BY <1>1, <1>4 DEF Listed
<1> QED
  BY <1>1, <1>2, <1>5 DEF Passes, Parsed

\* The blocks get their places, and the document its kind.
LEMMA SectionPasses ==
  ASSUME Passes, BuildSections
  PROVE  Passes'
<1>1. /\ stage = "tree" /\ stage' = "chunk" /\ blocks' = PlacedBlocks(blocks)
      /\ tree' = TreeOf(blocks') /\ parsed' = parsed /\ pages' = pages
      /\ reported' = DocumentWarnings(blocks', pages', tree')
      /\ kind' = DocumentType(blocks', job.template, Last(attempted))
      /\ parents' = parents /\ children' = children
  BY DEF BuildSections, package
<1>2. /\ blocks = Cleaned(parsed) /\ pages = Listed(blocks)
      /\ parents = <<>> /\ children = <<>> /\ (parsed # <<>> => Orderly(parsed))
  BY <1>1 DEF Passes
<1>3. kind' \in Template
  BY <1>1, TypeIsTemplate
<1>4. Listed(Cleaned(parsed))' = Listed(Cleaned(parsed))
  BY <1>1 DEF Listed
<1>5. blocks' = PlacedBlocks(Cleaned(parsed)) /\ pages' = Listed(Cleaned(parsed))
  BY <1>1, <1>2
<1> QED
  BY <1>1, <1>2, <1>3, <1>4, <1>5 DEF Passes, Parsed

\* The template makes the package.
LEMMA ChunkPasses ==
  ASSUME Passes, ChunkDocument
  PROVE  Passes'
<1>1. /\ stage = "chunk" /\ stage' = "done"
      /\ blocks' = blocks /\ tree' = tree /\ parsed' = parsed /\ pages' = pages
      /\ reported' = reported /\ kind' = kind
      /\ parents' = Package(kind, blocks).parents /\ children' = Package(kind, blocks).children
  BY DEF ChunkDocument, document
<1>2. Listed(Cleaned(parsed))' = Listed(Cleaned(parsed))
  BY <1>1 DEF Listed
<1> QED
  BY <1>1, <1>2 DEF Passes, Parsed

\* What the other steps leave
LEMMA PassesKept ==
  ASSUME Passes, UNCHANGED <<document, package>>,
         \/ stage' = stage
         \/ stage \in {"attempt", "mineru"} /\ stage' \in {"attempt", "mineru", "refused"}
  PROVE  Passes'
<1>1. /\ blocks' = blocks /\ tree' = tree /\ parsed' = parsed /\ pages' = pages
      /\ reported' = reported /\ kind' = kind /\ parents' = parents /\ children' = children
  BY DEF document, package
<1>2. /\ Listed(Cleaned(parsed))' = Listed(Cleaned(parsed)) /\ Listed(parsed)' = Listed(parsed)
      /\ Listed(blocks)' = Listed(blocks)
  BY <1>1 DEF Listed
<1>3. CASE stage' = stage
  BY <1>1, <1>2, <1>3 DEF Passes, Parsed
<1>4. CASE stage \in {"attempt", "mineru"} /\ stage' \in {"attempt", "mineru", "refused"}
  BY <1>1, <1>4 DEF Passes, Parsed
<1> QED
  BY <1>3, <1>4

\* Every step leaves what the passes so far make.
LEMMA PassesStep ==
  ASSUME job \in Jobs, Chain, Passes, [Next]_vars
  PROVE  Passes'
<1>1. CASE PassOver
  BY <1>1, PassesKept DEF PassOver, Trying
<1>2. CASE ParserReads
  BY <1>2, AcceptedPasses DEF ParserReads, Trying
<1>3. CASE Refuse \/ StartMinerU \/ TaskFails \/ ReadNothing \/ CallerGivesUp
  BY <1>3, PassesKept DEF Refuse, StartMinerU, TaskFails, ReadNothing, CallerGivesUp, Trying, InService
<1>4. CASE TaskCreated \/ Uploaded \/ Pending \/ Finished \/ DownloadBreaks \/ Downloaded
  BY <1>4, PassesKept
     DEF TaskCreated, Uploaded, Pending, Finished, DownloadBreaks, Downloaded, GoTo, Serve
<1>5. CASE ArchiveRead
  <2>1. Current = "mineru"
    BY <1>5 DEF ArchiveRead, InService, Chain, TaskIsNext
  <2> QED BY <1>5, <2>1, AcceptedPasses DEF ArchiveRead, InService
<1>6. CASE CleanNoise
  BY <1>6, CleanPasses
<1>7. CASE BuildSections
  BY <1>7, SectionPasses
<1>8. CASE ChunkDocument
  BY <1>8, ChunkPasses
<1>9. CASE Over \/ UNCHANGED vars
  BY <1>9, PassesKept DEF Over, vars
<1> QED
  BY <1>1, <1>2, <1>3, <1>4, <1>5, <1>6, <1>7, <1>8, <1>9 DEF Next, Attempt, MinerUSteps

\* The file stays, and the caller is in one of four states.
LEMMA CallsStep ==
  ASSUME job \in Jobs, Calls, [Next]_vars
  PROVE  Calls' /\ job' \in Jobs
<1>1. job' = job
  BY DEF Next, Attempt, MinerUSteps, PassOver, ParserReads, Accept, Refuse, StartMinerU, TaskCreated,
         Uploaded, Pending, Finished, DownloadBreaks, Downloaded, TaskFails, ReadNothing, ArchiveRead,
         GoTo, Serve, CleanNoise, BuildSections, ChunkDocument, CallerGivesUp, Over, vars
<1>2. caller' \in {caller, "raised", "gave up", "has it"}
  BY DEF Next, Attempt, MinerUSteps, PassOver, ParserReads, Accept, Refuse, StartMinerU, TaskCreated,
         Uploaded, Pending, Finished, DownloadBreaks, Downloaded, TaskFails, ReadNothing, ArchiveRead,
         GoTo, Serve, CleanNoise, BuildSections, ChunkDocument, CallerGivesUp, Over, vars
<1> QED
  BY <1>1, <1>2 DEF Calls

\* Every step keeps the invariant.
LEMMA InvStep ==
  ASSUME ChunkingInv, [Next]_vars
  PROVE  ChunkingInv'
  BY ChainStep, ServingStep, PassesStep, CallsStep DEF ChunkingInv

\* The invariant holds in every state.
THEOREM ChunkingInvAlways == Spec => []ChunkingInv
  BY InvInit, InvStep, PTL DEF Spec

-----------------------------------------------------------------------------
\* What is in the list of parsers is a parser.
LEMMA WarnedParsers == ASSUME Chain PROVE warned \subseteq Parser
<1>1. attempted \in Seq(Parser)
  BY DEF Chain, ChainTypes
<1>2. ToSet(attempted) \subseteq Parser
  BY <1>1, ToSetType
<1>3. attempted # <<>> => ToSet(Front(attempted)) \subseteq ToSet(attempted)
  <2>1. SUFFICES ASSUME attempted # <<>> PROVE ToSet(Front(attempted)) \subseteq ToSet(attempted)
    OBVIOUS
  <2>2. Len(attempted) - 1 \in Int /\ Len(attempted) - 1 >= 0 /\ Len(attempted) - 1 <= Len(attempted)
    BY <1>1, <2>1
  <2> DEFINE m == Len(attempted) - 1
  <2>3. m \in Int /\ m >= 0 /\ m <= Len(attempted)
    BY <2>2
  <2>4. Front(attempted) = SubSeq(attempted, 1, m)
    BY DEF Front
  <2> HIDE DEF m
  <2>5. Front(attempted) \in Seq(Parser) /\ Len(Front(attempted)) = m
        /\ \A k \in 1..m : Front(attempted)[k] = attempted[k]
    BY <1>1, <2>3, <2>4, FrontPart
  <2>6. DOMAIN Front(attempted) = 1..m /\ DOMAIN attempted = 1..Len(attempted)
        /\ \A k \in 1..m : k \in 1..Len(attempted)
    BY <1>1, <2>3, <2>5
  <2> QED BY <2>5, <2>6 DEF ToSet
<1>4. CASE stage \in {"attempt", "mineru", "refused"}
  BY <1>2, <1>4 DEF Chain, Underway
<1>5. CASE Parsed
  BY <1>2, <1>3, <1>5 DEF Chain, Accepted
<1> QED
  BY <1>4, <1>5 DEF Chain, ChainTypes, Stage, Parsed

\* The blocks of a document, whatever pass it has come to, are in order.
LEMMA BlocksOrderly ==
  ASSUME ChunkingInv
  PROVE  Orderly(parsed) /\ Orderly(blocks)
<1>1. Passes /\ stage \in Stage
  BY DEF ChunkingInv, Chain, ChainTypes
<1> DEFINE e == <<>>
<1>2. Orderly(e)
  <2>1. e \in Seq(Block) /\ Len(e) = 0
    OBVIOUS
  <2> HIDE DEF e
  <2> QED BY <2>1 DEF Orderly
<1>3. Orderly(parsed)
  BY <1>1, <1>2 DEF Passes
<1>4. blocks \in {e, parsed, Cleaned(parsed), PlacedBlocks(Cleaned(parsed))}
  BY <1>1 DEF Passes, Parsed, Stage
<1> HIDE DEF e
<1>5. Orderly(Cleaned(parsed)) /\ Orderly(PlacedBlocks(Cleaned(parsed)))
  BY <1>3, WhatIsBuilt
<1> QED
  BY <1>2, <1>3, <1>4, <1>5

\* Type correctness of the parsing and chunking of a document
THEOREM TypesAlways == Spec => []TypeOK
<1>1. ASSUME ChunkingInv PROVE TypeOK
  <2>1. /\ Chain /\ Serving /\ Passes /\ Calls /\ stage \in Stage
        /\ queue \in Seq(Parser) /\ attempted \in Seq(Parser)
    BY <1>1 DEF ChunkingInv, Chain, ChainTypes
  <2>2. kind \in Template \cup {"none"}
    BY <2>1 DEF Passes, Parsed, Stage
  <2>3. warned \subseteq Parser
    BY <2>1, WarnedParsers
  <2>4. /\ service.step \in Step /\ service.polls \in 0..PollLimit
        /\ service.downloads \in 0..DownloadAttempts
    BY <2>1 DEF Serving
  <2>5. \A b \in ToSet(parsed) \cup ToSet(blocks) : b.type \in BlockType /\ b.line \in Line
    <3>1. Orderly(parsed) /\ Orderly(blocks)
      BY <1>1, BlocksOrderly
    <3>2. \A b \in ToSet(parsed) \cup ToSet(blocks) : b \in Block
      BY <3>1, OrderlyIds DEF ToSet
    <3> QED BY <3>2 DEF Block
  <2> QED BY <2>1, <2>2, <2>3, <2>4, <2>5 DEF TypeOK, Calls
<1> QED
  BY <1>1, ChunkingInvAlways, PTL

\* What validate_parsed_document wants of the passes over the document
THEOREM DocumentAlwaysValid == Spec => []DocumentValid
<1>1. ASSUME ChunkingInv PROVE DocumentValid
  <2> DEFINE cs == Cleaned(parsed)
             bs == PlacedBlocks(cs)
  <2>1. SUFFICES ASSUME stage \in {"chunk", "done"}
                 PROVE  /\ reported \subseteq {"no blocks"}
                        /\ reported # {} => \A b \in ToSet(parsed) : Noise(b, parsed)
                        /\ \A b \in ToSet(blocks), q \in DOMAIN tree :
                               /\ IsPrefix(q, b.path) => b.page \in tree[q].first..tree[q].last
                               /\ b.id \in tree[q].blocks <=> b.path = q
    BY DEF DocumentValid
  <2>2. /\ blocks = bs /\ pages = Listed(cs) /\ tree = TreeOf(blocks)
        /\ reported = DocumentWarnings(blocks, pages, tree)
    BY <1>1, <2>1 DEF ChunkingInv, Passes
  <2>3. Orderly(parsed) /\ parsed # <<>>
    BY <1>1, <2>1, BlocksOrderly DEF ChunkingInv, Chain, Accepted, Parsed
  <2>4. /\ Orderly(bs) /\ Sectioned(bs) /\ TreeOf(bs) \in TreeUpto(bs, Len(bs))
        /\ bs = <<>> => \A b \in ToSet(parsed) : Noise(b, parsed)
    BY <2>3, WhatIsBuilt
  <2>5. DocumentWarnings(bs, Listed(cs), TreeOf(bs)) \subseteq {"no blocks"}
        /\ (DocumentWarnings(bs, Listed(cs), TreeOf(bs)) # {} => bs = <<>>)
    BY <2>3, OnlyEmptyWarned
  <2> HIDE DEF bs, cs
  <2>6. \A b \in ToSet(blocks), q \in DOMAIN tree :
            /\ IsPrefix(q, b.path) => b.page \in tree[q].first..tree[q].last
            /\ b.id \in tree[q].blocks <=> b.path = q
    BY <2>2, <2>4, InItsSection
  <2> QED BY <2>2, <2>4, <2>5, <2>6
<1> QED
  BY <1>1, ChunkingInvAlways, PTL
================================================================================
