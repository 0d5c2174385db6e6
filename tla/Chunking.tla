-------------------------------- MODULE Chunking --------------------------------
(***************************************************************************)
(* parse_to_chunk_package up to the postprocessing: the parsers of the      *)
(* priority list are tried until one yields blocks, then the passes over    *)
(* the document run one after the other.  The caller waits for the thread   *)
(* no longer than CallerLimit; MinerU is a service that is asked over HTTP. *)
(* Time passes while MinerU is polled.                                      *)
(***************************************************************************)
EXTENDS Chunkers, Parsers

CONSTANTS
    Jobs,         \* what is parsed: [items, suffix, parser, template, world]
    PollLimit,    \* MINERU_POLL_TIMEOUT_SECONDS, in polls
    CallerLimit   \* ingest_parse_timeout_seconds, in polls

Parser == {"docling", "mineru", "pypdf", "table_file", "text_file"}

\* The words of a heading are known, whether a parser or its first line says that it is one.
HasTitle(item) ==
    \/ TypeOf(item.label) = "heading" /\ item.line \in TitleLine
    \/ item.line \in {"chapter", "article", "numbered", "keyword", "toc"}
OneLine(item) == item.line \in WholeText => item.more = "none"
ASSUME JobsAreFiles ==
    Jobs \subseteq [items : Seq({i \in Item : OneLine(i) /\ (HasTitle(i) => i.title # <<>>)}),
                   suffix : STRING, parser : STRING, template : STRING,
                   world : [Parser -> STRING]]
ASSUME LimitsAreNumbers == PollLimit \in Nat \ {0} /\ CallerLimit \in Nat

VARIABLES
    job,          \* the call: the file, its suffix, the hints, what each parser does with it
    queue,        \* parsers still to try
    attempted,    \* parser_fallback_chain
    warned,       \* parsers a warning names
    service,      \* the MinerU task: its step, polls made, downloads that failed
    stage,        \* where parse_to_chunk_package is
    caller,       \* what IngestService._parse does
    parsed,       \* history: the blocks of the parser
    blocks,       \* document.blocks
    pages,        \* document.pages: the block ids of each page
    tree,         \* document.section_tree
    kind,         \* document_type
    reported,     \* what validate_parsed_document warns of
    parents, children

parsing == <<queue, attempted, warned, service>>
document == <<parsed, blocks, pages, tree, kind, reported>>
package == <<parents, children>>
vars == <<job, stage, caller, parsing, document, package>>

Stage == {"attempt", "mineru", "clean", "tree", "chunk", "done", "refused"}
Step == {"create", "upload", "poll", "download", "curl", "read"}
DownloadAttempts == 3

DefaultPriority == <<"docling", "mineru", "pypdf">>
\* configured_parser_priority
Configured(parser) ==
    CASE parser \in {"docling", "mineru"} -> <<parser, "pypdf">>
      [] parser \in {"pypdf", "table_file", "text_file"} -> <<parser>>
      [] OTHER -> DefaultPriority
\* _priority_for_path
Priority(parser, suffix) ==
    IF parser # "auto" THEN Configured(parser)
    ELSE CASE suffix = "csv" -> <<"table_file">>
           [] suffix = "md" -> <<"text_file">>
           [] OTHER -> Configured(parser)

\* The blocks a parser makes of the file
Reading(parser) ==
    CASE parser = "docling" ->
             IF job.world.docling = "chunks" THEN StructuredBlocks(job.items)
             ELSE DoclingBlocks(job.items)
      [] parser = "mineru" ->
             IF job.world.mineru = "markdown" THEN MarkdownBlocks(job.items)
             ELSE MinerUBlocks(job.items)
      [] parser = "pypdf" -> PyPdfBlocks(job.items)
      [] parser = "text_file" -> TextBlocks(job.items)
      [] OTHER -> RowBlocks(job.items)

Idle == [step |-> "create", polls |-> 0, downloads |-> 0]

Init ==
    /\ job \in Jobs
    /\ queue = Priority(job.parser, job.suffix)
    /\ attempted = <<>> /\ warned = {}
    /\ service = Idle
    /\ stage = "attempt"
    /\ caller = "waits"
    /\ parsed = <<>> /\ blocks = <<>> /\ pages = <<>> /\ tree = <<>> /\ kind = "none" /\ reported = {}
    /\ parents = <<>> /\ children = <<>>

(***************************************************************************)
(* _parse_with_fallback                                                     *)
(***************************************************************************)
Current == Head(queue)
Trying == stage = "attempt" /\ queue # <<>>

\* Mutation: a parser that is passed over is not recorded.
NextParserSilently == queue' = Tail(queue) /\ UNCHANGED <<attempted, warned>>
\* Mutation: the parser that failed is tried again.
NextParserAgain == warned' = warned \cup {Current} /\ UNCHANGED <<queue, attempted>>
NextParser ==
    /\ queue' = Tail(queue)
    /\ attempted' = Append(attempted, Current)
    /\ warned' = warned \cup {Current}

\* It is not available, raises, or finds no blocks: a warning, and the next one.
PassOver ==
    /\ Trying
    /\ \/ job.world[Current] \in {"absent", "fails"}
       \/ Current # "mineru" /\ Reading(Current) = <<>>
    /\ NextParser
    /\ UNCHANGED <<job, stage, caller, service, document, package>>

IdsOnPage(bs, p) == {b.id : b \in {c \in ToSet(bs) : c.page = p}}
Accept ==
    /\ parsed' = Reading(Current) /\ blocks' = parsed'
    /\ pages' = [p \in PagesOf(parsed') |-> IdsOnPage(parsed', p)]
    /\ attempted' = Append(attempted, Current)
    /\ queue' = <<>>
    /\ service' = Idle
    /\ stage' = "clean"
    /\ UNCHANGED <<job, caller, warned, tree, kind, reported, package>>

ParserReads ==
    /\ Trying
    /\ Current # "mineru"
    /\ job.world[Current] \notin {"absent", "fails"}
    /\ Reading(Current) # <<>>
    /\ Accept

\* RuntimeError: No parser could parse
Refuse ==
    /\ stage = "attempt" /\ queue = <<>>
    /\ stage' = "refused"
    /\ caller' = IF caller = "waits" THEN "raised" ELSE caller
    /\ UNCHANGED <<job, parsing, document, package>>

(***************************************************************************)
(* The MinerU task                                                          *)
(***************************************************************************)
StartMinerU ==
    /\ Trying /\ Current = "mineru"
    /\ job.world.mineru \notin {"absent", "fails"}
    /\ stage' = "mineru"
    /\ UNCHANGED <<job, caller, parsing, document, package>>

InService(step) == stage = "mineru" /\ service.step = step
Serve(new) ==
    /\ service' = new
    /\ UNCHANGED <<job, stage, caller, queue, attempted, warned, document, package>>
GoTo(step) == Serve([service EXCEPT !.step = step])

TaskCreated == InService("create") /\ GoTo("upload")
Uploaded == InService("upload") /\ GoTo("poll")

\* Mutation: nobody looks at the deadline.
PendingUnbounded == InService("poll") /\ Serve([service EXCEPT !.polls = @ + 1])
\* The task is in a state of _POLLING_STATES, or not listed yet.
Pending ==
    /\ InService("poll") /\ service.polls < PollLimit
    /\ Serve([service EXCEPT !.polls = @ + 1])
Finished == InService("poll") /\ service.polls < PollLimit /\ GoTo("download")

DownloadBreaks ==
    /\ InService("download")
    /\ Serve([service EXCEPT !.downloads = @ + 1,
                             !.step = IF service.downloads + 1 = DownloadAttempts
                                      THEN "curl" ELSE "download"])
Downloaded == (InService("download") \/ InService("curl")) /\ GoTo("read")

\* A refused request, a failed or unknown task or one without archive, the deadline, a download
\* that curl cannot make, a broken archive.
TaskFails ==
    /\ \E step \in {"create", "upload", "poll", "curl", "read"} : InService(step)
    /\ NextParser
    /\ service' = Idle
    /\ stage' = "attempt"
    /\ UNCHANGED <<job, caller, document, package>>

\* The content list of MinerU cannot be read, or neither it nor the markdown has text.
Unreadable == job.world.mineru = "reads" /\ Captionless(job.items)
ReadNothing ==
    /\ InService("read") /\ (Unreadable \/ Reading("mineru") = <<>>)
    /\ NextParser
    /\ service' = Idle
    /\ stage' = "attempt"
    /\ UNCHANGED <<job, caller, document, package>>

ArchiveRead == InService("read") /\ ~Unreadable /\ Reading("mineru") # <<>> /\ Accept

\* asyncio.wait_for: the caller stops waiting, the thread goes on.
CallerGivesUp ==
    /\ caller = "waits"
    /\ stage = "mineru" /\ service.polls >= CallerLimit
    /\ caller' = "gave up"
    /\ UNCHANGED <<job, stage, parsing, document, package>>

(***************************************************************************)
(* The passes over the document                                             *)
(***************************************************************************)
CleanNoise ==
    /\ stage = "clean"
    /\ blocks' = Cleaned(blocks)
    /\ pages' = [p \in DOMAIN pages |-> pages[p] \cap IdSet(blocks')]
    /\ stage' = "tree"
    /\ UNCHANGED <<job, caller, parsing, parsed, tree, kind, reported, package>>

BuildSections ==
    /\ stage = "tree"
    /\ \E placed \in {PlacedBlocks(blocks)} :
         /\ blocks' = placed
         /\ tree' = TreeOf(placed)
    /\ reported' = DocumentWarnings(blocks', pages, tree')
    /\ kind' = DocumentType(blocks', job.template, Last(attempted))
    /\ stage' = "chunk"
    /\ UNCHANGED <<job, caller, parsing, parsed, pages, package>>

\* A package nobody waits for is thrown away.
ChunkDocument ==
    /\ stage = "chunk"
    /\ \E made \in {Package(kind, blocks)} :
         /\ parents' = made.parents
         /\ children' = made.children
    /\ stage' = "done"
    /\ caller' = IF caller = "waits" THEN "has it" ELSE caller
    /\ UNCHANGED <<job, parsing, document>>

Over == stage \in {"done", "refused"} /\ UNCHANGED vars

MinerUSteps ==
    \/ StartMinerU \/ TaskCreated \/ Uploaded \/ Pending \/ Finished
    \/ DownloadBreaks \/ Downloaded \/ TaskFails \/ ReadNothing \/ ArchiveRead
Attempt == PassOver \/ ParserReads \/ Refuse \/ MinerUSteps
Next == Attempt \/ CleanNoise \/ BuildSections \/ ChunkDocument \/ CallerGivesUp \/ Over

\* The thread runs on: it tries parsers, and each pass over the document ends.
NextStage == [clean |-> "tree", tree |-> "chunk", chunk |-> "done"]
PassEnds == stage \in DOMAIN NextStage /\ stage' = NextStage[stage]
Spec == Init /\ [][Next]_vars /\ WF_vars(Attempt) /\ WF_stage(PassEnds)
===============================================================================
