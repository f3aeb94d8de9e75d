----------------------------- MODULE Extraction -----------------------------
(* From a text, or the audio of a meeting, to the items that are stored of it:  *)
(* the text is cut into chunks, a model is asked about each, and the answers are *)
(* joined without the doubles of overlapping chunks.  A statement of the text is *)
(* the interval of its characters; the model returns what lies wholly in the     *)
(* chunk, with a date and a source it may write in one way about one chunk and in   *)
(* another about the next.                                                          *)
(*   src/backend/pipeline/extractor.py, stt/base.py, stt/pipeline.py,             *)
(*   stt/transcriber.py, _sync_bg of api/repository.py, api/documents.py          *)
EXTENDS Integers, Sequences, FiniteSets, SequencesExt

CONSTANTS Input,     \* what may be submitted
          ChunkSize, \* characters in a chunk, 15000
          Overlap,   \* characters two slices of one paragraph share, 200
          Notice,    \* length of the note put before a transcript without speakers
          Telling    \* how an answer may give the date and the source: <<date, source>>

VARIABLES input,       \* what is being processed
          text,        \* what extract is given: lengths of the paragraphs, statements
          chunks, idx, \* the chunks, those that were asked about
          found,       \* items of the chunks, in the order they came
          failed,      \* chunks without a structured answer
          progress,    \* <<done, total>> as last reported
          stage,
          stored       \* what was ingested: items, characters, warning
vars == <<input, text, chunks, idx, found, failed, progress, stage, stored>>

Kind == {"document", "transcript", "repo_readme", "repo_commits"}
Dates == {"2026-06-02", "2026.6.2", "2026-6-2", "null"}
Sources == {"default", "other"}
None == [items |-> <<>>, size |-> 0, warned |-> FALSE]
(* A source is its kind and what is read of it. *)
ASSUME ExtractionAssumption ==
    /\ ChunkSize \in Nat \ {0} /\ Overlap \in Nat /\ Notice \in Nat
    /\ Telling \subseteq Dates \X {"null", "other"}
    /\ \A source \in Input :
          /\ source.kind \in Kind
          /\ IF source.kind = "transcript"
             THEN source.segments \in Seq([length : Nat, speaker : BOOLEAN])
             ELSE source.units \in Seq(Nat)

(* What the first k units amount to, and all of them. *)
Lengths(units) ==
    LET sum[k \in 0..Len(units)] == IF k = 0 THEN 0 ELSE sum[k - 1] + units[k] IN sum
Sizes(units) == Lengths(units)[Len(units)]
(* The elements of s at the places of S, in their order. *)
Picked(s, S) ==
    LET picked[k \in 0..Len(s)] ==
            IF k = 0 THEN <<>>
            ELSE IF k \in S THEN Append(picked[k - 1], s[k]) ELSE picked[k - 1]
    IN  picked[Len(s)]
Lower(m, n) == IF m < n THEN m ELSE n
Shared == Lower(Overlap, ChunkSize - 1)

Init == /\ input \in Input
        /\ text = [units |-> <<>>, statements |-> {}]
        /\ chunks = <<>> /\ idx = 0 /\ found = <<>> /\ failed = 0
        /\ progress = <<0, 0>> /\ stage = "submitted" /\ stored = None

-----------------------------------------------------------------------------
(* Every stretch of a paragraph no longer than the overlap may be a statement;    *)
(* every other one is an action, and some of a README tell how to set it up.       *)
Statements(units, before) ==
    LET start == [u \in DOMAIN units |-> before + Lengths(units)[u - 1]]
        Within(u) == LET n == Lower(Shared, units[u])
                     IN  {[from |-> s, to |-> s + n] : s \in start[u]..(start[u] + units[u] - n)}
    IN  UNION {Within(u) : u \in {v \in DOMAIN units : units[v] > 0}}
IsAction(s) == s.from % 2 = 0
Setup(s) == s.from % 4 = 0

(* _validate, then the provider; assemble drops what is blank. *)
Refused == ~input.supported \/ input.segments = <<>> \/ input.tooLarge
Spoken == Picked(input.segments, {i \in DOMAIN input.segments : input.segments[i].length > 0})
HasSpeakers == \E i \in DOMAIN Spoken : Spoken[i].speaker
(* Transcript.text: one line for each segment, hence one paragraph. *)
Lines == Sizes([i \in DOMAIN Spoken |-> Spoken[i].length])
NoticeSize == IF HasSpeakers THEN 0 ELSE Notice
Transcribe ==
    /\ stage = "submitted" /\ input.kind = "transcript"
    /\ \/ /\ ~Refused /\ Spoken # <<>>
          /\ text' = [units |-> <<NoticeSize + Lines>>,
                      statements |-> Statements([i \in DOMAIN Spoken |-> Spoken[i].length],
                                                NoticeSize)]
          /\ stage' = "read"
       \/ stage' = "failed" /\ UNCHANGED text  \* refused, no speech, or the provider failed
    /\ UNCHANGED <<input, chunks, idx, found, failed, progress, stored>>
ReadText ==
    /\ stage = "submitted" /\ input.kind # "transcript"
    /\ text' = [units |-> input.units, statements |-> Statements(input.units, 0)]
    /\ stage' = "read"
    /\ UNCHANGED <<input, chunks, idx, found, failed, progress, stored>>

-----------------------------------------------------------------------------
Chunk(from, n) == [from |-> from, to |-> from + n]

\* Mutant: slices that share nothing.
SliceChunksApart(from, n) ==
    [k \in 1..((n + ChunkSize - 1) \div ChunkSize) |->
        Chunk(from + (k - 1) * ChunkSize, Lower(ChunkSize, n - (k - 1) * ChunkSize))]

(* The slices of an oversized paragraph; the last one ends with it. *)
SliceChunks(from, n) ==
    IF n <= ChunkSize THEN <<Chunk(from, n)>>
    ELSE LET step == ChunkSize - Shared
             count == 1 + (n - ChunkSize + step - 1) \div step
         IN  [k \in 1..count |-> Chunk(from + (k - 1) * step,
                                       Lower(ChunkSize, n - (k - 1) * step))]

(* Paragraphs are joined as long as they fit.  `open`: some were joined, if only   *)
(* the empty one a text may end with, and are no chunk yet.                          *)
Flushed(s) == IF s.open THEN Append(s.chunks, Chunk(s.at - s.len, s.len)) ELSE s.chunks
AddUnit(s, n) ==
    IF n > ChunkSize
    THEN [at |-> s.at + n, len |-> 0, open |-> FALSE,
          chunks |-> Flushed(s) \o SliceChunks(s.at, n)]
    ELSE IF s.open /\ s.len + n > ChunkSize
         THEN [at |-> s.at + n, len |-> n, open |-> TRUE, chunks |-> Flushed(s)]
         ELSE [at |-> s.at + n, len |-> s.len + n, open |-> TRUE, chunks |-> s.chunks]
Joined(units) ==
    LET joined[k \in 0..Len(units)] ==
            IF k = 0 THEN [at |-> 0, len |-> 0, open |-> FALSE, chunks |-> <<>>]
            ELSE AddUnit(joined[k - 1], units[k])
    IN  joined
SplitChunks(units) ==
    IF Sizes(units) <= ChunkSize THEN <<Chunk(0, Sizes(units))>>
    ELSE Flushed(Joined(units)[Len(units)])

BeginExtract ==
    /\ stage = "read"
    /\ chunks' = SplitChunks(text.units)
    /\ progress' = <<0, Len(chunks')>>
    /\ stage' = "extracting"
    /\ UNCHANGED <<input, text, idx, found, failed, stored>>

(* _extract_chunk: an item without a source gets the name of the text; then the    *)
(* rules for a kind of source the model may have broken are enforced.               *)
SourceOr(source) == IF source = "null" THEN "default" ELSE source
Replies(chunk, telling) ==
    LET inside == {s \in text.statements : chunk.from <= s.from /\ s.to <= chunk.to}
    IN  [i \in 1..Cardinality(inside) |->
            [statement |-> SetToSeq(inside)[i], completed |-> FALSE,
             date |-> telling[1], source |-> SourceOr(telling[2])]]
Blocked(s) == IsAction(s) /\ Setup(s)
PostProcess(items) ==
    CASE input.kind = "repo_commits" ->
            [i \in DOMAIN items |-> [items[i] EXCEPT !.completed = IsAction(items[i].statement)]]
      [] input.kind = "repo_readme" ->
            Picked(items, {i \in DOMAIN items : ~Blocked(items[i].statement)})
      [] OTHER -> items
Asked == idx' = idx + 1 /\ progress' = <<idx + 1, Len(chunks)>>

ExtractChunk(telling) ==
    /\ stage = "extracting" /\ idx < Len(chunks)
    /\ found' = found \o PostProcess(Replies(chunks[idx + 1], telling))
    /\ Asked /\ UNCHANGED <<input, text, chunks, failed, stage, stored>>
(* No tool call, or not of the schema: the chunk is counted, the next one is tried. *)
ChunkFails ==
    /\ stage = "extracting" /\ idx < Len(chunks)
    /\ failed' = failed + 1
    /\ Asked /\ UNCHANGED <<input, text, chunks, found, stage, stored>>

(* _norm_date_key knows 2026.6.2 (and 2026/6/2, and the Korean form); what else is     *)
(* written, and a date that is not given, stand for themselves.                          *)
NormDate(date) == IF date = "2026.6.2" THEN "2026-06-02" ELSE date
(* _dedup: category and content, the normalised date, and the source. *)
Key(item) == <<item.statement, NormDate(item.date), item.source>>
Dedup(items) ==
    Picked(items, {i \in DOMAIN items : \A j \in 1..(i - 1) : Key(items[j]) # Key(items[i])})

Repository == input.kind \in {"repo_readme", "repo_commits"}
Stored(items, warned) ==
    stored' = [items |-> items, warned |-> warned,
               size |-> IF input.kind = "transcript" THEN Lines ELSE Sizes(input.units)]
(* ingest follows; the summary is updated later and may fail alone. *)
Ingest ==
    /\ stage = "extracting" /\ idx = Len(chunks) /\ failed = 0
    /\ Stored(IF Len(chunks) = 1 THEN found ELSE Dedup(found), FALSE)
    /\ stage' = "ingested"
    /\ UNCHANGED <<input, text, chunks, idx, found, failed, progress>>

\* Mutant: what was found in the other chunks is ingested, as if it were all.
ExtractFailsInPart ==
    /\ stage = "extracting" /\ idx = Len(chunks) /\ failed > 0
    /\ Stored(Dedup(found), Repository) /\ stage' = "ingested"
    /\ UNCHANGED <<input, text, chunks, idx, found, failed, progress>>

(* Some or all chunks failed, or the model could not be reached: a repository      *)
(* keeps the text with a warning, a document and a transcript fail.                 *)
ExtractFails ==
    /\ stage = "extracting"
    /\ idx = Len(chunks) => failed > 0
    /\ IF Repository
       THEN Stored(<<>>, TRUE) /\ stage' = "ingested"
       ELSE stage' = "failed" /\ UNCHANGED stored
    /\ UNCHANGED <<input, text, chunks, idx, found, failed, progress>>
IngestFails ==
    /\ stage = "extracting" /\ idx = Len(chunks) /\ failed = 0
    /\ stage' = "failed"
    /\ UNCHANGED <<input, text, chunks, idx, found, failed, progress, stored>>

Next == \/ Transcribe \/ ReadText \/ BeginExtract \/ ChunkFails
        \/ \E telling \in Telling : ExtractChunk(telling)
        \/ Ingest \/ ExtractFails \/ IngestFails
Spec == Init /\ [][Next]_vars

-----------------------------------------------------------------------------
Copies(s) == {i \in DOMAIN stored.items : stored.items[i].statement = s}

(* Two items that say the same: their dates are one day in spellings that are known. *)
Known == {"2026-06-02", "2026.6.2"}
Alike(a, b) == /\ a.statement = b.statement /\ a.source = b.source
               /\ a.date = b.date \/ {a.date, b.date} \subseteq Known

(* What is stored without a warning holds every statement that is no longer than    *)
(* the overlap, wherever the chunks were cut, except what a README tells of its       *)
(* setup, and nothing else; a statement is there more than once only with another       *)
(* source, or a date in a spelling that is not known.  No action of a commit is open,    *)
(* and the note to the model is not part of the stored text.                              *)
Whole ==
    /\ failed = 0 /\ progress = <<Len(chunks), Len(chunks)>>
    /\ \A s \in text.statements :
          Copies(s) = {} <=> input.kind = "repo_readme" /\ Blocked(s)
    /\ \A i, j \in DOMAIN stored.items :
          /\ stored.items[i].statement \in text.statements
          /\ Alike(stored.items[i], stored.items[j]) => i = j
    /\ input.kind = "repo_commits" =>
          \A i \in DOMAIN stored.items :
              IsAction(stored.items[i].statement) => stored.items[i].completed
    /\ input.kind = "transcript" => Sizes(text.units) = stored.size + NoticeSize

(* A chunk that failed never passes as a chunk without statements: what is stored    *)
(* is whole, or it is a source of a repository, stored without items and with a       *)
(* warning, or nothing is stored at all (extractor.py:10, stt/pipeline.py:40).         *)
StoredIsWhole ==
    /\ stage = "ingested" =>
          IF stored.warned THEN Repository /\ stored.items = <<>> ELSE Whole
    /\ stage = "failed" => stored = None
=============================================================================
