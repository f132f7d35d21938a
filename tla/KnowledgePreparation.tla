------------------------ MODULE KnowledgePreparation ------------------------
(***************************************************************************)
(* From an approved Markdown file to the chunks of a prepared document:    *)
(* the source adapter (knowledge/sources/markdown.py), the chunker and the *)
(* preparation service (knowledge/ingestion), as functions of their input. *)
(*                                                                         *)
(* Text is a sequence of characters.  A letter is a positive number, its   *)
(* position in the document, so that what happens to each letter can be    *)
(* followed; the two kinds of white space are Blank and Break.             *)
(***************************************************************************)
EXTENDS Integers, Sequences, FiniteSets, SequencesExt

CONSTANT Wide    \* the letters that take two bytes

Blank == 0
Break == -1
Paragraph == <<Break, Break>>

Refused == [status |-> "refused"]

\* What the models of ingestion admit: limits of at least one, an overlap of any length.
ValidLimits(limits) ==
  /\ \A l \in DOMAIN limits \ {"overlap"} : limits[l] >= 1
  /\ limits.overlap \in Nat

-----------------------------------------------------------------------------
(* Text *)

IsSpace(c) == c <= 0
Letters(text) == {c \in {text[i] : i \in 1..Len(text)} : ~IsSpace(c)}

\* The letters of a text come in the order of their positions.
InOrder(text) ==
  \A i, j \in 1..Len(text) : i < j /\ ~IsSpace(text[i]) /\ ~IsSpace(text[j]) => text[i] < text[j]

Bytes(text) == Len(text) + Cardinality({i \in 1..Len(text) : text[i] \in Wide})

Fits(text, limits) == Len(text) <= limits.characters /\ Bytes(text) <= limits.bytes

Strip(text) ==
  LET inked == {i \in 1..Len(text) : ~IsSpace(text[i])}
  IN IF inked = {} THEN <<>> ELSE SubSeq(text, Min(inked), Max(inked))

\* The words between white space: a letter behind a letter continues a word.
NextWord(words, text, i) ==
  IF IsSpace(text[i]) THEN words
  ELSE IF i > 1 /\ ~IsSpace(text[i - 1])
  THEN [words EXCEPT ![Len(words)] = Append(@, text[i])]
  ELSE Append(words, <<text[i]>>)
Words(text) ==
  LET words[i \in 0..Len(text)] == IF i = 0 THEN <<>> ELSE NextWord(words[i - 1], text, i)
  IN words[Len(text)]

Join(a, separator, b) == IF a = <<>> THEN b ELSE a \o separator \o b

Concat(sequences) ==
  LET upTo[i \in 0..Len(sequences)] == IF i = 0 THEN <<>> ELSE upTo[i - 1] \o sequences[i]
  IN upTo[Len(sequences)]

\* Sections have keys of their own and blocks with letters in them, in the order of the
\* document.
ValidSections(sections) ==
  /\ sections \in Seq(Range(sections)) /\ sections # <<>>
  /\ \A i, j \in 1..Len(sections) : sections[i].key = sections[j].key => i = j
  /\ \A i \in 1..Len(sections) :
       LET blocks == sections[i].blocks IN
       /\ blocks \in Seq(Seq(Int)) /\ blocks # <<>>
       /\ \A b \in 1..Len(blocks) : Letters(blocks[b]) # {} /\ InOrder(blocks[b])
       /\ \A a, b \in 1..Len(blocks) : a < b =>
            \A p \in Letters(blocks[a]), q \in Letters(blocks[b]) : p < q

-----------------------------------------------------------------------------
(* Chunks.  Definitions named ...Without..., ...As... precede the definition they are a *)
(* faulty variant of; nothing uses them. *)

Divisible(block, limits) ==
  Fits(block, limits) \/ \A i \in 1..Len(Words(block)) : Fits(Words(block)[i], limits)

\* A block that is too large is packed again word by word.
Pack(acc, word, limits) ==
  LET candidate == Join(acc.current, <<Blank>>, word)
  IN IF Fits(candidate, limits)
     THEN [acc EXCEPT !.current = candidate]
     ELSE [pieces |-> Append(acc.pieces, acc.current), current |-> word]

SplitBlock(block, limits) ==
  LET words == Words(block)
      packed[i \in 0..Len(words)] ==
        IF i = 0 THEN [pieces |-> <<>>, current |-> <<>>] ELSE Pack(packed[i - 1], words[i], limits)
      last == packed[Len(words)]
  IN IF Fits(block, limits) THEN <<block>> ELSE Append(last.pieces, last.current)

\* The end of a chunk that the next one repeats, from the first blank on.
OverlapSuffix(content, limits) ==
  LET suffix == Strip(SubSeq(content, Max({1, Len(content) - limits.overlap + 1}), Len(content)))
      blanks == {i \in 1..Len(suffix) : suffix[i] = Blank}
  IN IF Len(content) > limits.overlap /\ blanks # {}
     THEN Strip(SubSeq(suffix, Min(blanks) + 1, Len(suffix)))
     ELSE suffix

\* Units are added to the current chunk while it fits; the next chunk starts with the
\* overlap, if there is room for it.
ExtendWithoutRoom(acc, unit, limits) ==
  LET candidate == Join(acc.current, Paragraph, unit)
  IN IF Fits(candidate, limits)
     THEN [acc EXCEPT !.current = candidate]
     ELSE [chunks |-> Append(acc.chunks, acc.current),
           current |-> Join(OverlapSuffix(acc.current, limits), Paragraph, unit)]
Extend(acc, unit, limits) ==
  LET candidate == Join(acc.current, Paragraph, unit)
      overlapped == Join(OverlapSuffix(acc.current, limits), Paragraph, unit)
  IN IF Fits(candidate, limits)
     THEN [acc EXCEPT !.current = candidate]
     ELSE [chunks |-> IF acc.current = <<>> THEN acc.chunks ELSE Append(acc.chunks, acc.current),
           current |-> IF Fits(overlapped, limits) THEN overlapped ELSE unit]

Units(section, limits) ==
  Concat([b \in 1..Len(section.blocks) |-> SplitBlock(section.blocks[b], limits)])

ChunkSection(section, limits) ==
  LET units == Units(section, limits)
      packed[u \in 0..Len(units)] ==
        IF u = 0 THEN [chunks |-> <<>>, current |-> <<>>] ELSE Extend(packed[u - 1], units[u], limits)
      last == packed[Len(units)]
      contents == Append(last.chunks, last.current)
  IN [i \in 1..Len(contents) |-> [key |-> section.key, content |-> contents[i]]]

ChunkSections(sections, limits) ==
  Concat([s \in 1..Len(sections) |-> ChunkSection(sections[s], limits)])

-----------------------------------------------------------------------------
(* Preparation of a draft against the manifest of the document that exists already. *)
(* A draft is [id, version, governance, sections]. *)

\* A version is three numbers.
ValidDraft(draft) == draft.version \in [1..3 -> Nat] /\ ValidSections(draft.sections)

Blocks(draft) ==
  UNION {{s.blocks[i] : i \in 1..Len(s.blocks)} : s \in {draft.sections[j] : j \in 1..Len(draft.sections)}}
BlockCount(draft) ==
  FoldLeft(LAMBDA n, s : n + Len(s.blocks), 0, draft.sections)
\* Titles and headings count too; the limit of a model is what they leave of it.
TotalBytes(draft) ==
  FoldLeft(LAMBDA n, s : FoldLeft(LAMBDA m, b : m + Bytes(b), n, s.blocks), 0, draft.sections)

\* The namespace, the owner that each type of source requires, the classification, and
\* the modules leave knowledge requires.
Governed(g) ==
  /\ g.namespace = "hr"
  /\ g.type = "product" <=> g.customer = "none"
  /\ g.classification # "highly_restricted"
  /\ "leave" \in g.modules => "hr_core" \in g.modules

WithinLimits(draft, limits) ==
  /\ Len(draft.sections) <= limits.sections
  /\ BlockCount(draft) <= limits.blocks
  /\ \A b \in Blocks(draft) : Bytes(b) <= limits.block_bytes
  /\ TotalBytes(draft) <= limits.document_bytes

\* SHA-256 over the content and over the governance with the version.
Fingerprint(draft) ==
  [content |-> draft.sections, governance |-> <<draft.id, draft.version, draft.governance>>]

\* Versions are compared number by number.
Below(v, w) ==
  \E i \in 1..3 : v[i] < w[i] /\ \A j \in 1..(i - 1) : v[j] = w[j]

NoManifest == [id |-> "none"]

DispositionWithoutOrder(draft, existing) ==
  IF existing = NoManifest THEN "new"
  ELSE IF existing.id # draft.id THEN "refused"
  ELSE IF existing.version = draft.version
  THEN IF existing.fingerprint = Fingerprint(draft) THEN "idempotent" ELSE "refused"
  ELSE "superseding"
Disposition(draft, existing) ==
  IF existing = NoManifest THEN "new"
  ELSE IF existing.id # draft.id THEN "refused"
  ELSE IF existing.version = draft.version
  THEN IF existing.fingerprint = Fingerprint(draft) THEN "idempotent" ELSE "refused"
  ELSE IF Below(draft.version, existing.version) THEN "refused" ELSE "superseding"

\* prepare_knowledge_document.  Identifiers of chunks and citations are digests of the
\* fingerprint and the ordinal.
Prepare(draft, existing, limits) ==
  LET disposition == Disposition(draft, existing)
      chunks == ChunkSections(draft.sections, limits)
  IN IF \/ ~Governed(draft.governance) \/ ~WithinLimits(draft, limits)
        \/ disposition = "refused"
        \/ \E b \in Blocks(draft) : ~Divisible(b, limits)
        \/ Len(chunks) > limits.chunks
     THEN Refused
     ELSE [status |-> disposition,
           manifest |-> [id |-> draft.id, version |-> draft.version,
                         fingerprint |-> Fingerprint(draft)],
           supersedes |-> IF disposition = "superseding" THEN existing.version ELSE <<>>,
           chunks |-> [i \in 1..Len(chunks) |-> [id |-> <<Fingerprint(draft), i - 1>>,
                                                 key |-> chunks[i].key,
                                                 content |-> chunks[i].content]]]

\* Preparations one after the other, each against the manifest the one before it left.
PrepareNext(acc, draft, limits) ==
  LET result == Prepare(draft, acc.manifest, limits)
  IN [result |-> result,
      manifest |-> IF result = Refused THEN acc.manifest ELSE result.manifest]
PrepareAll(drafts, limits) ==
  LET state[i \in 0..Len(drafts)] ==
        IF i = 0 THEN [result |-> Refused, manifest |-> NoManifest]
        ELSE PrepareNext(state[i - 1], drafts[i], limits)
  IN [i \in 1..Len(drafts) |-> state[i].result]

-----------------------------------------------------------------------------
(* The source adapter *)

\* What the adapter reads from the parser's tokens: headings, blocks of text, rules, and
\* anything that is refused (raw HTML, a heading without text, an unknown token).
Heading(level, text) == [kind |-> "heading", level |-> level, text |-> text]
Text(text) == [kind |-> "text", text |-> text]
Rule == [kind |-> "rule"]
Unsupported == [kind |-> "unsupported"]

ValidTokens(tokens) ==
  /\ tokens \in Seq(Range(tokens))
  /\ \A i \in 1..Len(tokens) :
       /\ tokens[i].kind \in {"heading", "text", "rule", "unsupported"}
       /\ tokens[i].kind = "heading" => tokens[i].level \in 1..6

Preamble == 0

\* The blocks so far become a section, if there are any.
Flush(acc) ==
  IF acc.blocks = <<>> THEN acc
  ELSE LET key == IF ~acc.headed /\ acc.sections = <<>> THEN Preamble ELSE Len(acc.sections) + 1
       IN [acc EXCEPT !.blocks = <<>>,
                      !.sections = Append(@, [key |-> key, path |-> acc.path, blocks |-> acc.blocks])]

\* heading_path[level - 1:] = [content]
UnderWithoutCut(path, level, text) == Append(path, text)
Under(path, level, text) ==
  Append(SubSeq(path, 1, Min({level - 1, Len(path)})), text)

Consume(acc, token) ==
  CASE token.kind = "heading" ->
         [Flush(acc) EXCEPT !.path = Under(@, token.level, token.text), !.headed = TRUE]
    [] token.kind = "rule" -> Flush(acc)
    [] token.kind = "text" -> [acc EXCEPT !.blocks = Append(@, token.text)]

Sections(tokens) ==
  LET state[i \in 0..Len(tokens)] ==
        IF i = 0 THEN [path |-> <<>>, headed |-> FALSE, blocks |-> <<>>, sections |-> <<>>]
        ELSE Consume(state[i - 1], tokens[i])
  IN IF \E i \in 1..Len(tokens) : tokens[i].kind = "unsupported" THEN <<>>
     ELSE Flush(state[Len(tokens)]).sections

\* One component of the path as lstat shows it, or the open file as fstat shows it.
Plain(component) == ~component.link
SameFile(inspected, opened) ==
  inspected.inode = "unknown" \/ opened.inode = "unknown" \/ inspected.inode = opened.inode

\* load: components are inspected, the file is opened and read; it may be replaced between
\* any two of these.  "content" is what the reads returned together.
Load(source, entry) ==
  IF /\ \A c \in source.directories : Plain(c)
     /\ Plain(source.inspected) /\ source.inspected.regular
     /\ source.inspected.size <= entry.maximum
     /\ Plain(source.opened) /\ source.opened.regular
     /\ SameFile(source.inspected, source.opened)
     /\ source.content.size <= entry.maximum
     /\ source.content.digest = entry.digest
     /\ source.content.decodes
  THEN Sections(source.content.tokens)
  ELSE <<>>
=============================================================================
