----------------------------- MODULE MemoryFiles -----------------------------
(***************************************************************************)
(* The files that memory is kept in: utils/memory (the index MEMORY.md,    *)
(* which is cut to fit the prompt, and the topic files next to it, which   *)
(* are listed and recalled), commands/memory.py, and services/             *)
(* session_memory (when notes of a session are taken and how long they may *)
(* be).  Of a line only its length is kept, in characters and in bytes.    *)
(***************************************************************************)
EXTENDS Naturals, Integers, Sequences, FiniteSets, SequencesExt

Sum(numbers) == FoldSeq(LAMBDA x, y: x + y, 0, numbers)
Least(a, b) == IF a <= b THEN a ELSE b

-----------------------------------------------------------------------------
(* The index.                                                              *)

Line(chars, wide) == [chars |-> chars, bytes |-> IF wide THEN 2 * chars ELSE chars]
Chars(lines) == Sum([i \in DOMAIN lines |-> lines[i].chars]) + Len(lines) - 1
Bytes(lines) == Sum([i \in DOMAIN lines |-> lines[i].bytes]) + Len(lines) - 1

\* How many whole lines there are before the last line break among so many
\* characters; none when that break is missing or is the first character.
WholeLines(lines, max) ==
    LET breaks == {k \in 1 .. Len(lines) - 1 : Chars(SubSeq(lines, 1, k)) \in 1 .. max - 1}
    IN  IF breaks = {} THEN 0 ELSE CHOOSE k \in breaks : \A j \in breaks : j <= k
CutLine(line, max) ==
    [chars |-> Least(line.chars, max),
     bytes |-> IF line.bytes > line.chars THEN 2 * Least(line.chars, max) ELSE Least(line.chars, max)]
\* The first characters of a text that has no line break to cut it at.
CutHead(lines, max) == <<CutLine(lines[1], max)>>

\* truncate_entrypoint_content
TruncateEntrypoint(lines, maxLines, max) ==
    LET long == Len(lines) > maxLines
        heavy == Bytes(lines) > max
        kept == IF long THEN SubSeq(lines, 1, maxLines) ELSE lines
        whole == WholeLines(kept, max)
    IN  [lines |-> CASE ~long /\ ~heavy -> lines
                     [] (long \/ heavy) /\ Bytes(kept) <= max -> kept
                     [] (long \/ heavy) /\ Bytes(kept) > max ->
                          IF whole > 0 THEN SubSeq(kept, 1, whole) ELSE CutHead(kept, max),
         warned |-> long \/ heavy]

-----------------------------------------------------------------------------
(* The topic files: their name, when they were written, and whether they   *)
(* can be read.                                                            *)

\* scan_memory_files: newest first, MAX_MEMORY_FILES of them
Scan(files, max) ==
    LET found == SortSeq(SelectSeq(files, LAMBDA f: f.readable /\ f.name # "MEMORY.md"),
                         LAMBDA f, g: f.mtime > g.mtime)
    IN  SubSeq(found, 1, Least(max, Len(found)))
NamesOf(scanned) == {f.name : f \in Range(scanned)}

\* find_relevant_memories, of the names that the model answers, if it does
Recall(files, max, surfaced, answer) ==
    LET known == SelectSeq(Scan(files, max), LAMBDA f: f.name \notin surfaced)
    IN  IF known = <<>> \/ answer.failed THEN <<>>
        ELSE SelectSeq(answer.names, LAMBDA n: n \in NamesOf(known))

\* Mutant: the files are numbered as the directory gives them.
AsFound(files, max) == <<"session", "auto">> \o [i \in DOMAIN files |-> files[i].name]
\* _build_memory_options: the numbers of /memory list
Options(files, max) ==
    <<"session", "auto">> \o [i \in DOMAIN Scan(files, max) |-> Scan(files, max)[i].name]
\* _resolve_target_path of a number or a name
Unknown == "error: not found"
ResolveIndex(files, max, n) ==
    IF n \in DOMAIN Options(files, max) THEN Options(files, max)[n] ELSE Unknown
ResolveName(files, name, create) ==
    IF create \/ name \in {"session", "auto"} \/ (\E f \in Range(files) : f.name = name) THEN name ELSE Unknown
\* A file that is opened is edited: it is created if need be and is the newest.
Touch(files, name) ==
    LET newest == 1 + Sum([i \in DOMAIN files |-> files[i].mtime])
        touched == [name |-> name, mtime |-> newest, readable |-> TRUE]
    IN  IF name \in {"session", "auto", Unknown} THEN files
        ELSE Append(SelectSeq(files, LAMBDA f: f.name # name), touched)

-----------------------------------------------------------------------------
(* The notes of a session.                                                 *)

\* A section: the length of its header, 0 for the lines before the first one, and
\* those of its lines.
FlushSection(section, max) ==
    LET upTo(k) == Sum([i \in 1 .. k |-> section.lines[i] + 1])
        keeps == {k \in 0 .. Len(section.lines) : upTo(k) <= max}
        kept == CHOOSE k \in keeps : \A j \in keeps : j <= k
    IN  IF section.header = 0 \/ upTo(Len(section.lines)) <= max + 1
        THEN [section |-> section, cut |-> FALSE]
        ELSE [section |-> [section EXCEPT !.lines = SubSeq(@, 1, kept)], cut |-> TRUE]
\* truncate_session_memory_for_compact
TruncateNotes(sections, max) ==
    [sections |-> [i \in DOMAIN sections |-> FlushSection(sections[i], max).section],
     cut |-> \E i \in DOMAIN sections : FlushSection(sections[i], max).cut]

\* should_extract_memory at the end of a turn: the tokens of the conversation,
\* its replies with calls, and whether the last reply has one.
ShouldExtract(config, started, lastTokens, turn) ==
    /\ started \/ turn.tokens >= config.toStart
    /\ turn.tokens - lastTokens >= config.between
    /\ turn.calls >= config.calls \/ ~turn.callsLast
\* What extract_session_memory leaves behind after these turns when it is given a
\* counter of tokens: whether notes were started, the count of tokens at the last extraction and the turns that had one.
NotesStart == [started |-> FALSE, tokens |-> 0, at |-> <<>>]
AfterTurn(config, notes, turn) ==
    LET extracts == ShouldExtract(config, notes.started, notes.tokens, turn)
    IN  [started |-> notes.started \/ turn.tokens >= config.toStart,
         tokens |-> IF extracts /\ ~turn.fails THEN turn.tokens ELSE notes.tokens,
         at |-> IF extracts /\ ~turn.fails THEN Append(notes.at, turn.tokens) ELSE notes.at]
Notes(config, turns) == FoldLeft(LAMBDA notes, turn: AfterTurn(config, notes, turn), NotesStart, turns)

-----------------------------------------------------------------------------
(* What should hold.                                                       *)

\* What is loaded of the index is its beginning, in whole lines if one of them
\* fits, as much as the caps allow, and the model is told if anything is missing.
IndexIsCutWhole(lines, maxLines, max) ==
    LET loaded == TruncateEntrypoint(lines, maxLines, max)
        narrow == \A i \in DOMAIN lines : lines[i].bytes = lines[i].chars
        whole == IsPrefix(loaded.lines, lines)
    IN  /\ loaded.lines # lines => loaded.warned
        /\ narrow /\ loaded.warned => loaded.lines # lines
        /\ whole \/ Len(loaded.lines) = 1
        /\ Len(loaded.lines) <= maxLines /\ (narrow => Bytes(loaded.lines) <= max)
        /\ loaded.warned /\ whole /\ narrow =>
               \/ Len(loaded.lines) = maxLines
               \/ Chars(SubSeq(lines, 1, Len(loaded.lines) + 1)) >= max

\* The file opened by its number is the one that was listed under it, as long as
\* no other was opened after the listing, and one opened is the first of the next.
NumbersOpenWhatTheyName(files, max, n) ==
    LET opened == ResolveIndex(files, max, n) IN
    /\ n > 2 /\ opened # Unknown => \E f \in Range(files) : f.name = opened /\ f.readable
    /\ opened # Unknown => ResolveName(files, opened, FALSE) = opened
    /\ n > 2 /\ opened # Unknown => Options(Touch(files, opened), max)[3] = opened
    /\ \A m \in DOMAIN Options(files, max) :
           m > n /\ n \in 3 .. m => ResolveIndex(Touch(files, opened), max, m) = ResolveIndex(files, max, m)

\* Only files that are there and were not shown before are recalled, whatever the
\* model answers; a new one is recalled if it is asked for.
RecallsWhatIsNew(files, max, surfaced, answer) ==
    LET recalled == Range(Recall(files, max, surfaced, answer)) IN
    /\ recalled \subseteq {f.name : f \in {g \in Range(files) : g.readable}} \ surfaced
    /\ ~answer.failed /\ Len(files) <= max =>
           \A f \in Range(files) :
               /\ f.readable /\ f.name # "MEMORY.md"
               /\ f.name \in Range(answer.names) /\ f.name \notin surfaced
               => f.name \in recalled

\* Notes that are cut keep every header and lose only ends of sections, no section
\* is longer than it may be, and it is said when something was lost.
NotesKeepTheirSections(sections, max) ==
    LET cut == TruncateNotes(sections, max) IN
    /\ cut.cut <=> cut.sections # sections
    /\ \A i \in DOMAIN sections :
           /\ cut.sections[i].header = sections[i].header
           /\ IsPrefix(cut.sections[i].lines, sections[i].lines)
           /\ cut.sections[i].header > 0 =>
                  Sum(cut.sections[i].lines) + Len(cut.sections[i].lines) <= max + 1

\* Extractions are as far apart as the settings say and none is before the notes
\* are started; a turn far past the last one without calls has one.
NotesAreSpaced(config, turns) ==
    LET at == Notes(config, turns).at IN
    /\ \A i \in DOMAIN at :
           /\ at[i] >= config.toStart
           /\ i > 1 => at[i] - at[i - 1] >= config.between
    /\ \A i \in DOMAIN turns :
           LET before == Notes(config, SubSeq(turns, 1, i - 1)).tokens IN
           /\ ~turns[i].callsLast /\ ~turns[i].fails
           /\ turns[i].tokens >= config.toStart /\ turns[i].tokens - before >= config.between
           => turns[i].tokens \in Range(at)
=============================================================================
