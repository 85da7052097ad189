------------------------------ MODULE FileTools ------------------------------
(***************************************************************************)
(* The tools that read, change and search files: tools/file_read_tool,     *)
(* file_edit_tool, file_write_tool, notebook_edit_tool, grep_tool and      *)
(* glob_tool, and utils/diff.py, which shows a change before and after it  *)
(* is made.  A text is a sequence of characters, one of which ends a line. *)
(***************************************************************************)
EXTENDS Naturals, Integers, Sequences, FiniteSets, SequencesExt

NewLine == "newline"
Return == "return"          \* a carriage return
Missing == <<"missing">>    \* there is no file
NotText == <<"not text">>   \* a file that is no UTF-8
NoLimit == 0
Least(a, b) == IF a <= b THEN a ELSE b

-----------------------------------------------------------------------------
(* Reading.                                                                *)

\* What Path.read_text makes of a file: each end of a line becomes a NewLine.
Decoded(file) ==
    LET ends(i) == file[i] = Return /\ i < Len(file) /\ file[i + 1] = NewLine
        kept == SelectSeq([i \in DOMAIN file |-> i], LAMBDA i: ~ends(i))
    IN  [k \in DOMAIN kept |-> IF file[kept[k]] = Return THEN NewLine ELSE file[kept[k]]]

Breaks(text) == <<0>> \o SelectSeq([i \in DOMAIN text |-> IF text[i] = NewLine THEN i ELSE 0], LAMBDA i: i > 0)
                    \o <<Len(text) + 1>>
Split(text) ==
    LET b == Breaks(text) IN [k \in 1 .. (Len(b) - 1) |-> SubSeq(text, b[k] + 1, b[k + 1] - 1)]
Join(lines) ==
    FlattenSeq([k \in DOMAIN lines |-> IF k = 1 THEN lines[k] ELSE <<NewLine>> \o lines[k]])
WithoutLastEmpty(lines) == IF lines # <<>> /\ Last(lines) = <<>> THEN Front(lines) ELSE lines

\* format_file_content: lines with their numbers
Numbered(text, start) ==
    LET lines == WithoutLastEmpty(Split(text))
    IN  [k \in DOMAIN lines |-> [number |-> start + k - 1, text |-> lines[k]]]

\* _read_text, from a line on and for so many lines.
ReadText(file, offset, limit) ==
    LET lines == WithoutLastEmpty(Split(Decoded(file)))
        start == Least(offset, Len(lines))
        end == IF limit = NoLimit THEN Len(lines) ELSE Least(start + limit, Len(lines))
        selected == SubSeq(lines, start + 1, end)
    IN  IF selected = <<>> THEN <<>> ELSE Numbered(Join(selected), start + 1)

-----------------------------------------------------------------------------
(* Editing and writing.                                                    *)

At(text, i, part) == SubSeq(text, i, i + Len(part) - 1) = part
\* The places that str.count and str.replace find: from the left, and none
\* within another.
Occurrences(text, part) ==
    LET from[i \in 1 .. (Len(text) + Len(part) + 2)] ==
            IF i + Len(part) > Len(text) + 1 THEN <<>>
            ELSE IF At(text, i, part) THEN <<i>> \o from[i + (IF part = <<>> THEN 1 ELSE Len(part))]
            ELSE from[i + 1]
    IN  from[1]
ReplacePlaces(text, places, old, new) ==
    LET end(k) == IF k = 0 THEN 1 ELSE places[k] + Len(old)
    IN  FlattenSeq([k \in DOMAIN places |-> SubSeq(text, end(k - 1), places[k] - 1) \o new])
            \o SubSeq(text, end(Len(places)), Len(text))
Replace(text, old, new, all) ==
    LET places == Occurrences(text, old)
    IN  ReplacePlaces(text, IF all THEN places ELSE SubSeq(places, 1, Least(1, Len(places))), old, new)

Refuse(file, error) == [file |-> file, error |-> error, replaced |-> 0]
\* Mutant: a text that occurs more than once is replaced at its first place.
FirstWillDo(content, old, all) == FALSE
NotUnique(content, old, all) == ~all /\ Len(Occurrences(content, old)) > 1

\* FileEditTool.call: the file that is left and the error, if there is one.
Edit(file, old, new, all) ==
    CASE file = Missing -> Refuse(file, "not found")
      [] file # Missing /\ old = new -> Refuse(file, "identical")
      [] file = NotText /\ old # new -> Refuse(file, "not text")
      [] file \notin {Missing, NotText} /\ old # new ->
            LET content == Decoded(file) IN
            IF Occurrences(content, old) = <<>> THEN Refuse(file, "no such text")
            ELSE IF NotUnique(content, old, all) THEN Refuse(file, "not unique")
            ELSE [file |-> Replace(content, old, new, all), error |-> "",
                  replaced |-> IF all THEN Len(Occurrences(content, old)) ELSE 1]

\* FileWriteTool.call
Write(file, text) ==
    IF file = NotText THEN Refuse(file, "not text")
    ELSE [file |-> text, error |-> "", replaced |-> 0]

\* preview_for_tool_input: what a prompt for permission shows of the change, or
\* nothing when the file cannot be read.
NoPreview == <<"no preview">>
EditPreview(file, old, new, all) ==
    IF file \in {Missing, NotText} THEN NoPreview ELSE Replace(Decoded(file), old, new, all)
WritePreview(file, text) == IF file = NotText THEN NoPreview ELSE text

-----------------------------------------------------------------------------
(* The diff of a change.                                                   *)

\* An opcode of difflib: the lines i1 to i2 of the old text, first excluded, are
\* those from j1 to j2 of the new one.
Opcode(tag, i1, i2, j1, j2) == [tag |-> tag, i1 |-> i1, i2 |-> i2, j1 |-> j1, j2 |-> j2]
\* The opcodes of the blocks of lines that SequenceMatcher finds equal, <<i, j, n>>.
Gap(i1, i2, j1, j2) ==
    CASE i1 < i2 /\ j1 < j2 -> <<Opcode("replace", i1, i2, j1, j2)>>
      [] i1 < i2 /\ j1 = j2 -> <<Opcode("delete", i1, i2, j1, j2)>>
      [] i1 = i2 /\ j1 < j2 -> <<Opcode("insert", i1, i2, j1, j2)>>
      [] i1 = i2 /\ j1 = j2 -> <<>>
Opcodes(blocks, oldLen, newLen) ==
    LET b == <<<<0, 0, 0>>>> \o blocks \o <<<<oldLen, newLen, 0>>>>
    IN  FlattenSeq([k \in 1 .. (Len(b) - 1) |->
            Gap(b[k][1] + b[k][3], b[k + 1][1], b[k][2] + b[k][3], b[k + 1][2])
            \o (IF b[k + 1][3] = 0 THEN <<>>
                ELSE <<Opcode("equal", b[k + 1][1], b[k + 1][1] + b[k + 1][3],
                              b[k + 1][2], b[k + 1][2] + b[k + 1][3])>>)])
\* get_grouped_opcodes for a context that no block exceeds: one group, or none
\* when nothing changes.
Grouped(opcodes) ==
    IF \A k \in DOMAIN opcodes : opcodes[k].tag = "equal" THEN <<>> ELSE <<opcodes>>

Line(kind, old, new, text) == [kind |-> kind, old |-> old, new |-> new, text |-> text]
Deleted(old, i1, i2) == [n \in 1 .. (i2 - i1) |-> Line("delete", i1 + n, 0, old[i1 + n])]
Inserted(new, j1, j2) == [n \in 1 .. (j2 - j1) |-> Line("insert", 0, j1 + n, new[j1 + n])]
HunkLines(old, new, op) ==
    IF op.tag = "equal"
    THEN [n \in 1 .. (op.i2 - op.i1) |-> Line("context", op.i1 + n, op.j1 + n, old[op.i1 + n])]
    ELSE Deleted(old, op.i1, op.i2) \o Inserted(new, op.j1, op.j2)
Hunk(old, new, group) ==
    [oldCount |-> Last(group).i2 - Head(group).i1, newCount |-> Last(group).j2 - Head(group).j1,
     oldStart |-> Head(group).i1 + 1, newStart |-> Head(group).j1 + 1,
     lines |-> FlattenSeq([k \in DOMAIN group |-> HunkLines(old, new, group[k])])]
Whole(old, new) ==
    [oldCount |-> Len(old), newCount |-> Len(new), oldStart |-> 1, newStart |-> 1,
     lines |-> Deleted(old, 0, Len(old)) \o Inserted(new, 0, Len(new))]

\* build_file_diff_preview
Hunks(old, new, blocks, operation) ==
    LET grouped == Grouped(Opcodes(blocks, Len(old), Len(new)))
    IN  IF grouped = <<>> /\ (operation = "overwrite" \/ (operation = "create" /\ new # <<>>))
        THEN <<Whole(old, new)>>
        ELSE [k \in DOMAIN grouped |-> Hunk(old, new, grouped[k])]

-----------------------------------------------------------------------------
(* Notebooks.                                                              *)

\* list.insert: a number past the end appends, a negative one counts from the end.
InsertPlace(cells, n) ==
    IF n >= 0 THEN Least(n, Len(cells)) + 1
    ELSE IF Len(cells) + n >= 0 THEN Len(cells) + n + 1 ELSE 1
NotebookEdit(cells, mode, n, source) ==
    CASE mode = "insert" -> InsertAt(cells, InsertPlace(cells, n), source)
      [] mode = "delete" /\ n \in 0 .. Len(cells) - 1 -> RemoveAt(cells, n + 1)
      [] mode = "replace" /\ n \in 0 .. Len(cells) - 1 -> [cells EXCEPT ![n + 1] = source]
      [] mode # "insert" /\ n \notin 0 .. Len(cells) - 1 -> cells

-----------------------------------------------------------------------------
(* Searching, for the names of files.  A file of a tree is a record of how *)
(* the search sees it:                                                     *)
(*   match   - where the pattern is found: in one "line", only across      *)
(*             "lines", only across them by "dots" that match their ends,  *)
(*             or "nowhere",                                               *)
(*   glob    - its path matches the glob of the query,                     *)
(*   type    - it is of the type,                                          *)
(*   ignored - it lies in a directory that git ignores,                    *)
(*   vcs     - it lies in the directory of a version control system.       *)
(* The glob of a query is of a "name", or of a "path" or with braces.      *)

\* Without ripgrep: the whole text is searched without DOTALL, and fnmatch reads
\* the glob against the bare name, which one with a slash or braces never matches.
Found(file, query) ==
    /\ file.match \in {"line", "lines"}
    /\ query.glob = "none" \/ (query.glob = "name" /\ file.glob)
    /\ ~file.vcs
\* With ripgrep: by line, or across lines when the query is multiline.
FoundByRipgrep(file, query) ==
    /\ file.match = "line" \/ (query.multiline /\ file.match # "nowhere")
    /\ query.glob # "none" => file.glob
    /\ query.type => file.type
    /\ ~file.ignored /\ ~file.vcs

Cut(sequence, limit) == IF limit > 0 THEN SubSeq(sequence, 1, Least(limit, Len(sequence))) ELSE sequence
NewestFirst(files) == SortSeq(files, LAMBDA f, g: f.mtime > g.mtime)

\* The files that Grep names with ripgrep, and without.
GrepFiles(files, query) ==
    IF query.ripgrep
    THEN Cut(NewestFirst(SelectSeq(files, LAMBDA f: FoundByRipgrep(f, query))), query.limit)
    ELSE SelectSeq(files, LAMBDA f: Found(f, query))
\* The files that Glob names, MAX_RESULTS at most.
GlobFiles(files, limit) == Cut(NewestFirst(SelectSeq(files, LAMBDA f: f.glob)), limit)

-----------------------------------------------------------------------------
(* Commands.  One takes so many seconds, writes symbols, some of them      *)
(* blank, to its two outputs, and ends with a code.                        *)

DefaultTimeout == 120
LongestTimeout == 600
Blank == " "
CutMark == <<NewLine, "... (output truncated)">>
Visible(text) == \E i \in DOMAIN text : text[i] \notin {Blank, NewLine}
RightStripped(text) ==
    SubSeq(text, 1, CHOOSE n \in 0 .. Len(text) :
        /\ ~Visible(SubSeq(text, n + 1, Len(text)))
        /\ n = 0 \/ text[n] \notin {Blank, NewLine})

\* BashTool.call: a timeout of 0 is none.
CommandTimeout(given) == Least(IF given = 0 THEN DefaultTimeout ELSE given, LongestTimeout)

\* BashTool._run_foreground, the answer.
CommandAnswer(command, max) ==
    LET out == IF Len(command.out) > max THEN SubSeq(command.out, 1, max) \o CutMark ELSE command.out
        parts == (IF Visible(out) THEN <<[kind |-> "out", text |-> RightStripped(out)]>> ELSE <<>>)
                 \o (IF Visible(command.err)
                     THEN <<[kind |-> "err", text |-> RightStripped(command.err)]>> ELSE <<>>)
                 \o (IF command.code # 0 THEN <<[kind |-> "code", text |-> <<command.code>>]>> ELSE <<>>)
    IN  IF parts = <<>> THEN <<[kind |-> "no output", text |-> <<>>]>> ELSE parts

\* BashTool.call
RunCommand(command, given, max) ==
    IF command.dangerous THEN [error |-> "blocked", answer |-> <<>>]
    ELSE IF command.background THEN [error |-> "", answer |-> <<[kind |-> "started", text |-> <<>>]>>]
    ELSE IF command.lasts > CommandTimeout(given) THEN [error |-> "timed out", answer |-> <<>>]
    ELSE [error |-> "", answer |-> CommandAnswer(command, max)]

-----------------------------------------------------------------------------
(* What should hold.                                                       *)

\* The places at which the part is found, those that share characters among them.
Places(text, part) == {i \in 1 .. (Len(text) + 1) : i + Len(part) <= Len(text) + 1 /\ At(text, i, part)}

ReplacedAt(text, i, old, new) ==
    SubSeq(text, 1, i - 1) \o new \o SubSeq(text, i + Len(old), Len(text))

\* An edit that is refused leaves the file as it was.  One that is not replaces the
\* text where it is, everywhere, or at its first place, which all others overlap, and
\* touches nothing else but the ends of lines; an edit to a text that the file did
\* not have can be taken back.
EditsAreExact(file, old, new, all) ==
    LET done == Edit(file, old, new, all)
        content == Decoded(file)
    IN  /\ done.error # "" => done.file = file
        /\ done.error = "" /\ ~all =>
               \E i \in Places(content, old) :
                   /\ done.file = ReplacedAt(content, i, old, new)
                   /\ \A j \in Places(content, old) : i <= j /\ (j = i \/ j < i + Len(old))
        /\ done.error = "" /\ new # <<>> /\ Range(new) \cap Range(content) = {} =>
               Edit(done.file, new, old, all).file = content

\* A prompt for permission shows a file as it was then, and the call reads it anew.
\* An edit of one place that is made is one of the same text, whatever has become of
\* the file, and if the file is as it was, at the place that was shown.  A prompt
\* that showed no change is followed by one only if the file changed meanwhile.
ChangeIsAsShown(shown, file, old, new, all) ==
    LET done == Edit(file, old, new, all)
        preview == EditPreview(shown, old, new, all)
    IN  done.error = "" =>
            /\ shown = file => preview = done.file
            /\ preview = Decoded(shown) => shown # file
            /\ ~all /\ preview \notin {NoPreview, Decoded(shown)} =>
                   \E i \in Places(Decoded(shown), old), j \in Places(Decoded(file), old) :
                       /\ preview = ReplacedAt(Decoded(shown), i, old, new)
                       /\ done.file = ReplacedAt(Decoded(file), j, old, new)
                       /\ shown = file => i = j
\* A file is written as was shown, but nothing is shown of one that is no text.
WriteIsAsShown(shown, file, text) ==
    Write(file, text).error = "" =>
        WritePreview(shown, text) = IF shown = NotText THEN NoPreview ELSE Write(file, text).file

\* The lines that a diff says were there are those of the old text, in their order
\* and with their numbers, and those it says are there now are those of the new.
Shown(hunks) == FlattenSeq([k \in DOMAIN hunks |-> hunks[k].lines])
DiffIsOfTheChange(old, new, blocks, operation) ==
    LET hunks == Hunks(old, new, blocks, operation)
        lines == Shown(hunks)
        before == SelectSeq(lines, LAMBDA x: x.kind # "insert")
        after == SelectSeq(lines, LAMBDA x: x.kind # "delete")
    IN  hunks # <<>> =>
            /\ before = [i \in DOMAIN old |-> Line(before[i].kind, i, before[i].new, old[i])]
            /\ after = [j \in DOMAIN new |-> Line(after[j].kind, after[j].old, j, new[j])]
            /\ hunks[1].oldCount = Len(before) /\ hunks[1].newCount = Len(after)

\* A file that is read in pieces of so many lines shows each line that is not
\* empty once, with the number it has in the whole file.
PiecesCoverTheFile(text, limit) ==
    LET lines == WithoutLastEmpty(Split(Decoded(text)))
        pieces == FlattenSeq([k \in 1 .. Len(text) + 1 |-> ReadText(text, (k - 1) * limit, limit)])
        written(shown) == SelectSeq(shown, LAMBDA x: x.text # <<>>)
    IN  written(pieces) = written([i \in DOMAIN lines |-> [number |-> i, text |-> lines[i]]])

\* A change of one cell of a notebook changes no other.
OtherCellsAreKept(cells, mode, n, source) ==
    LET after == NotebookEdit(cells, mode, n, source) IN
    \/ after = cells
    \/ /\ mode = "insert"
       /\ \E i \in DOMAIN after : after[i] = source /\ RemoveAt(after, i) = cells
    \/ /\ n + 1 \in DOMAIN cells
       /\ RemoveAt(cells, n + 1) = (IF mode = "delete" THEN after ELSE RemoveAt(after, n + 1))

\* What a search leaves out because of its limit is no newer than what it names.
\* Without ripgrep it finds what it would have found with it, unless that takes the
\* glob of a path or a dot for the end of a line, and more: it passes over the
\* type, the limit and what git ignores.
SearchesNameTheNewest(files, query, limit) ==
    LET newest(named, eligible) ==
            \A f \in Range(named), g \in eligible \ Range(named) : f.mtime >= g.mtime
        named == GrepFiles(files, [query EXCEPT !.ripgrep = TRUE])
        plain == GrepFiles(files, [query EXCEPT !.ripgrep = FALSE])
    IN  /\ newest(named, {f \in Range(files) : FoundByRipgrep(f, query)})
        /\ newest(GlobFiles(files, limit), {f \in Range(files) : f.glob})
        /\ \A f \in Range(named) \ Range(plain) : query.glob = "path" \/ f.match = "dots"
        /\ query.glob = "path" => plain = <<>>
        /\ \A f \in Range(named) \cup Range(plain) : ~f.vcs

\* A command is stopped no earlier than asked for, nor later than the longest timeout.
\* The model learns of every failure, reads what was printed but what is cut, and
\* is told so, and hears of no output only when there was none to see.
CommandsAreReported(command, given, max) ==
    LET run == RunCommand(command, given, max)
        told(kind) == {run.answer[i].text : i \in {j \in DOMAIN run.answer : run.answer[j].kind = kind}}
        printed(text, shown) ==
            \/ shown = {} /\ ~Visible(text)
            \/ \E t \in shown : IsPrefix(t, text) /\ ~Visible(SubSeq(text, Len(t) + 1, Len(text)))
    IN  /\ run.error = "timed out" => command.lasts > LongestTimeout
                                      \/ command.lasts > (IF given = 0 THEN DefaultTimeout ELSE given)
        /\ command.lasts > LongestTimeout => run.error # "" \/ told("started") # {}
        /\ run.error = "" /\ ~command.background =>
               /\ told("code") # {} <=> command.code # 0
               /\ printed(command.err, told("err"))
               /\ IF Len(command.out) <= max THEN printed(command.out, told("out"))
                  ELSE \E t \in told("out") : t = SubSeq(command.out, 1, max) \o CutMark
               /\ told("no output") # {} => ~Visible(command.out \o command.err) /\ command.code = 0
=============================================================================
