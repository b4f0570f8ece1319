----------------------------- MODULE LineIndex -----------------------------
(***************************************************************************)
(* From a file to its lines: the detection of the source type, the three   *)
(* parsers, the tag table, the line index built in a first pass and then   *)
(* chunk by chunk, and the sections of a bug report (core/session.rs,      *)
(* core/..._parser.rs, run_background_indexer).                              *)
(*                                                                         *)
(* A file is a sequence of lines.  A line is [k, n, day, w]: the kind of   *)
(* text it holds, the tag or section it names, its month and day, and its  *)
(* width in bytes with the newline.  `bom' says the file is UTF-16, `open' *)
(* that its last line has no newline.  Sessions has the locks, the         *)
(* generations and the cancellation of the same indexer.                   *)
(***************************************************************************)
EXTENDS Integers, Sequences, FiniteSets, SequencesExt, FiniteSetsExt

CONSTANTS
    IdxFiles,      \* the files there may be
    IdxOverrides,  \* types a caller may name at open; "" for none
    IdxFirst,      \* bytes of the first pass (INITIAL_BYTES)
    IdxChunkBytes, \* bytes of a later chunk (CHUNK_BYTES)
    IdxRun,        \* lines in a row that decide the type
    IdxSample,     \* lines that detection looks at (DETECT_SAMPLE_BYTES)
    IdxMaxTags,    \* ids there are for tags (65,536)
    IdxNow,        \* the current year
    IdxLeap        \* the leap years

ASSUME IdxAssumption ==
    /\ IdxFirst \in Nat /\ IdxChunkBytes \in Nat \ {0}
    /\ {IdxRun, IdxSample} \subseteq Nat \ {0} /\ IdxMaxTags \in Nat \ {0, 1}

VARIABLES
    idxFile,    \* the file on disk
    idxType,    \* source type of the session, "" before it is open
    idxMetas,   \* the index: one entry per line
    idxTags,    \* table of the tag interner
    idxSecs,    \* sections of the source
    idxParser,  \* what the running parser knows of the capture: [year, at]
    idxPc       \* "closed", "spawned", "chunks", "done", "stuck"

idxVars == <<idxFile, idxType, idxMetas, idxTags, idxSecs, idxParser, idxPc>>

(***************************************************************************)
(* Dates.  The calendar is small: a year has the days 1, 2 and 3, and day  *)
(* 2 is the one that only leap years have.                                 *)
(***************************************************************************)
IdxJan1(y) == 1 + 2 * y + Cardinality({l \in IdxLeap : l < y})
IdxDays(y, d) == IdxJan1(y) + (IF y \in IdxLeap \/ d <= 2 THEN d - 1 ELSE d - 2)
IdxYearOffset(from, to) == IdxJan1(to) - IdxJan1(from)

NoCapture == [year |-> 0, at |-> 0]

(* Shift from the current year to that of the capture; a time past the     *)
(* capture is of the year before.                                          *)
IdxCorrect(p, t) ==
    LET shifted == t + IdxYearOffset(IdxNow, p.year) IN
    IF p.year = 0 THEN t
    ELSE IF shifted > p.at THEN t + IdxYearOffset(IdxNow, p.year - 1)
    ELSE shifted

(***************************************************************************)
(* Parsers.  Each gives the metadata of a line, or None.                   *)
(***************************************************************************)
Meta(level, tag, ts, boundary) ==
    [level |-> level, tag |-> tag, ts |-> ts, boundary |-> boundary]
Plain == Meta("Info", "", 0, FALSE)
Untimed == Meta("Verbose", "", 0, FALSE)
IdxNone == Meta("none", "", 0, FALSE)

(* Lines that start with five dashes; with six, to the bug report parser.  *)
IdxDashes == {"divider", "begin", "start", "footer"}

IdxLogcat(l) ==
    CASE l.k \in IdxDashes -> IdxNone
      [] l.k = "threadtime" -> Meta("Debug", l.n, IdxDays(IdxNow, l.day), FALSE)
      [] l.k = "brief" -> Meta("Debug", l.n, 0, FALSE)
      [] OTHER -> Plain

IdxKernel(l) ==
    IF l.k = "kernel" THEN Meta("Info", "kernel", 1, FALSE) ELSE IdxNone

(* What the bug report parser knows after line l, and what it says of l.   *)
IdxLearns(p, l) ==
    IF l.k = "header" THEN [year |-> l.n, at |-> IdxDays(l.n, l.day)] ELSE p

IdxBugreport(p, l) ==
    CASE l.k = "header" -> Meta("Info", "dumpstate", 0, FALSE)
      [] l.k = "footer" -> Meta("Verbose", l.n, 0, TRUE)
      [] l.k = "start" -> Meta("Info", l.n, 0, TRUE)
      [] l.k \in {"divider", "begin"} -> Meta("Info", l.k, 0, TRUE)
      [] OTHER -> LET m == IdxLogcat(l) IN
                  [m EXCEPT !.ts = IF @ > 0 THEN IdxCorrect(p, @) ELSE @]

IdxReports == {"Bugreport", "Dumpstate"}

IdxMeta(type, p, l) ==
    CASE type = "Kernel" -> IdxKernel(l)
      [] type \in IdxReports -> IdxBugreport(p, l)
      [] OTHER -> IdxLogcat(l)

(* The other entry of the parsers, which pipelines, filters and the viewer *)
(* use: the logcat parser takes every line without dashes, so the header   *)
(* never reaches the bug report parser's own rules.                        *)
IdxParsed(type, p, l) ==
    IF type \in IdxReports /\ l.k \notin IdxDashes
    THEN LET m == IdxLogcat(l) IN
         [meta |-> [m EXCEPT !.ts = IF @ > 0 THEN IdxCorrect(p, @) ELSE @],
          parser |-> p]
    ELSE [meta |-> IdxMeta(type, p, l), parser |-> IdxLearns(p, l)]

(***************************************************************************)
(* The tag table: ids 0 and 1 are the empty tag and the one that stands    *)
(* for every tag that found the table full.                                *)
(***************************************************************************)
IdxOverflow == "<tag-overflow>"
IdxNoTags == <<"", IdxOverflow>>
IdxIntern(tags, tag) ==
    IF Contains(tags, tag) \/ Len(tags) >= IdxMaxTags THEN tags ELSE Append(tags, tag)
IdxId(tags, tag) ==
    IF Contains(tags, tag) THEN CHOOSE i \in DOMAIN tags : tags[i] = tag ELSE 2

(***************************************************************************)
(* One pass over some lines: the index entries, with the parser and the    *)
(* tag table carried along.                                                *)
(***************************************************************************)
IdxOneLine(type, pass, l) ==
    LET parsed == IdxMeta(type, pass.parser, l)
        meta == IF l.k \in {"blank", "invalid"} THEN Untimed
                ELSE IF parsed = IdxNone THEN Plain ELSE parsed
        tags == IdxIntern(pass.tags, meta.tag)
    IN [metas |-> Append(pass.metas,
                    [level |-> meta.level, tag |-> IdxId(tags, meta.tag), ts |-> meta.ts,
                     boundary |-> meta.boundary, at |-> pass.at]),
        parser |-> IF type \in IdxReports THEN IdxLearns(pass.parser, l) ELSE pass.parser,
        tags |-> tags, at |-> pass.at + l.w]

IdxPass(type, parser, tags, at, lines) ==
    FoldLeft(LAMBDA pass, l : IdxOneLine(type, pass, l),
             [metas |-> <<>>, parser |-> parser, tags |-> tags, at |-> at], lines)

IdxBytes(lines) == FoldLeft(LAMBDA n, l : n + l.w, 0, lines)

(* The first line of a UTF-16 file keeps the mark in front of its text.    *)
IdxMarked(f) ==
    IF f.bom /\ f.lines # <<>> THEN [f.lines EXCEPT ![1].k = "plain"] ELSE f.lines

(* The lines of a pass of `limit' bytes over `rest': up to the first       *)
(* newline at the limit or after it; an unfinished last line only when the *)
(* limit covers all that is left.                                          *)
IdxTaken(rest, open, limit) ==
    LET ended == IF open /\ rest # <<>> THEN Front(rest) ELSE rest
        enough == {j \in DOMAIN ended : IdxBytes(SubSeq(ended, 1, j)) >= limit}
    IN IF limit >= IdxBytes(rest) THEN rest
       ELSE IF enough = {} THEN ended
       ELSE SubSeq(ended, 1, CHOOSE j \in enough : \A i \in enough : j <= i)

(* All in one pass, past the mark.                                         *)
IdxWhole(f, type) == IdxPass(type, NoCapture, IdxNoTags, 0, f.lines)

(***************************************************************************)
(* Sections.  A footer closes the last open section of its name; a section *)
(* of the services dump has one child per service; the text of a UTF-16    *)
(* file is not looked at for them.                                         *)
(***************************************************************************)
IdxTagOf(tags, m) == tags[m.tag]

IdxSectionStep(tags, acc, i, m) ==
    LET tag == IdxTagOf(tags, m)
        same == {j \in DOMAIN acc.pending : acc.pending[j][1] = tag}
        pos == CHOOSE j \in same : \A k \in same : k <= j
    IN CASE ~m.boundary \/ tag = "" -> acc
         [] m.level = "Info" /\ tag # "dumpstate" ->
              [acc EXCEPT !.pending = Append(@, <<tag, i>>)]
         [] m.level = "Verbose" /\ same # {} ->
              [pending |-> RemoveAt(acc.pending, pos),
               closed |-> Append(acc.closed,
                            [name |-> tag, from |-> acc.pending[pos][2], to |-> i])]
         [] OTHER -> acc

IdxTop(tags, metas) ==
    FoldLeftDomain(LAMBDA acc, i : IdxSectionStep(tags, acc, i, metas[i]),
                   [pending |-> <<>>, closed |-> <<>>], metas).closed

(* The services of a section: each ends where the next one begins.         *)
IdxServices(lines, s) ==
    LET heads == SetToSortSeq({i \in (s.from + 1)..s.to : lines[i].k = "service"},
                              LAMBDA i, j : i < j)
    IN [j \in DOMAIN heads |->
          [name |-> lines[heads[j]].n, from |-> heads[j],
           to |-> IF j < Len(heads) THEN heads[j + 1] - 1 ELSE s.to]]

IdxDumpsys == "DUMPSYS"

IdxSections(type, tags, metas, f) ==
    LET Under(out, s) ==
          LET kids == IF s.name = IdxDumpsys /\ ~f.bom THEN IdxServices(f.lines, s) ELSE <<>>
              Row(r, parent) == [name |-> r.name, from |-> r.from, to |-> r.to, parent |-> parent]
          IN out \o <<Row(s, 0)>> \o [j \in DOMAIN kids |-> Row(kids[j], Len(out) + 1)]
    IN IF type \in IdxReports THEN FoldLeft(Under, <<>>, IdxTop(tags, metas)) ELSE <<>>

(***************************************************************************)
(* Detection, in a sample of the file: markers, then the first run of      *)
(* lines of one format, then the format with more lines, then a word.      *)
(* Dividers count for nothing.  A sample ends at a line.                   *)
(***************************************************************************)
IdxFormat(l) == IF l.k \in {"threadtime", "kernel"} THEN l.k ELSE ""

(* Mutant: a divider breaks a run.                                         *)
MutIdxRunStep(acc, l) ==
    LET f == IdxFormat(l)
        n == IF f = "" THEN 0 ELSE IF f = acc.cur THEN acc.n + 1 ELSE 1
    IN IF acc.won # "" THEN acc
       ELSE [cur |-> f, n |-> n, won |-> IF n >= IdxRun THEN f ELSE ""]

IdxRunStep(acc, l) ==
    LET f == IdxFormat(l)
        n == IF f = "" THEN 0 ELSE IF f = acc.cur THEN acc.n + 1 ELSE 1
    IN IF acc.won # "" \/ l.k \in IdxDashes THEN acc
       ELSE [cur |-> f, n |-> n, won |-> IF n >= IdxRun THEN f ELSE ""]

IdxFirstRun(lines) == FoldLeft(IdxRunStep, [cur |-> "", n |-> 0, won |-> ""], lines).won

IdxTypeOf(format) == IF format = "kernel" THEN "Kernel" ELSE "Logcat"

IdxSampled(lines) == SubSeq(lines, 1, IF Len(lines) < IdxSample THEN Len(lines) ELSE IdxSample)

IdxDetect(all) ==
    LET lines == IdxSampled(all)
        Has(k) == \E i \in DOMAIN lines : lines[i].k = k
        Hits(f) == Cardinality({i \in DOMAIN lines : IdxFormat(lines[i]) = f})
    IN CASE Has("header") -> "Dumpstate"
         [] Has("version") -> "Bugreport"
         [] Has("begin") -> "Logcat"
         [] IdxFirstRun(lines) # "" -> IdxTypeOf(IdxFirstRun(lines))
         [] Hits("kernel") > Hits("threadtime") -> "Kernel"
         [] Hits("threadtime") > 0 -> "Logcat"
         [] Has("linux") -> "Kernel"
         [] Has("radio") -> "Radio"
         [] OTHER -> "Logcat"

(***************************************************************************)
(* The session: open it, then index the rest.                              *)
(***************************************************************************)
IdxInit ==
    /\ idxFile \in IdxFiles
    /\ idxType = "" /\ idxMetas = <<>> /\ idxTags = IdxNoTags /\ idxSecs = <<>>
    /\ idxParser = NoCapture /\ idxPc = "closed"

IdxRest == SubSeq(IdxMarked(idxFile), Len(idxMetas) + 1, Len(idxFile.lines))

(* add_source_partial_typed: the first pass, with a parser of its own.     *)
IdxOpen(override) ==
    LET type == IF override = "" THEN IdxDetect(idxFile.lines) ELSE override
        taken == IdxTaken(IdxMarked(idxFile), idxFile.open, IdxFirst)
        pass == IdxPass(type, NoCapture, IdxNoTags, 0, taken)
    IN /\ idxPc = "closed"
       /\ idxType' = type
       /\ idxMetas' = pass.metas /\ idxTags' = pass.tags
       /\ idxSecs' = IdxSections(type, pass.tags, pass.metas, idxFile)
       /\ idxPc' = IF taken = idxFile.lines \/ taken = IdxMarked(idxFile)
                   THEN "done" ELSE "spawned"
       /\ UNCHANGED <<idxFile, idxParser>>

(* Mutant: the indexer's parser is fresh, as if the parser kept no state.  *)
MutIdxPrime ==
    /\ idxPc = "spawned" /\ idxPc' = "chunks"
    /\ UNCHANGED <<idxFile, idxType, idxMetas, idxTags, idxSecs, idxParser>>

(* The indexer starts: it shows its parser the header of the first pass,   *)
(* if those bytes are text.                                                *)
IdxPrime ==
    LET seen == SubSeq(idxFile.lines, 1, Len(idxMetas))
        heads == {i \in DOMAIN seen : seen[i].k = "header"}
        readable == \A i \in DOMAIN seen : seen[i].k # "invalid"
    IN /\ idxPc = "spawned"
       /\ idxParser' = IF idxType \in IdxReports /\ heads # {} /\ readable
                       THEN IdxLearns(NoCapture, seen[Min(heads)])
                       ELSE NoCapture
       /\ idxPc' = "chunks"
       /\ UNCHANGED <<idxFile, idxType, idxMetas, idxTags, idxSecs>>

(* One chunk: a pass that finds no newline ends the indexer where it is.   *)
IdxChunk ==
    LET taken == IdxTaken(IdxRest, idxFile.open, IdxChunkBytes)
        pass == IdxPass(idxType, idxParser, idxTags,
                        IdxBytes(SubSeq(idxFile.lines, 1, Len(idxMetas))), taken)
        done == taken = IdxRest
    IN /\ idxPc = "chunks"
       /\ idxMetas' = idxMetas \o pass.metas /\ idxTags' = pass.tags
       /\ idxParser' = pass.parser
       /\ idxSecs' = IF done
                     THEN IdxSections(idxType, pass.tags, idxMetas', idxFile)
                     ELSE idxSecs
       /\ idxPc' = IF done THEN "done" ELSE IF taken = <<>> THEN "stuck" ELSE "chunks"
       /\ UNCHANGED <<idxFile, idxType>>

IdxNext == (\E o \in IdxOverrides : IdxOpen(o)) \/ IdxPrime \/ IdxChunk

IdxSpec == IdxInit /\ [][IdxNext]_idxVars

(***************************************************************************)
(* Properties.                                                             *)
(***************************************************************************)
IdxTypeOK ==
    /\ DOMAIN idxFile = {"lines", "open", "bom"}
    /\ Len(idxMetas) <= Len(idxFile.lines)
    /\ Len(idxTags) \in 2..IdxMaxTags
    /\ \A i \in DOMAIN idxMetas : idxMetas[i].tag \in DOMAIN idxTags
    /\ idxPc \in {"closed", "spawned", "chunks", "done", "stuck"}

(* Files whose parts tell as much as the whole: every byte before the      *)
(* second pass is text, and the mark hides nothing.                        *)
IdxReadable(f) ==
    /\ \A i \in DOMAIN f.lines : f.lines[i].k # "invalid"
    /\ f.bom /\ f.lines # <<>> => f.lines[1].k = "plain"
    /\ Cardinality({i \in DOMAIN f.lines : f.lines[i].k = "header"}) <= 1

(* The cut into passes is invisible: what is indexed at any time is a      *)
(* prefix of the index of one pass over the whole file, times and tags     *)
(* included, and at the end it is that index with its sections.            *)
IdxCutsInvisible ==
    LET whole == IdxWhole(idxFile, idxType) IN
    idxPc # "closed" /\ IdxReadable(idxFile) =>
      /\ IsPrefix(idxMetas, whole.metas)
      /\ IsPrefix(idxTags, whole.tags)
      /\ idxPc = "done" =>
           /\ Len(idxMetas) = Len(idxFile.lines)
           /\ idxSecs = IdxSections(idxType, whole.tags, whole.metas, idxFile)

(* Sections nest: children lie inside their parent, one after the other,   *)
(* and two sections of one name never cross.                               *)
IdxSectionsNest ==
    \A i, j \in DOMAIN idxSecs :
      LET a == idxSecs[i]  b == idxSecs[j] IN
      /\ a.from <= a.to
      /\ a.parent # 0 =>
           LET p == idxSecs[a.parent] IN
           p.parent = 0 /\ p.from < a.from /\ a.to <= p.to
      /\ i < j /\ a.parent # 0 /\ a.parent = b.parent => a.to < b.from
      /\ a.parent = 0 /\ b.parent = 0 /\ a.name = b.name /\ i # j =>
           \/ a.to < b.from \/ b.to < a.from
           \/ (a.from < b.from /\ b.to < a.to)
           \/ (b.from < a.from /\ a.to < b.to)

(* The first block of IdxRun lines of one format in the sample decides,    *)
(* whatever follows it and whatever dividers cut it.                       *)
IdxFirstBlockDecides ==
    LET sample == IdxSampled(idxFile.lines)
        lines == SelectSeq(sample, LAMBDA l : l.k \notin IdxDashes)
        Block(i, f) == /\ i + IdxRun - 1 <= Len(lines)
                       /\ \A j \in i..(i + IdxRun - 1) : IdxFormat(lines[j]) = f
        blocks == {i \in DOMAIN lines : \E f \in {"threadtime", "kernel"} : Block(i, f)}
    IN IF blocks = {} THEN IdxFirstRun(sample) = ""
       ELSE IdxFirstRun(sample) = IdxFormat(lines[Min(blocks)])

IdxSound == IdxCutsInvisible /\ IdxSectionsNest /\ IdxFirstBlockDecides

(* "It corrects all subsequent logcat timestamps to that year"             *)
(* (core/bugreport_parser.rs:33): the time a pipeline or a filter gives a  *)
(* line is the one the index has.                                          *)
IdxReadersAgree ==
    \A i \in DOMAIN idxMetas :
      LET before == FoldLeft(LAMBDA p, l : IdxParsed(idxType, p, l).parser,
                             NoCapture, SubSeq(idxFile.lines, 1, i - 1))
      IN IdxParsed(idxType, before, idxFile.lines[i]).meta.ts = idxMetas[i].ts
=============================================================================
