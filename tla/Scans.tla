------------------------------- MODULE Scans -------------------------------
(***************************************************************************)
(* Everything that reads a session line by line: filters                   *)
(* (services/filters.rs, core/filter.rs), searches (services/search.rs),   *)
(* filtered windows of lines (services/lines.rs), and the watches that     *)
(* look at each batch of a stream (services/watches.rs).                   *)
(*                                                                         *)
(* A scan locks `sessions' once to learn how long the source is and again  *)
(* for every chunk; in between lines arrive, are evicted, and the session  *)
(* may be closed and opened again under the same id.  One step is one      *)
(* critical section.  A line is the word it carries, and a criterion the   *)
(* set of words it accepts.                                                *)
(***************************************************************************)
EXTENDS Integers, FiniteSets, Sequences, SequencesExt, TLC

CONSTANTS
    ScnCalls,      \* filters, searches and line queries that may be under way
    ScnRequests,   \* what they may ask for
    ScnWatches,    \* watches that may be created
    ScnCriteria,   \* what a watch may look for
    ScnFile,       \* the lines of the file
    ScnWords,      \* the lines a stream may bring
    ScnChunk,      \* SCAN_BATCH_SIZE and MCP_SCAN_CHUNK_SIZE
    ScnCap,        \* MCP_SCAN_LINE_CAP
    ScnMaxLines,   \* bound: the lines of a stream
    ScnMaxOpens    \* bound: how often a session is opened

ASSUME ScnAssumption ==
    /\ ScnChunk \in Nat \ {0} /\ ScnCap \in Nat
    /\ {ScnMaxLines, ScnMaxOpens} \subseteq Nat
    /\ ScnFile \in Seq(ScnWords)

VARIABLES
    scnOpen,      \* what is open: nothing, a "file", a "stream", or one that "ended"
    scnOpens,     \* how often the file was opened
    scnText,      \* its lines
    scnMissing,   \* the lines that left memory and are not in a spill file
    scnBatch,     \* the lines of a batch that no watch has seen yet
    scnCall,      \* the calls, and behind a filter its FilterSession
    scnWatch,     \* the watches
    scnClosing,   \* where close_session_state stands
    scnTouched    \* history: closed, or lines lost, since a call began

scnSession == <<scnOpen, scnOpens, scnText, scnMissing>>
scnVars == <<scnSession, scnBatch, scnCall, scnWatch, scnClosing, scnTouched>>

ScnIdle == [pc |-> "idle", req |-> [kind |-> "none"], order |-> <<>>,
            pos |-> 0, matches |-> <<>>, lost |-> FALSE, cancelled |-> FALSE,
            listed |-> FALSE, status |-> "none"]
ScnNoWatch == [pc |-> "none", want |-> [all |-> TRUE, checks |-> {}],
               active |-> FALSE, count |-> 0, from |-> 0]

ScnInit ==
    /\ scnOpen = "none" /\ scnOpens = 0 /\ scnText = <<>> /\ scnMissing = {}
    /\ scnBatch = <<>>
    /\ scnCall = [c \in ScnCalls |-> ScnIdle]
    /\ scnWatch = [w \in ScnWatches |-> ScnNoWatch]
    /\ scnClosing = "no"
    /\ scnTouched = {}

ScnTypeOK ==
    /\ scnOpen \in {"none", "file", "stream", "ended"}
    /\ scnOpens \in 0..ScnMaxOpens
    /\ scnText \in Seq(ScnWords) /\ scnBatch \in Seq(ScnWords)
    /\ scnMissing \subseteq 0..(ScnMaxLines - 1)
    /\ \A c \in ScnCalls :
         /\ scnCall[c].pc \in {"idle", "insert", "test", "chunk", "settle",
                               "complete", "cancelled", "render", "done", "failed"}
         /\ scnCall[c].status \in {"none", "scanning", "complete", "cancelled"}
         /\ scnCall[c].pos \in 0..Len(scnCall[c].order)
    /\ \A w \in ScnWatches :
         scnWatch[w].pc \in {"none", "check", "listed", "gone"}
    /\ scnClosing \in {"no", "watches", "filters"}
    /\ scnTouched \subseteq ScnCalls

ScnLive == scnOpen \in {"file", "stream"}
ScnActive == {c \in ScnCalls : scnCall[c].pc # "idle"}

----------------------------------------
(* Which lines, in which order.  Line numbers start at 0.                  *)

ScnLow(a, b) == IF a < b THEN a ELSE b
ScnHigh(a, b) == IF a < b THEN b ELSE a
ScnLess(a, b) == ScnHigh(a - b, 0)                       \* saturating_sub
ScnFrom(a, b) == [i \in 1..ScnLess(b, a) |-> a + i - 1]  \* (a..b)

(* scan_window_capped and capped_range_end.                                *)
ScnCapped(a, b) == ScnLess(b, a) > ScnCap
ScnEnd(a, b) == ScnLow(a + ScnCap, b)

(* outward_from: center, center - 1, center + 1, ...  The two sides are    *)
(* zipped, the lower one first, so the order ends with the lower side.     *)
ScnOutward(at, a, b) ==
    IF a >= b THEN <<>> ELSE
    LET center == ScnHigh(a, ScnLow(at, b - 1))
        start == ScnHigh(ScnLess(center, ScnCap \div 2), a)
        end == ScnLow(center + ScnCap \div 2, b)
        pair(k) == IF center + k < end THEN <<center - k + 1, center + k>>
                   ELSE <<center - k + 1>>
    IN  FlattenSeq([k \in 1..(center - start + 1) |-> pair(k)])

(* select_indices: the lines of a window nothing is filtered from.         *)
ScnWindow(sel, a, b) ==
    LET len == ScnLess(b, a)
        n == ScnLow(sel.count, len)
    IN  CASE len = 0 -> <<>>
          [] sel.by = "recent" -> ScnFrom(b - n, b)
          [] sel.by = "uniform" -> [i \in 1..n |-> a + ((i - 1) * len) \div n]
          [] sel.by = "centered" ->
               LET from == ScnLess(ScnLess(sel.line, a), n \div 2)
               IN  ScnFrom(a + from, a + ScnLow(from + n, len))
          [] sel.by = "around" ->
               ScnFrom(ScnHigh(ScnLess(sel.line, sel.before), a),
                       ScnLow(sel.line + sel.after + 1, b))
          [] sel.by = "range" ->
               LET start == ScnLow(a + sel.offset, b)
               IN  ScnFrom(start, ScnLow(start + sel.count, b))

(* LineSelection::budget.                                                  *)
ScnBudget(sel) == IF sel.by = "around" THEN sel.before + sel.after + 1
                  ELSE sel.count

(* The order in which scan_matching looks at lines.                        *)
ScnQueryOrder(sel, a, b) ==
    CASE sel.by = "recent" -> Reverse(ScnFrom(ScnHigh(a, ScnLess(b, ScnCap)), b))
      [] sel.by \in {"around", "centered"} -> ScnOutward(sel.line, a, b)
      [] OTHER -> ScnFrom(a, ScnEnd(a, b))

(* collect_processor: the lines a processor matched and those around them. *)
ScnPage(req, total) ==
    LET near(i) == \E h \in req.hits : i \in (h - req.context)..(h + req.context)
        lines == SelectSeq(ScnFrom(0, total), near)
    IN  [i \in 1..ScnLow(req.limit, ScnLess(Len(lines), req.offset)) |->
           lines[req.offset + i]]

ScnOrder(req, total) ==
    LET a == ScnLow(req.from, total)
        b == ScnLow(req.to, total)
    IN  CASE req.kind \in {"filter", "summary"} -> ScnFrom(0, total)
          [] req.kind = "hits" -> ScnFrom(a, ScnEnd(a, b))
          [] req.kind = "lines" -> ScnQueryOrder(req.sel, a, ScnHigh(a, b))
          [] req.kind = "window" -> ScnWindow(req.sel, a, ScnHigh(a, b))
          [] req.kind = "page" -> ScnPage(req, total)

(* line_matches_criteria: no check accepts every line.                     *)
ScnAccepts(want, word) ==
    IF want.checks = {} THEN TRUE
    ELSE IF want.all THEN \A c \in want.checks : word \in c
    ELSE \E c \in want.checks : word \in c

ScnIndexed(i) == i < Len(scnText)
ScnReadable(i) == ScnIndexed(i) /\ i \notin scnMissing

(* A search summary takes a line it cannot read for an empty one; the      *)
(* other scans skip it.                                                    *)
ScnHit(req, i) ==
    IF req.kind = "summary"
      THEN ScnIndexed(i) /\ ScnAccepts(req.want, IF i \in scnMissing THEN ""
                                                 ELSE scnText[i + 1])
      ELSE ScnReadable(i) /\ ScnAccepts(req.want, scnText[i + 1])

(* The matches a call takes before it stops looking.                       *)
ScnWanted(req) ==
    CASE req.kind = "lines" -> ScnBudget(req.sel)
      [] req.kind = "hits" /\ ~req.all ->
           IF req.limit = 0 THEN 0 ELSE req.offset + req.limit
      [] OTHER -> ScnMaxLines + Len(ScnFile)

MutScnChunkLines(call) ==
    SubSeq(call.order, call.pos + 1, ScnLow(call.pos + ScnChunk - 1, Len(call.order)))
(* The lines of the next chunk (scan_chunk_bounds).                        *)
ScnChunkLines(call) ==
    SubSeq(call.order, call.pos + 1, ScnLow(call.pos + ScnChunk, Len(call.order)))

ScnMore(call) ==
    /\ call.pos < Len(call.order)
    /\ Len(call.matches) < ScnWanted(call.req)

(* Where a call goes when it has looked at some lines.                     *)
ScnGoOn(call) ==
    [call EXCEPT !.pc = IF call.req.kind = "filter" THEN "test"
                        ELSE IF ScnMore(call) THEN "chunk"
                        ELSE IF call.req.kind = "lines" THEN "render"
                        ELSE "done"]

(* What the answer of a scan says of itself.                               *)
ScnTruncated(call) ==
    LET req == call.req
        capped == ScnCapped(ScnLow(req.from, req.total),
                            ScnLow(req.to, req.total))
    IN  call.lost \/ (capped /\ Len(call.matches) < ScnWanted(req))

----------------------------------------
(* The session.                                                            *)

ScnOpenFile ==
    /\ scnOpen = "none" /\ scnOpens < ScnMaxOpens
    /\ scnOpen' = "file" /\ scnOpens' = scnOpens + 1
    /\ scnText' = SubSeq(ScnFile, 1, 1)
    /\ UNCHANGED <<scnMissing, scnBatch, scnCall, scnWatch, scnClosing, scnTouched>>

(* The background indexer brings the rest of the file.                     *)
ScnNextIndexed == ScnLow(Len(scnText) + 2, Len(ScnFile))
ScnIndexMore ==
    /\ scnOpen = "file" /\ Len(scnText) < Len(ScnFile)
    /\ scnText' = SubSeq(ScnFile, 1, ScnNextIndexed)
    /\ UNCHANGED <<scnOpen, scnOpens, scnMissing, scnBatch, scnCall, scnWatch,
                   scnClosing, scnTouched>>

(* A stream has an id of its own: once it ended nothing is opened under it. *)
ScnOpenStream ==
    /\ scnOpen = "none" /\ scnOpens = 0
    /\ scnOpen' = "stream"
    /\ UNCHANGED <<scnOpens, scnText, scnMissing, scnBatch, scnCall, scnWatch,
                   scnClosing, scnTouched>>

(* flush_batch adds the lines, and evicts one that is not spilled.         *)
ScnArrive(batch, evicted) ==
    /\ scnOpen = "stream" /\ scnBatch = <<>>
    /\ Len(scnText) + Len(batch) <= ScnMaxLines
    /\ evicted \subseteq 0..(Len(scnText) - 1)
    /\ scnText' = scnText \o batch
    /\ scnMissing' = scnMissing \cup evicted
    /\ scnBatch' = batch
    /\ scnTouched' = IF evicted \subseteq scnMissing THEN scnTouched
                     ELSE scnTouched \cup ScnActive
    /\ UNCHANGED <<scnOpen, scnOpens, scnCall, scnWatch, scnClosing>>

ScnCounted(watch) == {i \in DOMAIN scnBatch : ScnAccepts(watch.want, scnBatch[i])}

(* evaluate_watches, for the batch that was added.                         *)
ScnEvaluate ==
    /\ scnBatch # <<>>
    /\ scnWatch' = [w \in ScnWatches |->
          IF scnWatch[w].pc = "listed" /\ scnWatch[w].active
            THEN [scnWatch[w] EXCEPT !.count = @ + Cardinality(ScnCounted(scnWatch[w]))]
            ELSE scnWatch[w]]
    /\ scnBatch' = <<>>
    /\ UNCHANGED <<scnSession, scnCall, scnClosing, scnTouched>>

(* close_session_state, where a scan or a watch can tell.                  *)
ScnCloseSession ==
    /\ ScnLive /\ scnClosing = "no"
    /\ scnOpen' = IF scnOpen = "stream" THEN "ended" ELSE "none"
    /\ scnText' = <<>> /\ scnMissing' = {}
    /\ scnClosing' = "watches"
    /\ scnTouched' = scnTouched \cup ScnActive
    /\ UNCHANGED <<scnOpens, scnBatch, scnCall, scnWatch>>

ScnCloseWatches ==
    /\ scnClosing = "watches" /\ scnClosing' = "filters"
    /\ scnWatch' = [w \in ScnWatches |->
          IF scnWatch[w].pc = "listed" THEN [ScnNoWatch EXCEPT !.pc = "gone"]
          ELSE scnWatch[w]]
    /\ UNCHANGED <<scnSession, scnBatch, scnCall, scnTouched>>

(* FilterSession::cancel.                                                  *)
ScnCancelled(filter) ==
    [filter EXCEPT !.cancelled = TRUE, !.status = "cancelled"]

ScnCloseFilters ==
    /\ scnClosing = "filters" /\ scnClosing' = "no"
    /\ scnCall' = [c \in ScnCalls |->
          IF scnCall[c].listed THEN [ScnCancelled(scnCall[c]) EXCEPT !.listed = FALSE]
          ELSE scnCall[c]]
    /\ UNCHANGED <<scnSession, scnBatch, scnWatch, scnTouched>>

----------------------------------------
(* Calls.                                                                  *)

(* Every call first learns how long the source is, and what it will look   *)
(* at follows from that.                                                   *)
ScnBegin(c, asked) ==
    /\ scnCall[c].pc = "idle" /\ ScnLive
    /\ LET total == Len(scnText)
           call == [ScnIdle EXCEPT !.req = asked @@ [total |-> total],
                                   !.order = ScnOrder(asked, total)]
       IN  scnCall' = [scnCall EXCEPT ![c] =
             CASE asked.kind = "filter" -> [call EXCEPT !.pc = "insert"]
               [] asked.kind = "window" -> [call EXCEPT !.pc = "render",
                                                        !.matches = call.order]
               [] asked.kind = "page" -> [call EXCEPT !.pc = "done",
                                                      !.matches = call.order]
               [] OTHER -> ScnGoOn(call)]
    /\ UNCHANGED <<scnSession, scnBatch, scnWatch, scnClosing, scnTouched>>

(* filters::create lists the filter and spawns its scan.                   *)
ScnInsert(c) ==
    /\ scnCall[c].pc = "insert"
    /\ scnCall' = [scnCall EXCEPT ![c].pc = "test", ![c].listed = TRUE,
                                  ![c].status = "scanning"]
    /\ UNCHANGED <<scnSession, scnBatch, scnWatch, scnClosing, scnTouched>>

MutScnScanGoesOn(filter) == filter.pos <= Len(filter.order) /\ ~filter.cancelled
ScnScanGoesOn(filter) == filter.pos < Len(filter.order) /\ ~filter.cancelled

(* scan_filter_background, between two chunks.                             *)
ScnTest(c) ==
    /\ scnCall[c].pc = "test"
    /\ scnCall' = [scnCall EXCEPT ![c].pc =
          IF ScnScanGoesOn(scnCall[c]) THEN "chunk" ELSE "settle"]
    /\ UNCHANGED <<scnSession, scnBatch, scnWatch, scnClosing, scnTouched>>

(* One chunk.  When the session is gone a summary fails; a page of hits or *)
(* lines says that it is cut short; a filter ends its scan.                *)
ScnScanChunk(c) ==
    LET call == scnCall[c]
        found == SelectSeq(ScnChunkLines(call), LAMBDA i : ScnHit(call.req, i))
        taken == SubSeq(found, 1, ScnLow(Len(found),
                                   ScnWanted(call.req) - Len(call.matches)))
        looked == ScnLow(call.pos + ScnChunk, Len(call.order))
    IN
    /\ call.pc = "chunk"
    /\ scnCall' = [scnCall EXCEPT ![c] =
          IF ScnLive
            THEN ScnGoOn([call EXCEPT !.matches = @ \o taken, !.pos = looked])
            ELSE CASE call.req.kind = "filter" -> [call EXCEPT !.pc = "settle"]
                   [] call.req.kind = "summary" -> [call EXCEPT !.pc = "failed"]
                   [] call.req.kind = "hits" -> [call EXCEPT !.pc = "done", !.lost = TRUE]
                   [] OTHER -> [call EXCEPT !.pc = "render", !.lost = TRUE]]
    /\ UNCHANGED <<scnSession, scnBatch, scnWatch, scnClosing, scnTouched>>

(* The scan looks at the flag once more and then writes the status: a      *)
(* cancellation in between is overwritten.                                 *)
ScnSettle(c) ==
    /\ scnCall[c].pc = "settle"
    /\ scnCall' = [scnCall EXCEPT ![c].pc =
          IF scnCall[c].cancelled THEN "cancelled" ELSE "complete"]
    /\ UNCHANGED <<scnSession, scnBatch, scnWatch, scnClosing, scnTouched>>

ScnVerdict(c) ==
    /\ scnCall[c].pc \in {"complete", "cancelled"}
    /\ scnCall' = [scnCall EXCEPT ![c].status = scnCall[c].pc, ![c].pc = "done"]
    /\ UNCHANGED <<scnSession, scnBatch, scnWatch, scnClosing, scnTouched>>

(* collect_window reads the lines it settled on: what cannot be read is    *)
(* left out for an agent, and is an empty line in the viewer.              *)
ScnRender(c) ==
    LET call == scnCall[c]
        chosen == IF call.req.kind = "lines" /\ call.req.sel.by = "recent"
                    THEN Reverse(call.matches) ELSE call.matches
        shown == IF call.req.skip THEN SelectSeq(chosen, ScnReadable) ELSE chosen
    IN
    /\ call.pc = "render"
    /\ scnCall' = [scnCall EXCEPT ![c] =
          IF ScnLive THEN [call EXCEPT !.pc = "done", !.matches = shown]
          ELSE [call EXCEPT !.pc = "failed"]]
    /\ UNCHANGED <<scnSession, scnBatch, scnWatch, scnClosing, scnTouched>>

(* filters::cancel, and filters::close, which takes it off the list too.   *)
ScnCancel(c, close) ==
    /\ scnCall[c].listed
    /\ (close \/ ~scnCall[c].cancelled)
    /\ scnCall' = [scnCall EXCEPT ![c] =
          [ScnCancelled(scnCall[c]) EXCEPT !.listed = ~close]]
    /\ UNCHANGED <<scnSession, scnBatch, scnWatch, scnClosing, scnTouched>>

(* watches::create looks the session up and then lists the watch.          *)
ScnWatchCheck(w, want) ==
    /\ scnWatch[w].pc = "none" /\ ScnLive
    /\ scnWatch' = [scnWatch EXCEPT ![w].pc = "check", ![w].want = want]
    /\ UNCHANGED <<scnSession, scnBatch, scnCall, scnClosing, scnTouched>>

ScnWatchList(w) ==
    /\ scnWatch[w].pc = "check"
    /\ scnWatch' = [scnWatch EXCEPT ![w].pc = "listed", ![w].active = TRUE,
                                    ![w].from = Len(scnText) - Len(scnBatch)]
    /\ UNCHANGED <<scnSession, scnBatch, scnCall, scnClosing, scnTouched>>

ScnWatchCancel(w) ==
    /\ scnWatch[w].active
    /\ scnWatch' = [scnWatch EXCEPT ![w].active = FALSE]
    /\ UNCHANGED <<scnSession, scnBatch, scnCall, scnClosing, scnTouched>>

ScnStep(c) ==
    \/ ScnInsert(c) \/ ScnTest(c) \/ ScnScanChunk(c)
    \/ ScnSettle(c) \/ ScnVerdict(c) \/ ScnRender(c)

ScnBatches == {<<x>> : x \in ScnWords} \cup {<<x, y>> : x, y \in ScnWords}

ScnNext ==
    \/ ScnOpenFile \/ ScnIndexMore \/ ScnOpenStream
    \/ \E b \in ScnBatches, e \in {{}} \cup {{i} : i \in 0..(ScnMaxLines - 1)} :
          ScnArrive(b, e)
    \/ ScnEvaluate \/ ScnCloseSession \/ ScnCloseWatches \/ ScnCloseFilters
    \/ \E c \in ScnCalls : \/ ScnStep(c)
                            \/ \E r \in ScnRequests : ScnBegin(c, r)
                            \/ \E close \in BOOLEAN : ScnCancel(c, close)
    \/ \E w \in ScnWatches : \/ ScnWatchList(w) \/ ScnWatchCancel(w)
                              \/ \E k \in ScnCriteria : ScnWatchCheck(w, k)

ScnSpec == ScnInit /\ [][ScnNext]_scnVars

----------------------------------------
(* Properties. *)

(* What a call would find if it looked at all its lines in one step.       *)
ScnExpected(call) ==
    LET all == IF call.req.kind \in {"window", "page"} THEN call.order
               ELSE SelectSeq(call.order, LAMBDA i : ScnHit(call.req, i))
    IN  SubSeq(all, 1, ScnLow(Len(all), ScnWanted(call.req)))

ScnShown(call) ==
    LET found == ScnExpected(call)
        sorted == IF call.req.kind = "lines" /\ call.req.sel.by = "recent"
                    THEN Reverse(found) ELSE found
    IN  IF "skip" \in DOMAIN call.req /\ call.req.skip
          THEN SelectSeq(sorted, ScnReadable) ELSE sorted

(* A call whose session stays open and loses no line finds, chunk by chunk *)
(* and with lines arriving all the while, exactly the lines it would find  *)
(* in one step: none twice, none between two chunks left out; a filter     *)
(* says `complete' only when it has them all, and goes on growing at the   *)
(* end until then, so that the pages read from it stay what they were.     *)
ScnScansFaithful ==
    \A c \in ScnCalls \ scnTouched :
      LET call == scnCall[c] IN
      /\ call.pc \in {"test", "chunk", "settle"} =>
           IsPrefix(call.matches, ScnExpected(call))
      /\ call.pc = "done" /\ (call.req.kind = "filter" => ~call.cancelled) =>
           call.matches = ScnShown(call)
      /\ call.status = "complete" => call.matches = ScnExpected(call)

(* Off the list means on its way out: the scan of a filter that was closed *)
(* or whose session was closed is told so.                                 *)
ScnUnlistedStops ==
    \A c \in ScnCalls :
      scnCall[c].status # "none" /\ ~scnCall[c].listed => scnCall[c].cancelled

(* An active watch has counted every line since it was listed once, but    *)
(* for those of the batch under way; so a watch and a filter created after *)
(* it miss no line between them.                                           *)
ScnWatchExact ==
    \A w \in ScnWatches :
      LET watch == scnWatch[w] IN
      watch.pc = "listed" /\ watch.active /\ scnOpen = "stream" =>
        watch.count = Cardinality({i \in watch.from..(Len(scnText) - Len(scnBatch) - 1) :
                                     ScnAccepts(watch.want, scnText[i + 1])})

ScnReadingSound == ScnScansFaithful /\ ScnUnlistedStops /\ ScnWatchExact

(* A filter's scan comes to an end, whatever becomes of its session.       *)
ScnFilterSettles ==
    \A c \in ScnCalls : scnCall[c].status = "scanning" ~> scnCall[c].status # "scanning"

(* LinePage.truncated: a filtered query that found less than it was asked  *)
(* for and does not say it was cut short has looked at its whole range.    *)
(* Refuted for a query around a line (OneQuery of MCScans), which only     *)
(* looks at a part of the range.                                           *)
ScnUntruncatedIsAll ==
    \A c \in ScnCalls \ scnTouched :
      LET call == scnCall[c] IN
      call.pc = "done" /\ call.req.kind = "lines" /\ ~ScnTruncated(call) =>
        \/ Len(call.matches) >= ScnBudget(call.req.sel)
        \/ \A i \in ScnLow(call.req.from, call.req.total)..
                    (ScnLow(call.req.to, call.req.total) - 1) :
              ScnHit(call.req, i) => i \in ToSet(call.matches)
=============================================================================
