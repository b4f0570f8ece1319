------------------------------- MODULE Viewer -------------------------------
(***************************************************************************)
(* The rows of one session in one pane of the window                       *)
(* (viewer/cacheBinding.ts over viewport/FetchScheduler.ts,                *)
(* viewport/CacheDataSource.ts, cache/CacheManager.ts and                  *)
(* viewer/controller.ts), down to `get_lines', which answers with the text *)
(* of the moment it runs.                                                  *)
(*                                                                         *)
(* A line is its number; its content is the version of the text the back   *)
(* end renders it from: reopening the file as another type and entering or *)
(* leaving the anonymizer mode that redacts the window's pages give every  *)
(* line a new one.  The effects of one reactive flush run to completion    *)
(* before anything else does, so each of the window's callbacks is a       *)
(* function of the binding's state `vw'.  The velocity of a scroll is a    *)
(* choice.                                                                 *)
(***************************************************************************)
EXTENDS Integers, Sequences, FiniteSets, SequencesExt, FiniteSetsExt

CONSTANTS
    VwLines,     \* lines the file has when the session opens
    VwRows,      \* rows the pane shows, the overscan included
    VwAhead,     \* lines fetched beyond the window (prefetchLines)
    VwMinFetch,  \* the least a full fetch asks for (MIN_FETCH)
    VwAlloc,     \* lines the view's cache holds (its allocation)
    VwLineSets,  \* the line sets a filter or a section may put on the session
    VwBudget     \* how often each of the events below may happen

ASSUME VwAssumption ==
    /\ {VwLines, VwRows, VwMinFetch, VwAlloc} \subseteq Nat \ {0}
    /\ VwAhead \in Nat

VARIABLES
    vw,        \* the binding, its scheduler, its source and its cache
    vwText,    \* the version of the text the back end renders now
    vwDue,     \* what the window has still to do about a new version
    vwLive,    \* lines captured whose batch is on its way: <<line, version>>
    vwLeft     \* what is left of the budget

vwVars == <<vw, vwText, vwDue, vwLive, vwLeft>>

VwNoRange == <<1, 0>>
VwNoFetch == <<VwNoRange, VwNoRange>>
VwWhole == {}           \* no line set; a line set S is {S}
VwSetKeys == {"filter", "section"}

(* A cached line.                                                          *)
VwEntry(n, ver) == [line |-> n, ver |-> ver]

----------------------------------------
(* What the rows stand for                                                 *)

(* The lines that have a row: those of every line set there is, or all.    *)
VwRendered(v) ==
    {n \in 1 .. v.total : \A s \in UNION {v.sets[k] : k \in VwSetKeys} : n \in s}

VwFull(v) == \A k \in VwSetKeys : v.sets[k] = VwWhole

(* The line of a row, as the source translates it.                         *)
VwLineAt(v, row) ==
    IF VwFull(v) THEN row ELSE SetToSortSeq(VwRendered(v), <)[row]

(* The row of a line, or of the nearest one that has a row.                *)
VwRowOf(v, n) ==
    LET after == {row \in 1 .. Cardinality(VwRendered(v)) : VwLineAt(v, row) >= n}
    IN  IF after = {} THEN Cardinality(VwRendered(v)) ELSE Min(after)

VwCount(v) == IF VwFull(v) THEN v.total ELSE Cardinality(VwRendered(v))

VwVisible(v) ==
    IF VwCount(v) = 0 THEN VwNoRange
    ELSE LET last == Min({v.top + VwRows - 1, VwCount(v)})
         IN  IF last < v.top THEN VwNoRange ELSE <<v.top, last>>

VwRowsOf(range) == range[1] .. range[2]

----------------------------------------
(* The cache of the view                                                   *)

VwCached(v) == {v.cache[i].line : i \in DOMAIN v.cache}
VwHit(v, row) == VwLineAt(v, row) \in VwCached(v)
VwMissing(v, range) == {row \in VwRowsOf(range) : ~VwHit(v, row)}

(* The entries with these lines become the most recent, in line order.     *)
VwTouch(cache, lines) ==
    LET Old(e) == e.line \notin lines
        New(e) == e.line \in lines
        Before(d, e) == d.line < e.line
    IN  SelectSeq(cache, Old) \o SortSeq(SelectSeq(cache, New), Before)

(* Lines are put and the least recent ones evicted.                        *)
VwPut(cache, lines, ver) ==
    LET Old(e) == e.line \notin lines
        sorted == SetToSortSeq(lines, <)
        put == SelectSeq(cache, Old)
                 \o [i \in DOMAIN sorted |-> VwEntry(sorted[i], ver)]
    IN  SubSeq(put, Max({1, Len(put) - VwAlloc + 1}), Len(put))

(* The rows are painted again from the cache: a skeleton is a row without  *)
(* an entry.                                                               *)
VwPaint(v) ==
    LET lines == {VwLineAt(v, row) : row \in VwRowsOf(VwVisible(v))}
    IN  [v EXCEPT !.shown = {e \in Range(v.cache) : e.line \in lines},
                  !.cache = VwTouch(v.cache, lines)]

----------------------------------------
(* Fetching                                                                *)

(* What `get_lines' is asked for: from the first miss on, or, under a line *)
(* set, the run of lines the missing rows lie in.                          *)
VwAsked(v, range) ==
    LET miss == VwMissing(v, range)
        first == VwLineAt(v, Min(miss))
    IN  IF miss = {} THEN {}
        ELSE IF VwFull(v) THEN first .. Max({range[2], first + VwMinFetch - 1})
        ELSE first .. VwLineAt(v, Max(miss))

VwLaunch(v, kind, src, gen, lines, ahead) ==
    [v EXCEPT !.flights = @ \union
        {[kind |-> kind, src |-> src, sgen |-> v.sgen, gen |-> gen,
          lines |-> lines, ahead |-> ahead, from |-> vwText]}]

(* The callback of the scheduler.                                          *)
VwFetch(v, range, ahead) ==
    IF v.busy THEN [v EXCEPT !.lost = TRUE]
    ELSE LET w == [v EXCEPT !.lost = FALSE]
         IN  IF VwMissing(w, range) # {}
               THEN VwLaunch([w EXCEPT !.busy = TRUE], "view", w.cb, w.gen,
                             VwAsked(w, range), ahead)
             ELSE IF VwMissing(w, ahead) # {}
               THEN VwLaunch([w EXCEPT !.busy = TRUE], "only", w.cb, w.gen,
                             VwAsked(w, ahead), VwNoRange)
             ELSE w

VwExecute(v) ==
    IF v.pending \in {VwNoFetch, v.last} THEN v
    ELSE VwFetch([v EXCEPT !.last = v.pending, !.pending = VwNoFetch],
                 v.pending[1], v.pending[2])

VwForce(v) == VwExecute([v EXCEPT !.last = VwNoFetch])

(* A range is reported: at once, or when a fast scroll has settled.        *)
VwReportScroll(v, fast) ==
    LET range == VwVisible(v)
        back == range[1] < v.pos
        ahead == IF back THEN <<Max({1, range[1] - VwAhead}), range[2]>>
                 ELSE <<range[1], Min({VwCount(v), range[2] + VwAhead})>>
        w == [v EXCEPT !.pending = <<range, ahead>>, !.pos = range[1],
                       !.fast = fast, !.timer = fast]
    IN  IF fast THEN w ELSE VwExecute(w)

(* The effect on the visible range.                                        *)
VwReport(v, fast) ==
    IF VwVisible(v) = VwNoRange THEN v
    ELSE LET cut == v.fast /\ v.busy
             w == VwReportScroll(
                    [v EXCEPT !.gen = IF cut THEN @ + 1 ELSE @,
                              !.busy = @ /\ ~cut], fast)
         IN  IF w.first THEN w ELSE VwForce([w EXCEPT !.first = TRUE])

VwReset(v) ==
    VwPaint([v EXCEPT !.gen = @ + 1, !.busy = FALSE, !.first = FALSE])

(* The effect on the controller's revision.                                *)
VwRevised(v) ==
    LET w == VwForce(VwReset(v))
    IN  IF VwVisible(w) = VwNoRange THEN w ELSE VwReportScroll(w, FALSE)

(* A line set is put or dropped: the effect on the source's id and the     *)
(* visible range first, the one on the revision after them.                *)
VwScope(v, key, lines, fast) ==
    LET w == VwReset([v EXCEPT !.sets[key] = lines, !.top = 1])
    IN  VwRevised(VwReport(w, fast))

(* The callback reads another source: what was fetched stays the old one's.*)
VwBind(v) == [v EXCEPT !.busy = FALSE, !.cb = v.src, !.zero = TRUE]

----------------------------------------
(* What happens                                                            *)

VwSpend(what) == vwLeft[what] > 0 /\ vwLeft' = [vwLeft EXCEPT ![what] = @ - 1]
VwBack == <<vwText, vwDue, vwLive>>

VwInit ==
    /\ vwText = 0
    /\ vw = VwReport(VwBind(
              [total |-> VwLines, sets |-> [k \in VwSetKeys |-> VwWhole],
               top |-> 1, pos |-> 1, cache |-> <<>>, shown |-> {},
               src |-> 1, cb |-> 1, sgen |-> 0, gen |-> 0, busy |-> FALSE,
               first |-> FALSE, pending |-> VwNoFetch, last |-> VwNoFetch,
               fast |-> FALSE, timer |-> FALSE, zero |-> TRUE,
               flights |-> {}, lost |-> FALSE, late |-> {}]), FALSE)
    /\ vwDue = "nothing"
    /\ vwLive = <<>>
    /\ vwLeft \in VwBudget

VwScroll ==
    /\ VwSpend("scrolls")
    /\ \E top \in 1 .. VwCount(vw) \ {vw.top}, fast \in BOOLEAN :
         vw' = VwReport(VwPaint([vw EXCEPT !.top = top]), fast)
    /\ UNCHANGED VwBack

(* A line is jumped to: a row out of the window becomes its first or last. *)
VwShowing(v, row) ==
    [v EXCEPT !.top = IF row < @ THEN row ELSE Max({@, row - VwRows + 1})]

VwJump ==
    /\ VwSpend("scrolls")
    /\ VwCount(vw) > 0
    /\ \E n \in 1 .. vw.total, fast \in BOOLEAN :
         LET w == VwShowing(vw, VwRowOf(vw, n))
         IN  w # vw /\ vw' = VwReport(VwPaint(w), fast)
    /\ UNCHANGED VwBack

VwSettle ==
    /\ vw.timer
    /\ vw' = VwExecute([vw EXCEPT !.timer = FALSE, !.fast = FALSE])
    /\ UNCHANGED <<vwText, vwDue, vwLive, vwLeft>>

VwZero ==
    /\ vw.zero
    /\ vw' = VwForce([vw EXCEPT !.zero = FALSE])
    /\ UNCHANGED <<vwText, vwDue, vwLive, vwLeft>>

VwSetLines ==
    /\ VwSpend("sets")
    /\ \E key \in VwSetKeys, lines \in {{s} : s \in VwLineSets} \union {VwWhole}, fast \in BOOLEAN :
         vw' = VwScope(vw, key, lines, fast)
    /\ UNCHANGED VwBack

(* Highlights are set.                                                     *)
VwHighlight ==
    /\ VwSpend("sets")
    /\ vw' = VwRevised(vw)
    /\ UNCHANGED VwBack

(* Only the callback whose generation is current owns the flag.            *)
VwRelease(v, gen) == VwForce([v EXCEPT !.busy = @ /\ gen # v.gen])

(* An invalidated source keeps what was on its way.                        *)
MutVwKept(v, f) == f.src = v.src

(* A fetch whose source was disposed or invalidated keeps nothing.         *)
VwKept(v, f) == f.src = v.src /\ f.sgen = v.sgen

VwLand(v, f, ver) ==
    IF VwKept(v, f)
      THEN [v EXCEPT !.cache = VwPut(@, f.lines \intersect (1 .. v.total), ver),
                     !.late = @ \ f.lines]
      ELSE v

VwAnswered(v, f) ==
    IF f.kind = "ahead" THEN VwRelease(v, f.gen)
    ELSE IF f.kind = "only"
      THEN VwRelease(IF f.gen = v.gen THEN VwPaint(v) ELSE v, f.gen)
    ELSE IF f.gen # v.gen THEN IF f.src = v.src THEN VwPaint(v) ELSE v
    ELSE LET w == VwPaint(v)
             more == VwAsked(w, f.ahead)
         IN  IF more = {} THEN VwRelease(w, f.gen)
             ELSE VwLaunch(w, "ahead", f.src, f.gen, more, VwNoRange)

(* `get_lines' ran at some moment since it was sent.                       *)
VwAnswer ==
    \E f \in vw.flights : \E ver \in f.from .. vwText :
        /\ vw' = VwAnswered(VwLand([vw EXCEPT !.flights = @ \ {f}], f, ver), f)
        /\ UNCHANGED <<vwText, vwDue, vwLive, vwLeft>>

VwFail ==
    /\ VwSpend("fails")
    /\ \E f \in vw.flights :
         vw' = VwRelease([vw EXCEPT !.flights = @ \ {f},
                                    !.lost = @ \/ f.kind = "view"], f.gen)
    /\ UNCHANGED VwBack

(* The back end has another text for every line: the anonymizer's mode was *)
(* changed, or the file was opened again as another type.                  *)
VwNewText ==
    /\ VwSpend("texts")
    /\ vwDue = "nothing"
    /\ vwText' = vwText + 1
    /\ vwDue' \in {"refetch"} \union
                  (IF vw.total = VwLines /\ vwLive = <<>> /\ vwLeft.lines = 0
                     THEN {"replace"} ELSE {})   \* only a file is opened as another type
    /\ UNCHANGED <<vw, vwLive>>

VwCleared(v) == [v EXCEPT !.cache = <<>>]

VwInvalidated(v) == VwRevised([VwCleared(v) EXCEPT !.sgen = @ + 1])

(* refetchSessionLines                                                     *)
VwRefetch ==
    /\ vwDue = "refetch"
    /\ vwDue' = "nothing"
    /\ vw' = VwInvalidated(vw)
    /\ UNCHANGED <<vwText, vwLive, vwLeft>>

(* The search changed: a page carries its highlights.                      *)
VwSearch ==
    /\ VwSpend("sets")
    /\ vw' = VwInvalidated(vw)
    /\ UNCHANGED VwBack

(* replace: the old callback is still bound when the revision moves.       *)
VwReplace ==
    /\ vwDue = "replace"
    /\ vwDue' = "nothing"
    /\ LET old == [VwCleared(vw) EXCEPT !.src = @ + 1]
           bare == IF VwFull(old) THEN old
                   ELSE VwRevised(VwReport(VwReset(
                          [old EXCEPT !.sets = [k \in VwSetKeys |-> VwWhole],
                                      !.top = 1]), FALSE))
       IN  vw' = VwReport(VwBind(VwRevised(bare)), FALSE)
    /\ UNCHANGED <<vwText, vwLive, vwLeft>>

(* A device line is captured: its batch is redacted, or not, by the chain  *)
(* the stream started with (resolve_stream_chain), when the text was 0.    *)
VwStreamText == 0

VwCapture ==
    /\ VwSpend("lines")
    /\ vwLive' = Append(vwLive, <<vw.total + Len(vwLive) + 1, VwStreamText>>)
    /\ UNCHANGED <<vw, vwText, vwDue>>

(* The batch is put straight into the cache.                               *)

VwBatch ==
    /\ vwLive # <<>>
    /\ vwLive' = Tail(vwLive)
    /\ LET n == Head(vwLive)[1]
           ver == Head(vwLive)[2]
           w == VwPaint([vw EXCEPT
                  !.cache = VwPut(@, {n}, ver), !.total = n,
                  !.late = IF ver # vwText THEN @ \union {n} ELSE @ \ {n}])
       IN  vw' = IF VwFull(w) THEN VwReport(w, FALSE) ELSE w
    /\ UNCHANGED <<vwText, vwDue, vwLeft>>

VwNext ==
    \/ VwScroll \/ VwJump \/ VwSettle \/ VwZero \/ VwSetLines \/ VwHighlight \/ VwSearch
    \/ VwAnswer \/ VwFail
    \/ VwNewText \/ VwRefetch \/ VwReplace
    \/ VwCapture \/ VwBatch

VwSpec == VwInit /\ [][VwNext]_vwVars

----------------------------------------
(* What the window may count on                                            *)

VwTypeOK ==
    /\ Len(vw.cache) <= VwAlloc
    /\ vw.cb <= vw.src
    /\ vw.first \in BOOLEAN /\ vw.busy \in BOOLEAN
    /\ vwText \in Nat
    /\ vwDue \in {"nothing", "refetch", "replace"}

(* Once the window has dealt with a new text, no line it holds or shows is *)
(* of the text before, whatever pages were on their way; the exception is  *)
(* a captured line put by its batch, which follows the stream's own chain. *)
VwFresh ==
    vwDue = "nothing" =>
        \A e \in Range(vw.cache) \union vw.shown :
            e.line \notin vw.late => e.ver = vwText

VwQuiet ==
    /\ vw.flights = {} /\ ~vw.timer /\ ~vw.zero
    /\ vwDue = "nothing"

(* Once nothing is on its way, the window has every line it shows a row    *)
(* for, painted or in the cache, unless the last range reported was        *)
(* dropped by the callback or its fetch failed.                            *)
VwFetched ==
    VwQuiet /\ ~vw.lost =>
        \A row \in VwRowsOf(VwVisible(vw)) :
            \/ VwHit(vw, row)
            \/ \E e \in vw.shown : e.line = VwLineAt(vw, row)

ViewerSound == VwFresh /\ VwFetched

(* Once nothing is on its way every row shows its line, whatever was in    *)
(* flight when the window moved: the fetch that ends looks at the window   *)
(* again, and paints it when it moved (cacheBinding.ts:210-211, 237-238).  *)
(* Refuted: it asks for the window of the scheduler's last report, and one *)
(* that the callback dropped while it was busy never became that.          *)
VwWindowFills ==
    VwQuiet /\ vwLeft.fails > 0 =>
        {e.line : e \in vw.shown} =
            {VwLineAt(vw, row) : row \in VwRowsOf(VwVisible(vw))}

(* The batches of a live session follow the same decision as its pages     *)
(* (App.tsx:382-383).  Refuted: a batch on its way when the text changes   *)
(* puts a line of the text before.                                         *)
VwLiveFollows == vwDue = "nothing" => \A e \in vw.shown : e.ver = vwText

=============================================================================
