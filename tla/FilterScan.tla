----------------------------- MODULE FilterScan -----------------------------
(***************************************************************************)
(* The filter of a query bar (query/filterScan.ts): each expression starts *)
(* a scan, either by a filter of the back end whose pages the window asks  *)
(* for as its progress events come (services/filters.rs), or by reading    *)
(* the log window by window; a live capture adds the lines it brings while *)
(* the filter is on (viewer/createStreamSession.ts).                       *)
(*                                                                         *)
(* A scan is known by its generation.  The window's own code runs between  *)
(* two awaits without interruption; answers, events and the batches of the *)
(* capture come in any order relative to each other, each kind in the      *)
(* order it was sent.  A cancel or close that the window sends takes       *)
(* effect at once: nothing the window shows depends on when it does.       *)
(***************************************************************************)
EXTENDS FilterExpr, Integers

CONSTANTS
    FscExprs,     \* expressions the user may type
    FscInvalid,   \* whether the back end may reject a filter
    FscFile,      \* the lines of the session, of which some come later
    FscFirst,     \* how many of them are there at first
    FscPage,      \* MAX_FILTERED_PAGE, and the window of a full scan
    FscChunk,     \* SCAN_BATCH_SIZE
    FscMaxGen,    \* bound: expressions typed
    FscMaxFail    \* bound: fetches that fail

ASSUME FscAssumption ==
    /\ FscPage \in Nat \ {0} /\ FscChunk \in Nat \ {0}
    /\ FscFirst \in 0 .. Len(FscFile)

VARIABLES
    fscLive,      \* whether the session captures: its new lines come as batches
    fscLines,     \* lines the source has
    fscBatches,   \* lines of the capture on their way to the window
    fscGen,       \* the generation
    fscExpr,      \* the committed expression
    fscMerged,    \* the generation's matches
    fscShown,     \* the lines shown and the generation they are of
    fscPhase,     \* phase, and whether an error is shown
    fscActive,    \* the filter to tear down
    fscStored,    \* the scan whose listener is to be removed
    fscRun,       \* the scans, by generation
    fscFilter,    \* the filters of the back end, by generation
    fscFails,     \* fetches that failed (bound)
    fscCut,       \* generations whose full scan gave up at a failure (history)
    fscDeaf       \* generations whose last event found no listener (history)

fscSource == <<fscLive, fscLines, fscBatches>>
fscView == <<fscGen, fscExpr, fscMerged, fscShown, fscPhase, fscActive, fscStored>>
fscGhost == <<fscFails, fscCut, fscDeaf>>
fscVars == <<fscSource, fscView, fscRun, fscFilter, fscGhost, fltExpr>>

FscGens == 1 .. FscMaxGen
FscNoExpr == [kind |-> "none"]
FscNoSet == [gen |-> 0, lines |-> {}]
FscIdle == [pc |-> "idle", expr |-> FscNoExpr, at |-> 0, over |-> FALSE,
            events |-> <<>>, want |-> 0, last |-> FALSE, listens |-> FALSE]
FscNoFilter == [status |-> "none", open |-> FALSE, total |-> 0, scanned |-> 0, matches |-> <<>>]

FscInit ==
    /\ fscLive \in BOOLEAN
    /\ fscLines = SubSeq(FscFile, 1, FscFirst) /\ fscBatches = <<>>
    /\ fscGen = 0 /\ fscExpr = FscNoExpr /\ fscMerged = {} /\ fscShown = FscNoSet
    /\ fscPhase = [phase |-> "idle", error |-> FALSE] /\ fscActive = 0 /\ fscStored = 0
    /\ fscRun = [g \in FscGens |-> FscIdle]
    /\ fscFilter = [g \in FscGens |-> FscNoFilter]
    /\ fscFails = 0 /\ fscCut = {} /\ fscDeaf = {}
    /\ fltExpr \in FltExprs

FscTypeOK ==
    /\ fscLive \in BOOLEAN /\ fscGen \in 0 .. FscMaxGen /\ fscMerged \subseteq DOMAIN fscLines
    /\ fscShown.lines \subseteq DOMAIN fscLines
    /\ fscPhase.phase \in {"idle", "scanning", "done", "error"}
    /\ {fscActive, fscStored} \subseteq 0 .. FscMaxGen
    /\ \A g \in FscGens : fscRun[g].pc \in {"idle", "create", "answer", "listen", "listening",
                                            "fetch", "window"}
    /\ \A g \in FscGens : fscFilter[g].status \in {"none", "scanning", "ended", "cancelled"}

----------------------------------------
(* Lines of the session come in; those of a capture are sent to the window *)
(* too, those of a file that is being indexed are not.                     *)
FscArrive ==
    /\ Len(fscLines) < Len(FscFile)
    /\ fscLines' = SubSeq(FscFile, 1, Len(fscLines) + 1)
    /\ fscBatches' = IF fscLive THEN Append(fscBatches, Len(fscLines) + 1) ELSE fscBatches
    /\ UNCHANGED <<fscLive, fscView, fscRun, fscFilter, fscGhost, fltExpr>>

FscWanted(e, i) == e # FscNoExpr /\ FltMatches(e, fscLines[i])

FscShow(merged) == fscShown' = [gen |-> fscGen, lines |-> merged]

(* handleBatch and appendMatches.                                          *)
FscHearBatch ==
    /\ fscBatches # <<>>
    /\ fscBatches' = Tail(fscBatches)
    /\ IF FscWanted(fscExpr, Head(fscBatches))
       THEN /\ fscMerged' = fscMerged \cup {Head(fscBatches)}
            /\ FscShow(fscMerged')
       ELSE UNCHANGED <<fscMerged, fscShown>>
    /\ UNCHANGED <<fscLive, fscLines, fscGen, fscExpr, fscPhase, fscActive, fscStored, fscRun,
                   fscFilter, fscGhost, fltExpr>>

----------------------------------------
(* cancelFilter and closeFilter, for the filters of some generations.      *)
FscClosed(gens) ==
    [g \in FscGens |-> IF g \in gens
                       THEN [fscFilter[g] EXCEPT !.open = FALSE,
                               !.status = IF @ = "scanning" THEN "cancelled" ELSE @]
                       ELSE fscFilter[g]]
(* teardownBackendFilter: the active filter goes, and the stored listener. *)
FscTeardown(run) ==
    /\ fscFilter' = FscClosed({fscActive})
    /\ fscActive' = 0 /\ fscStored' = 0
    /\ fscRun' = [g \in FscGens |-> IF g = fscStored THEN [run[g] EXCEPT !.listens = FALSE]
                                    ELSE run[g]]

FscStarted(e) == [FscIdle EXCEPT !.expr = e,
                    !.pc = IF FltFrom(e).found THEN "create" ELSE "window"]

(* setExpression with an expression: what was committed goes at once, the  *)
(* lines that are shown stay until the new scan has some.                  *)
FscSetExpression(e) ==
    /\ fscGen < FscMaxGen
    /\ fscGen' = fscGen + 1 /\ fscExpr' = e /\ fscMerged' = {}
    /\ FscTeardown([fscRun EXCEPT ![fscGen + 1] = FscStarted(e)])
    /\ fscPhase' = [phase |-> "scanning", error |-> FALSE]
    /\ UNCHANGED <<fscSource, fscShown, fscGhost, fltExpr>>

(* setExpression with nothing or with what does not parse, and cancel.     *)
FscClear(phase) ==
    /\ fscGen < FscMaxGen
    /\ fscGen' = fscGen + 1 /\ fscExpr' = FscNoExpr /\ fscMerged' = {}
    /\ FscTeardown(fscRun)
    /\ fscShown' = FscNoSet /\ fscPhase' = [phase |-> phase, error |-> phase = "error"]
    /\ UNCHANGED <<fscSource, fscGhost, fltExpr>>

----------------------------------------
(* filters::create: the filter covers the lines of the moment.             *)
FscCreate(g) ==
    /\ fscRun[g].pc = "create"
    /\ fscFilter' = [fscFilter EXCEPT ![g] = [@ EXCEPT !.status = "scanning", !.open = TRUE,
                                                       !.total = Len(fscLines)]]
    /\ fscRun' = [fscRun EXCEPT ![g].pc = "answer"]
    /\ UNCHANGED <<fscSource, fscView, fscGhost, fltExpr>>

(* The rejection of an invalid regex.                                      *)
FscRejected(g) ==
    /\ fscRun[g].pc = "create" /\ FscInvalid
    /\ fscRun' = [fscRun EXCEPT ![g].pc = "idle"]
    /\ IF g = fscGen
       THEN /\ fscExpr' = FscNoExpr /\ fscMerged' = {} /\ fscShown' = FscNoSet
            /\ fscPhase' = [phase |-> "error", error |-> TRUE]
       ELSE UNCHANGED <<fscExpr, fscMerged, fscShown, fscPhase>>
    /\ UNCHANGED <<fscSource, fscGen, fscActive, fscStored, fscFilter, fscGhost, fltExpr>>

(* Its answer: a scan that was superseded gives the filter back, the other *)
(* asks to be told of progress.                                            *)
FscCreated(g) ==
    /\ fscRun[g].pc = "answer"
    /\ IF g = fscGen
       THEN /\ fscActive' = g
            /\ fscRun' = [fscRun EXCEPT ![g].pc = "listen"]
            /\ UNCHANGED fscFilter
       ELSE /\ fscFilter' = FscClosed({g})
            /\ fscRun' = [fscRun EXCEPT ![g].pc = "idle"]
            /\ UNCHANGED fscActive
    /\ UNCHANGED <<fscSource, fscGen, fscExpr, fscMerged, fscShown, fscPhase, fscStored, fscGhost, fltExpr>>

(* The listener is registered, and then the window hears that it is.       *)
FscListen(g) ==
    /\ fscRun[g].pc = "listen"
    /\ fscRun' = [fscRun EXCEPT ![g].listens = TRUE, ![g].pc = "listening"]
    /\ UNCHANGED <<fscSource, fscView, fscFilter, fscGhost, fltExpr>>

FscListening(g) ==
    /\ fscRun[g].pc = "listening"
    /\ IF fscRun[g].over \/ g # fscGen
       THEN /\ fscRun' = [fscRun EXCEPT ![g].listens = FALSE, ![g].pc = "idle"]
            /\ UNCHANGED fscStored
       ELSE /\ fscStored' = g
            /\ fscRun' = [fscRun EXCEPT ![g].pc = "idle"]
    /\ UNCHANGED <<fscSource, fscGen, fscExpr, fscMerged, fscShown, fscPhase, fscActive,
                   fscFilter, fscGhost, fltExpr>>

----------------------------------------
(* The back end's scan.                                                    *)

FscTold(g, f, done) ==
    fscRun' = [fscRun EXCEPT ![g].events =
                 IF fscRun[g].listens
                 THEN Append(@, [count |-> Len(f.matches), done |-> done]) ELSE @]

FscOffered(e, i) == FltOffers(FltFrom(e).criteria, fscLines[i])

(* One batch, with a progress event at the intervals and at the end.       *)
FscScan(g) ==
    LET f == fscFilter[g]
        end == IF f.scanned + FscChunk < f.total THEN f.scanned + FscChunk ELSE f.total
        hits == SelectSeq([k \in 1 .. end - f.scanned |-> f.scanned + k],
                          LAMBDA i : FscOffered(fscRun[g].expr, i))
        f2 == [f EXCEPT !.scanned = end, !.matches = @ \o hits] IN
    /\ f.status = "scanning" /\ f.scanned < f.total
    /\ fscFilter' = [fscFilter EXCEPT ![g] = f2]
    /\ FscTold(g, f2, end = f.total)
    /\ UNCHANGED <<fscSource, fscView, fscGhost, fltExpr>>

(* The end of the scan, or what a cancel left of it.                       *)
FscScanEnds(g) ==
    LET f == fscFilter[g] IN
    /\ \/ f.status = "scanning" /\ f.scanned = f.total
       \/ f.status = "cancelled"
    /\ fscFilter' = [fscFilter EXCEPT ![g].status = "ended"]
    /\ FscTold(g, f, TRUE)
    /\ fscDeaf' = IF fscRun[g].listens THEN fscDeaf ELSE fscDeaf \cup {g}
    /\ UNCHANGED <<fscSource, fscView, fscFails, fscCut, fltExpr>>

----------------------------------------
(* handleProgress, of which one at a time runs.                            *)

(* A mutant: an event of a superseded scan is handled like any other.      *)
MutFscCurrent(g) == g \in FscGens
FscCurrent(g) == g = fscGen

(* The scan is over: the filter is closed, the listener removed, and what  *)
(* was not loaded is owned up to.                                          *)
FscFinish(g, run, merged) ==
    /\ fscFilter' = FscClosed({g})
    /\ fscActive' = IF fscActive = g THEN 0 ELSE fscActive
    /\ fscStored' = IF fscStored = g THEN 0 ELSE fscStored
    /\ fscRun' = [fscRun EXCEPT ![g] = [run EXCEPT !.over = TRUE,
                                          !.listens = @ /\ fscStored # g, !.want = 0]]
    /\ fscMerged' = merged /\ FscShow(merged)
    /\ fscPhase' = [phase |-> "done", error |-> fscPhase.error \/ run.want > run.at]

(* The next page is asked for until the count of the event is reached.     *)
FscGoesOn(g, run, merged) ==
    IF run.at < run.want
    THEN /\ fscRun' = [fscRun EXCEPT ![g] = run]
         /\ fscMerged' = merged
         /\ IF merged = fscMerged THEN UNCHANGED fscShown ELSE FscShow(merged)
         /\ UNCHANGED <<fscFilter, fscActive, fscStored, fscPhase>>
    ELSE IF run.last
    THEN FscFinish(g, run, merged)
    ELSE /\ fscRun' = [fscRun EXCEPT ![g] = [run EXCEPT !.want = 0]]
         /\ fscMerged' = merged
         /\ IF merged = fscMerged THEN UNCHANGED fscShown ELSE FscShow(merged)
         /\ UNCHANGED <<fscFilter, fscActive, fscStored, fscPhase>>

FscHandling(g) == fscRun[g].want > 0
FscBusy(g) == FscHandling(g) \/ fscRun[g].events # <<>>

FscHandle(g) ==
    LET run == fscRun[g]
        e == Head(run.events)
        next == [run EXCEPT !.events = Tail(@), !.want = e.count, !.last = e.done] IN
    /\ ~FscHandling(g) /\ run.events # <<>>
    /\ IF run.over
       THEN /\ fscRun' = [fscRun EXCEPT ![g].events = Tail(@)]
            /\ UNCHANGED <<fscFilter, fscActive, fscStored, fscMerged, fscShown, fscPhase>>
       ELSE IF ~FscCurrent(g)
       THEN /\ fscFilter' = FscClosed({g})
            /\ fscRun' = [fscRun EXCEPT ![g] = [@ EXCEPT !.events = Tail(@), !.over = TRUE,
                                                  !.listens = @ /\ fscRun[g].pc # "idle"]]
            /\ UNCHANGED <<fscActive, fscStored, fscMerged, fscShown, fscPhase>>
       ELSE FscGoesOn(g, next, fscMerged)
    /\ UNCHANGED <<fscSource, fscGen, fscExpr, fscGhost, fltExpr>>

FscLow(x, y) == IF x < y THEN x ELSE y

(* A mutant: the cursor advances by what was asked for, not what came.     *)
MutFscAdvance(run, page) == run.want
FscAdvance(run, page) == run.at + Len(page)

(* A mutant: the second pass is left out.                                  *)
MutFscConfirmed(e, page) == ToSet(page)
FscConfirmed(e, page) ==
    {i \in ToSet(page) : FltFrom(e).js => FltMatches(e, fscLines[i])}

(* A page of the filter; one of a superseded scan is dropped.              *)
FscFetched(g) ==
    LET run == fscRun[g]
        page == SubSeq(fscFilter[g].matches, run.at + 1,
                       FscLow(run.at + FscPage, run.want)) IN
    /\ FscHandling(g) /\ fscFilter[g].open
    /\ IF run.over \/ ~FscCurrent(g)
       THEN /\ fscRun' = [fscRun EXCEPT ![g].want = 0]
            /\ UNCHANGED <<fscFilter, fscActive, fscStored, fscMerged, fscShown, fscPhase>>
       ELSE FscGoesOn(g, [run EXCEPT !.at = FscAdvance(run, page)],
                      fscMerged \cup FscConfirmed(run.expr, page))
    /\ UNCHANGED <<fscSource, fscGen, fscExpr, fscGhost, fltExpr>>

(* A fetch that fails: of a filter that is closed, or for another reason.  *)
(* The next event asks again; after the last there is none.                *)
FscFetchFails(g) ==
    LET run == fscRun[g] IN
    /\ FscHandling(g)
    /\ IF fscFilter[g].open THEN fscFails < FscMaxFail /\ fscFails' = fscFails + 1
       ELSE UNCHANGED fscFails
    /\ IF run.last /\ FscCurrent(g)
       THEN FscFinish(g, run, fscMerged)
       ELSE /\ fscRun' = [fscRun EXCEPT ![g].want = 0, ![g].over = @ \/ run.last,
                                        ![g].listens = @ /\ (~run.last \/ run.pc # "idle")]
            /\ fscFilter' = IF run.last THEN FscClosed({g}) ELSE fscFilter
            /\ UNCHANGED <<fscActive, fscStored, fscMerged, fscShown, fscPhase>>
    /\ UNCHANGED <<fscSource, fscGen, fscExpr, fscCut, fscDeaf, fltExpr>>

----------------------------------------
(* runFallbackScan: windows of the log until the total of the last window, *)
(* shown as they come; a failed read ends the scan.                        *)
FscWindow(g) ==
    LET run == fscRun[g]
        end == FscLow(run.at + FscPage, Len(fscLines))
        merged == fscMerged \cup {i \in run.at + 1 .. end : FltMatches(run.expr, fscLines[i])} IN
    /\ run.pc = "window"
    /\ IF ~FscCurrent(g)
       THEN /\ fscRun' = [fscRun EXCEPT ![g].pc = "idle"]
            /\ UNCHANGED <<fscMerged, fscShown, fscPhase>>
       ELSE /\ fscMerged' = merged /\ FscShow(merged)
            /\ fscRun' = [fscRun EXCEPT ![g].at = end,
                            ![g].pc = IF end = Len(fscLines) THEN "idle" ELSE @]
            /\ fscPhase' = IF end = Len(fscLines) THEN [fscPhase EXCEPT !.phase = "done"]
                           ELSE fscPhase
    /\ UNCHANGED <<fscSource, fscGen, fscExpr, fscActive, fscStored, fscFilter, fscGhost, fltExpr>>

FscWindowFails(g) ==
    /\ fscRun[g].pc = "window" /\ fscFails < FscMaxFail
    /\ fscFails' = fscFails + 1 /\ fscCut' = fscCut \cup {g}
    /\ fscRun' = [fscRun EXCEPT ![g].pc = "idle"]
    /\ IF FscCurrent(g)
       THEN FscShow(fscMerged) /\ fscPhase' = [fscPhase EXCEPT !.phase = "done"]
       ELSE UNCHANGED <<fscShown, fscPhase>>
    /\ UNCHANGED <<fscSource, fscGen, fscExpr, fscMerged, fscActive, fscStored, fscFilter,
                   fscDeaf, fltExpr>>

FscRunStep(g) ==
    \/ FscCreate(g) \/ FscRejected(g) \/ FscCreated(g) \/ FscListen(g) \/ FscListening(g)
    \/ FscHandle(g) \/ FscFetched(g) \/ FscFetchFails(g) \/ FscWindow(g) \/ FscWindowFails(g)
FscBackStep(g) == FscScan(g) \/ FscScanEnds(g)

FscNext ==
    \/ FscArrive \/ FscHearBatch
    \/ \E e \in FscExprs : FscSetExpression(e)
    \/ \E phase \in {"idle", "error"} : FscClear(phase)
    \/ \E g \in FscGens : FscRunStep(g) \/ FscBackStep(g)

FscSpec == FscInit /\ [][FscNext]_fscVars
FscFairness ==
    /\ WF_fscVars(FscHearBatch)
    /\ \A g \in FscGens : WF_fscVars(FscRunStep(g)) /\ WF_fscVars(FscBackStep(g))
FscFairSpec == FscSpec /\ FscFairness

----------------------------------------
FscSettled(g) == ~FscBusy(g) /\ fscRun[g].pc = "idle"

(* The lines that are shown are wanted by the expression they are shown    *)
(* for, and once a scan reports that it is done they are all of them: of a *)
(* capture all that came, of a file all that were there when the scan      *)
(* began.  Unless it says that some are missing, or a full scan met an     *)
(* error, which it does not say (filterScan.ts:516-518).                   *)
FscShownIsWanted ==
    fscShown.gen = fscGen => \A i \in fscShown.lines : FscWanted(fscExpr, i)

FscDoneIsComplete ==
    fscPhase = [phase |-> "done", error |-> FALSE] /\ fscGen \notin fscCut =>
      /\ fscShown.gen = fscGen
      /\ \A i \in DOMAIN fscLines :
           /\ FscWanted(fscExpr, i)
           /\ IF fscLive THEN i \notin ToSet(fscBatches)
              ELSE i <= IF fscRun[fscGen].at > 0 /\ fscFilter[fscGen].status = "none"
                        THEN fscRun[fscGen].at ELSE fscFilter[fscGen].total
           => i \in fscShown.lines

(* No filter is left open in the back end, and no listener in the window,  *)
(* by a scan that nothing waits for any more; a scan whose last event      *)
(* found no listener still holds both, until the next expression.          *)
FscNothingLeft ==
    \A g \in FscGens :
      FscSettled(g) /\ (g # fscGen \/ fscPhase.phase # "scanning") =>
        ~fscFilter[g].open /\ ~fscRun[g].listens

FscScanSound == FscShownIsWanted /\ FscDoneIsComplete /\ FscNothingLeft

(* A scan comes to an end (filterScan.ts:88): refuted when the back end    *)
(* finishes before the window listens.                                     *)
FscScanEndsAtLast == (fscPhase.phase = "scanning") ~> (fscPhase.phase # "scanning")
(* It does when the last event finds a listener.                           *)
FscHeardScanEnds ==
    \A g \in FscGens :
      (fscGen = g /\ fscPhase.phase = "scanning")
        ~> (fscGen # g \/ fscPhase.phase # "scanning" \/ g \in fscDeaf)
=============================================================================
