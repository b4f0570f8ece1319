----------------------------- MODULE DeviceState -----------------------------
(***************************************************************************)
(* The device state panel of one session (devicestate/deviceStateStore.ts) *)
(* down to the replay of a tracker's transitions that answers it           *)
(* (services/tracker.rs).                                                  *)
(*                                                                         *)
(* A tracker's history is the set of lines with a transition; line n sets  *)
(* the field DevField[n] to the value n, and 0 is a field's default.  The  *)
(* two effects of the store run in the flush of the signal that moved, so  *)
(* each is a function of the panel's state `devPanel'.  Answers come in    *)
(* any order; time is not modelled: a timer may fire whenever it is armed. *)
(***************************************************************************)
EXTENDS Integers, Sequences, FiniteSets, FiniteSetsExt

CONSTANTS
    DevTrackers,      \* state trackers
    DevDumps,         \* those of mode `snapshot': one dump, whatever the line
    DevQuiet,         \* those with output.timeline off
    DevField,         \* the field the transition at a line changes
    DevFinds,         \* the lines a run may find
    DevNone, DevFailed,
    DevBudget         \* how often each of the events below may happen

DevLines == DOMAIN DevField
DevFields == {DevField[n] : n \in DevLines}

ASSUME DevAssumption ==
    /\ DevDumps \cup DevQuiet \subseteq DevTrackers /\ IsFiniteSet(DevTrackers)
    /\ DevLines \subseteq Nat \ {0} /\ IsFiniteSet(DevLines) /\ DevFinds \subseteq SUBSET DevLines

DevNow == Max(DevLines) + 1          \* Number.MAX_SAFE_INTEGER

(* A snapshot, and a request of the panel with its answer.  What stands    *)
(* for nothing and for a failure is neither of them, nor anything else.    *)
DevSnaps == [at : Nat, fields : [DevFields -> Nat]]
DevAsks == [of : DevTrackers, line : DevLines \cup {DevNow}, keep : Nat \cup {DevNone},
            answer : DevSnaps \cup {DevNone, DevFailed}]

ASSUME DevNoneAssumption ==
    /\ DevNone # DevFailed /\ DevNone \notin DevTrackers
    /\ \A no \in {DevNone, DevFailed} :
         /\ \A lines \in SUBSET DevLines : no # lines
         /\ no \notin Nat /\ no \notin DevSnaps /\ no \notin DevAsks

VARIABLES
    devRuns,      \* state_tracker_results: the lines a run found, or DevNone
    devStream,    \* stream_tracker_state: the lines the capture found, or DevNone
    devStored,    \* pipeline runs stored by the back end
    devSeen,      \* lastRunAt: the one the window has heard of, 0 for null
    devChain,     \* analyzers.trackers(session), in the order of the chain
    devPick,      \* selectedOverride
    devLive,      \* whether the session's kind is `live'
    devCursor,    \* the line of the cursor, 0 for no cursor, -1 in another session
    devPanel,     \* the SessionDeviceState of the session
    devHist,      \* the TrackerRuntime of each tracker
    devUpdates,   \* adb-tracker-update events on their way
    devLeft       \* what is left of the budget

devVars == <<devRuns, devStream, devStored, devSeen, devChain, devPick, devLive,
             devCursor, devPanel, devHist, devUpdates, devLeft>>

DevElsewhere == -1
DevChains == UNION {{c \in [1 .. n -> DevTrackers] : Cardinality({c[i] : i \in 1 .. n}) = n} :
                       n \in 0 .. Cardinality(DevTrackers)}
DevInChain(chain, t) == \E i \in DOMAIN chain : chain[i] = t

----------------------------------------
(* The back end                                                            *)

(* The results of a run come before what the capture has found so far.     *)
DevResolve(t) == IF devRuns[t] # DevNone THEN devRuns[t] ELSE devStream[t]

(* Mutant: the transition at the line itself is left out.                  *)
MutDevReplay(lines, upto) ==
    LET folded == {n \in lines : n < upto}
        Of(f) == {n \in folded : DevField[n] = f}
    IN  [at |-> IF folded = {} THEN 0 ELSE Max(folded),
         fields |-> [f \in DevFields |-> IF Of(f) = {} THEN 0 ELSE Max(Of(f))]]

(* The declared defaults with the changes of every transition at or before *)
(* the line put over them, the later ones last.                            *)
DevReplay(lines, upto) ==
    LET folded == {n \in lines : n <= upto}
        Of(f) == {n \in folded : DevField[n] = f}
    IN  [at |-> IF folded = {} THEN 0 ELSE Max(folded),
         fields |-> [f \in DevFields |-> IF Of(f) = {} THEN 0 ELSE Max(Of(f))]]

(* A dump is always read to its end.                                       *)
DevStateAt(t, line) ==
    IF DevResolve(t) = DevNone THEN DevFailed
    ELSE DevReplay(DevResolve(t), IF t \in DevDumps THEN DevNow ELSE line)

(* The lines of every tracker's transitions, for the marks beside the      *)
(* scroll bar: the runs' first, then the capture's for the trackers that   *)
(* have none.                                                              *)
DevAllLines ==
    LET shown == DevTrackers \ DevQuiet
        ran == {t \in shown : devRuns[t] # DevNone}
        all == ran \cup {t \in shown : devStream[t] # DevNone}
    IN  [t \in all |-> IF t \in ran THEN devRuns[t] ELSE devStream[t]]

----------------------------------------
(* The panel                                                               *)

(* The user's pick while it is still in the chain, else the first tracker. *)
DevSelect(chain, pick) ==
    IF pick # DevNone /\ DevInChain(chain, pick) THEN pick
    ELSE IF chain = <<>> THEN DevNone ELSE chain[1]

DevSelected == DevSelect(devChain, devPick)

DevBlank == [snap |-> DevNone, of |-> DevNone, changes |-> {}, loading |-> FALSE,
             timer |-> DevNone, calls |-> {}, throttled |-> FALSE, tracked |-> FALSE,
             cache |-> [t \in DevTrackers |-> DevNone]]

(* A request for the state at a line: `keep' is the run under which a      *)
(* dump's answer may be kept.                                              *)
DevAsk(t, line, keep) == [of |-> t, line |-> line, keep |-> keep, answer |-> DevNone]

(* Mutant: the requests issued so far may still answer.                    *)
MutDevBump(p) == p

(* guard.bump: no request issued so far is the current one any more.  Its  *)
(* answer changes nothing, so it is forgotten here.                        *)
DevBump(p) == [p EXCEPT !.calls = {}]

(* Fields that differ between two snapshots of one tracker.                *)
DevDiff(p, t, snap) ==
    IF p.of # t \/ p.snap = DevNone THEN {}
    ELSE {f \in DevFields : p.snap.fields[f] # snap.fields[f]}

DevApply(p, t, snap) ==
    [p EXCEPT !.changes = DevDiff(p, t, snap), !.snap = snap, !.loading = FALSE, !.of = t]

DevClear(p) ==
    [p EXCEPT !.snap = DevNone, !.changes = {}, !.loading = FALSE, !.of = DevNone]

DevFetchNow(p, t) ==
    [DevBump(p) EXCEPT !.loading = TRUE, !.calls = @ \cup {DevAsk(t, DevNow, DevNone)}]

DevLiveEffect(p, t) == IF t = DevNone THEN DevClear(p) ELSE DevFetchNow(p, t)

(* Mutant: a cursor that moves in another session clears the timer.        *)
MutDevCursorEffect(p, t, cursor, live, run) ==
    LET q == [p EXCEPT !.timer = DevNone, !.tracked = FALSE]
        kept == p.cache[t]
    IN  IF live THEN q
        ELSE IF t = DevNone THEN DevClear(q)
        ELSE IF cursor <= 0 THEN q
        ELSE IF t \in DevDumps /\ kept # DevNone /\ kept.run = run
             THEN DevApply([q EXCEPT !.tracked = TRUE], t, kept.snap)
        ELSE [DevBump(q) EXCEPT !.tracked = TRUE, !.loading = TRUE,
                 !.timer = DevAsk(t, cursor, IF t \in DevDumps THEN run ELSE DevNone)]

(* The effect that follows the cursor.  It is left at once for a cursor in *)
(* another session; it clears the timer; it leaves the signals of a live   *)
(* session alone; it takes a dump from the cache of the run; or it arms    *)
(* the timer.  It reads the chain and the run only on the last two paths.  *)
DevCursorEffect(p, t, cursor, live, run) ==
    LET q == [p EXCEPT !.timer = DevNone, !.tracked = FALSE]
        kept == p.cache[t]
    IN  IF cursor = DevElsewhere /\ ~live /\ t # DevNone THEN [p EXCEPT !.tracked = FALSE]
        ELSE IF live THEN q
        ELSE IF t = DevNone THEN DevClear(q)
        ELSE IF cursor <= 0 THEN [q EXCEPT !.loading = @ /\ p.timer = DevNone]
        ELSE IF t \in DevDumps /\ kept # DevNone /\ kept.run = run
             THEN DevApply([q EXCEPT !.tracked = TRUE], t, kept.snap)
        ELSE [DevBump(q) EXCEPT !.tracked = TRUE, !.loading = TRUE,
                 !.timer = DevAsk(t, cursor, IF t \in DevDumps THEN run ELSE DevNone)]

(* The flush after a signal moved: the two effects whose signals did.      *)
DevReact(moved) ==
    LET t == DevSelect(devChain', devPick')
        switched == t # DevSelected \/ devLive' # devLive
        p == IF switched /\ devLive' THEN DevLiveEffect(devPanel, t) ELSE devPanel
        read == devPanel.tracked /\ (devChain' # devChain \/ devSeen' # devSeen)
    IN  devPanel' = IF switched \/ moved \/ read
                    THEN DevCursorEffect(p, t, devCursor', devLive', devSeen')
                    ELSE p

----------------------------------------
(* The history of a tracker, for the navigation between transitions        *)

DevNoHist == [made |-> FALSE, fetched |-> 0, lines |-> {}, loading |-> FALSE, calls |-> {}]

(* The effect of a runtime: it fetches once per run.                       *)
DevRefetch(h, run) ==
    IF ~h.made \/ run = 0 \/ h.fetched = run THEN h
    ELSE [h EXCEPT !.fetched = run, !.loading = TRUE,
            !.calls = {[run |-> run, answer |-> DevNone]}]

(* The transition a jump goes to: the nearest one on that side, else the   *)
(* farthest on the other.                                                  *)
DevTarget(lines, cursor, direction) ==
    LET before == {n \in lines : cursor > 0 /\ n < cursor}
        after == {n \in lines : cursor > 0 /\ n > cursor}
    IN  IF direction = "prev" THEN Max(IF before = {} THEN lines ELSE before)
        ELSE Min(IF after = {} THEN lines ELSE after)

----------------------------------------
DevTypeOK ==
    /\ devRuns \in [DevTrackers -> (SUBSET DevLines) \cup {DevNone}]
    /\ devStream \in [DevTrackers -> (SUBSET DevLines) \cup {DevNone}]
    /\ devSeen \in 0 .. devStored
    /\ devChain \in DevChains /\ devPick \in DevTrackers \cup {DevNone}
    /\ devLive \in BOOLEAN /\ devCursor \in {DevElsewhere, 0} \cup DevLines
    /\ devPanel.of \in DevTrackers \cup {DevNone}
    /\ (devPanel.snap = DevNone) = (devPanel.of = DevNone)
    /\ devPanel.changes \subseteq DevFields /\ devPanel.loading \in BOOLEAN
    /\ \A t \in DevTrackers : devHist[t].fetched \in 0 .. devSeen

DevInit ==
    /\ devLive \in BOOLEAN
    /\ devRuns = [t \in DevTrackers |-> DevNone]
    /\ devStream = [t \in DevTrackers |-> IF devLive THEN {} ELSE DevNone]
    /\ devStored = 0 /\ devSeen = 0
    /\ devChain \in DevChains /\ devPick = DevNone /\ devCursor = 0
    /\ devPanel = IF devLive THEN DevLiveEffect(DevBlank, DevSelected)
                  ELSE DevCursorEffect(DevBlank, DevSelected, 0, FALSE, 0)
    /\ devHist = [t \in DevTrackers |-> DevNoHist]
    /\ devUpdates = 0
    /\ devLeft \in DevBudget

DevSpend(what) ==
    /\ devLeft[what] > 0
    /\ devLeft' = [devLeft EXCEPT ![what] = @ - 1]

(* A pipeline run over the trackers of the chain stores what it found; the *)
(* window hears of it later.                                               *)
DevRunStores ==
    /\ DevSpend("runs")
    /\ \E lines \in DevFinds :
         devRuns' = [t \in DevTrackers |-> IF DevInChain(devChain, t) THEN lines ELSE DevNone]
    /\ devStored' = devStored + 1
    /\ UNCHANGED <<devStream, devSeen, devChain, devPick, devLive, devCursor, devPanel,
                   devHist, devUpdates>>

DevRunSeen ==
    /\ devSeen < devStored
    /\ devSeen' = devStored
    /\ UNCHANGED <<devRuns, devStream, devStored, devChain, devPick, devLive, devCursor,
                   devUpdates, devLeft>>
    /\ DevReact(FALSE)
    /\ devHist' = [t \in DevTrackers |-> DevRefetch(devHist[t], devSeen')]

(* A batch of the capture ends with a transition; the event follows.       *)
DevBatch(t, n) ==
    /\ devLive /\ devStream[t] # DevNone /\ DevSpend("batches")
    /\ \A u \in DevTrackers : devStream[u] # DevNone => \A m \in devStream[u] : m < n
    /\ devStream' = [devStream EXCEPT ![t] = @ \cup {n}]
    /\ devUpdates' = devUpdates + 1
    /\ UNCHANGED <<devRuns, devStored, devSeen, devChain, devPick, devLive, devCursor,
                   devPanel, devHist>>

(* Mutant: an event that comes while a request is in flight is dropped.    *)
MutDevUpdate ==
    /\ devUpdates > 0
    /\ devUpdates' = devUpdates - 1
    /\ devPanel' = IF devLive /\ ~devPanel.loading
                   THEN [devPanel EXCEPT !.throttled = TRUE] ELSE devPanel
    /\ UNCHANGED <<devRuns, devStream, devStored, devSeen, devChain, devPick, devLive,
                   devCursor, devHist, devLeft>>

DevUpdate ==
    /\ devUpdates > 0
    /\ devUpdates' = devUpdates - 1
    /\ devPanel' = IF devLive THEN [devPanel EXCEPT !.throttled = TRUE] ELSE devPanel
    /\ UNCHANGED <<devRuns, devStream, devStored, devSeen, devChain, devPick, devLive,
                   devCursor, devHist, devLeft>>

(* The throttle's timer: the tracker and the kind are looked up anew.      *)
DevRefresh ==
    /\ devPanel.throttled
    /\ LET p == [devPanel EXCEPT !.throttled = FALSE]
       IN  devPanel' = IF devLive /\ DevSelected # DevNone THEN DevFetchNow(p, DevSelected) ELSE p
    /\ UNCHANGED <<devRuns, devStream, devStored, devSeen, devChain, devPick, devLive,
                   devCursor, devHist, devUpdates, devLeft>>

(* The capture ends.                                                       *)
DevStop ==
    /\ devLive /\ devLive' = FALSE
    /\ UNCHANGED <<devRuns, devStream, devStored, devSeen, devChain, devPick, devCursor,
                   devHist, devUpdates, devLeft>>
    /\ DevReact(FALSE)

DevEditChain(chain) ==
    /\ chain # devChain /\ DevSpend("edits")
    /\ devChain' = chain
    /\ UNCHANGED <<devRuns, devStream, devStored, devSeen, devPick, devLive, devCursor,
                   devHist, devUpdates>>
    /\ DevReact(FALSE)

DevSetSelected(t) ==
    /\ t # devPick /\ DevSpend("picks")
    /\ devPick' = t
    /\ UNCHANGED <<devRuns, devStream, devStored, devSeen, devChain, devLive, devCursor,
                   devHist, devUpdates>>
    /\ DevReact(FALSE)

(* The cursor moves: by hand, to another session, or with a jump to the    *)
(* transition before or after it.                                          *)
DevMoveTo(line) ==
    /\ devCursor' = line
    /\ DevSpend("moves")
    /\ UNCHANGED <<devRuns, devStream, devStored, devSeen, devChain, devPick, devLive,
                   devHist, devUpdates>>
    /\ DevReact(TRUE)

DevSetCursor(line) == line # devCursor /\ DevMoveTo(line)

DevJump(direction) ==
    /\ ~devLive /\ DevSelected # DevNone
    /\ devHist[DevSelected].lines # {}
    /\ DevMoveTo(DevTarget(devHist[DevSelected].lines, devCursor, direction))

(* The panel's first read of the tracker's history makes its runtime.      *)
DevLook ==
    /\ DevSelected # DevNone /\ ~devHist[DevSelected].made /\ DevSpend("looks")
    /\ devHist' = [devHist EXCEPT ![DevSelected] = DevRefetch([@ EXCEPT !.made = TRUE], devSeen)]
    /\ UNCHANGED <<devRuns, devStream, devStored, devSeen, devChain, devPick, devLive,
                   devCursor, devPanel, devUpdates>>

(* The debounce is over: the request goes out.                             *)
DevDebounced ==
    /\ devPanel.timer # DevNone
    /\ devPanel' = [devPanel EXCEPT !.timer = DevNone, !.calls = @ \cup {devPanel.timer}]
    /\ UNCHANGED <<devRuns, devStream, devStored, devSeen, devChain, devPick, devLive,
                   devCursor, devHist, devUpdates, devLeft>>

(* get_state_at_line and get_state_transitions.                            *)
DevReads(c) ==
    /\ c.answer = DevNone
    /\ devPanel' = [devPanel EXCEPT !.calls = (@ \ {c}) \cup
                      {[c EXCEPT !.answer = DevStateAt(c.of, c.line)]}]
    /\ UNCHANGED <<devRuns, devStream, devStored, devSeen, devChain, devPick, devLive,
                   devCursor, devHist, devUpdates, devLeft>>

DevReadsHist(t, c) ==
    /\ c.answer = DevNone
    /\ devHist' = [devHist EXCEPT ![t].calls = (@ \ {c}) \cup
                     {[c EXCEPT !.answer = IF DevResolve(t) = DevNone THEN DevFailed
                                           ELSE DevResolve(t)]}]
    /\ UNCHANGED <<devRuns, devStream, devStored, devSeen, devChain, devPick, devLive,
                   devCursor, devPanel, devUpdates, devLeft>>

(* The answer: a failure leaves the snapshot that is shown.                *)
DevAnswer(c) ==
    /\ c.answer # DevNone
    /\ LET p == [devPanel EXCEPT !.calls = @ \ {c}]
           q == IF c.keep = DevNone THEN p
                ELSE [p EXCEPT !.cache[c.of] = [run |-> c.keep, snap |-> c.answer]]
       IN  devPanel' = IF c.answer = DevFailed THEN [p EXCEPT !.loading = FALSE]
                       ELSE DevApply(q, c.of, c.answer)
    /\ UNCHANGED <<devRuns, devStream, devStored, devSeen, devChain, devPick, devLive,
                   devCursor, devHist, devUpdates, devLeft>>

DevAnswerHist(t, c) ==
    /\ c.answer # DevNone
    /\ LET h == [devHist[t] EXCEPT !.calls = @ \ {c}]
       IN  devHist' = [devHist EXCEPT ![t] =
             [h EXCEPT !.loading = FALSE,
                       !.lines = IF c.answer = DevFailed THEN @ ELSE c.answer]]
    /\ UNCHANGED <<devRuns, devStream, devStored, devSeen, devChain, devPick, devLive,
                   devCursor, devPanel, devUpdates, devLeft>>

DevNext ==
    \/ DevRunStores \/ DevRunSeen \/ DevUpdate \/ DevRefresh \/ DevStop \/ DevLook \/ DevDebounced
    \/ \E t \in DevTrackers, n \in DevLines : DevBatch(t, n)
    \/ \E chain \in DevChains : DevEditChain(chain)
    \/ \E t \in DevTrackers : DevSetSelected(t)
    \/ \E line \in {DevElsewhere} \cup DevLines : DevSetCursor(line)
    \/ \E direction \in {"prev", "next"} : DevJump(direction)
    \/ \E c \in devPanel.calls : DevReads(c) \/ DevAnswer(c)
    \/ \E t \in DevTrackers : \E c \in devHist[t].calls : DevReadsHist(t, c) \/ DevAnswerHist(t, c)

DevSpec == DevInit /\ [][DevNext]_devVars

----------------------------------------
(* Nothing is on its way to the panel.                                     *)
DevSettled ==
    /\ devPanel.timer = DevNone /\ devPanel.calls = {} /\ ~devPanel.throttled
    /\ devUpdates = 0 /\ devSeen = devStored
    /\ \A t \in DevTrackers : devHist[t].calls = {}

(* The panel never stays `loading' with nothing on its way, and what it    *)
(* then shows is the state at the cursor, or now, of the last run or of    *)
(* the capture so far: however the cursor, the selection, the chain, the   *)
(* runs and the answers crossed (the guard of deviceStateStore.ts).  On    *)
(* the line of a transition, that transition is part of what is shown.     *)
DevPanelSettles ==
    DevSettled =>
        /\ ~devPanel.loading
        /\ LET t == DevSelected
               claimed == t # DevNone /\
                    (IF devLive THEN devRuns[t] = DevNone
                     ELSE devCursor > 0 /\ devRuns[t] # DevNone)
               line == IF devLive THEN DevNow ELSE devCursor
           IN  claimed => /\ t \notin DevDumps => devPanel.of = t
                          /\ devPanel.of = t => devPanel.snap = DevStateAt(t, line)
                          /\ t \notin DevDumps /\ line \in DevResolve(t) =>
                                devPanel.snap.fields[DevField[line]] = line

(* The history the navigation walks is the last run's, and the marks       *)
(* beside the scroll bar are those of the same transitions.                *)
DevHistorySettles ==
    DevSettled =>
        \A t \in DevTrackers :
            /\ devHist[t].made /\ devSeen > 0 /\ devRuns[t] # DevNone =>
                  devHist[t].lines = devRuns[t] /\ ~devHist[t].loading
            /\ t \in DOMAIN DevAllLines => DevAllLines[t] = DevResolve(t)

DevSound == DevPanelSettles /\ DevHistorySettles

(* deviceStateStore.ts:170 calls the selected tracker "The tracker whose   *)
(* snapshot is displayed".  Refuted: when the request for the one selected *)
(* fails, the snapshot of the one before stays.                            *)
DevShowsTheSelected ==
    DevSettled /\ DevSelected # DevNone /\ (devLive \/ devCursor > 0) =>
        devPanel.of \in {DevNone, DevSelected}

=============================================================================
