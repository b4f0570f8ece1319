--------------------------------- MODULE Capture ---------------------------------
(***************************************************************************)
(* The window's side of live captures (viewer/createStreamSession.ts,      *)
(* stream/streamStore.ts, the live counters of analyzers/analyzerStore.ts  *)
(* and close of app/actions.ts): what it shows of a capture against what   *)
(* the back end has of it (services/stream.rs, module LiveStream).         *)
(*                                                                         *)
(* The window's code runs between two awaits without interruption.  The    *)
(* messages of a capture's channel reach it in order, but in no order with *)
(* the answers of commands and with the events of the back end.  A timer   *)
(* of no delay fires before the answer of a later start.                   *)
(***************************************************************************)
EXTENDS Naturals, Sequences

CONSTANTS
    CapMax,      \* bound: captures, and calls of start
    CapLines,    \* bound: batches of a capture
    CapBudgets   \* bounds, of which a behaviour has one: captures, stops and closes by
                 \* the user, stops and closes by agents

ASSUME CapAssumption == CapMax \in Nat /\ CapLines \in Nat

VARIABLES
    capTask,     \* stream tasks: "none", "runs", "cancelled" or "ended"
    capOpen,     \* sessions
    capTotal,    \* their lines, in batches
    capChan,     \* the channels
    capNews,     \* session-closed on its way for an agent's close
    capStart,    \* the calls of start: where they stand, and the capture
    capStop,     \* the calls of stop: sent, or answered
    capClose,    \* the calls of close
    capStatus,   \* status(): phase, session, total
    capCurrent,  \* currentSessionId, 0 for null
    capActive,   \* channelActive
    capStarting, \* starting
    capUpdates,  \* pendingProcessorUpdates
    capEntry,    \* the entry of the session store, with its live counter
    capLeft,     \* what is left of the budget (bound)
    capGhost     \* what was passed by what (history)

capBack == <<capTask, capOpen, capTotal>>
capWires == <<capChan, capNews>>
capCalls == <<capStart, capStop, capClose>>
capSession == <<capStatus, capCurrent, capActive, capStarting, capUpdates>>
capHist == <<capLeft, capGhost>>
capVars == <<capBack, capWires, capCalls, capSession, capEntry, capHist>>

CapIds == 1 .. CapMax
CapNoEntry == [shown |-> FALSE, live |-> FALSE, total |-> 0, count |-> 0]
CapStatus(phase, n, total) == [phase |-> phase, id |-> n, total |-> total]

CapInit ==
    /\ capTask = [n \in CapIds |-> "none"] /\ capOpen = [n \in CapIds |-> FALSE]
    /\ capTotal = [n \in CapIds |-> 0]
    /\ capChan = [n \in CapIds |-> <<>>] /\ capNews = {}
    /\ capStart = [k \in CapIds |-> [pc |-> "none", id |-> 0]]
    /\ capStop = [n \in CapIds |-> "no"] /\ capClose = [n \in CapIds |-> "no"]
    /\ capStatus = CapStatus("idle", 0, 0) /\ capCurrent = 0
    /\ capActive = FALSE /\ capStarting = FALSE /\ capUpdates = <<>>
    /\ capEntry = [n \in CapIds |-> CapNoEntry]
    /\ capLeft \in CapBudgets /\ capGhost = {}

CapTypeOK ==
    /\ capTask \in [CapIds -> {"none", "runs", "cancelled", "ended"}]
    /\ capOpen \in [CapIds -> BOOLEAN] /\ capTotal \in [CapIds -> 0 .. CapLines]
    /\ capStatus.phase \in {"idle", "starting", "streaming", "stopped", "error"}
    /\ capCurrent \in 0 .. CapMax /\ capActive \in BOOLEAN /\ capStarting \in BOOLEAN
    /\ \A n \in CapIds : capEntry[n].total <= capTotal[n] /\ capEntry[n].count <= capTotal[n]

----------------------------------------
(* The back end.                                                           *)

CapCancel(n) == capTask' = [capTask EXCEPT ![n] = IF @ = "runs" THEN "cancelled" ELSE @]

(* flush_batch, while the session is there: the batch, then what its       *)
(* processors have counted.                                                *)
CapBatch(n) ==
    /\ capTask[n] \in {"runs", "cancelled"} /\ capOpen[n] /\ capTotal[n] < CapLines
    /\ capTotal' = [capTotal EXCEPT ![n] = @ + 1]
    /\ capChan' = [capChan EXCEPT ![n] = @ \o <<[ev |-> "batch", total |-> capTotal[n] + 1],
                                                 [ev |-> "update", total |-> capTotal[n] + 1]>>]
    /\ UNCHANGED <<capTask, capOpen, capNews, capCalls, capSession, capEntry, capHist>>

(* The device fails to open or goes away, or the task sees it is cancelled.*)
CapEnds(n) ==
    /\ capTask[n] \in {"runs", "cancelled"}
    /\ capTask' = [capTask EXCEPT ![n] = "ended"]
    /\ capChan' = [capChan EXCEPT ![n] = Append(@, [ev |-> "stopped", total |-> 0])]
    /\ UNCHANGED <<capOpen, capTotal, capNews, capCalls, capSession, capEntry, capHist>>

CapAgentStops(n) ==
    /\ capLeft.agent > 0 /\ capTask[n] = "runs"
    /\ capLeft' = [capLeft EXCEPT !.agent = @ - 1]
    /\ CapCancel(n)
    /\ UNCHANGED <<capOpen, capTotal, capWires, capCalls, capSession, capEntry, capGhost>>

CapAgentCloses(n) ==
    /\ capLeft.agent > 0 /\ capOpen[n]
    /\ capLeft' = [capLeft EXCEPT !.agent = @ - 1]
    /\ CapCancel(n)
    /\ capOpen' = [capOpen EXCEPT ![n] = FALSE]
    /\ capNews' = capNews \cup {n}
    /\ UNCHANGED <<capTotal, capChan, capCalls, capSession, capEntry, capGhost>>

----------------------------------------
(* onStatus of the store.                                                  *)
CapShow(entries, n, total) ==
    [entries EXCEPT ![n] = [IF @.shown THEN @ ELSE [CapNoEntry EXCEPT !.shown = TRUE, !.live = TRUE]
                              EXCEPT !.total = total]]
CapQuietened(entries, n) == [entries EXCEPT ![n].live = FALSE]
CapDropped(entries, n) == [entries EXCEPT ![n] = CapNoEntry]

(* stop: the guards fall before the back end is asked.                     *)
CapStopNow ==
    /\ capStop' = [capStop EXCEPT ![capCurrent] = "sent"]
    /\ capCurrent' = 0 /\ capActive' = FALSE

(* A mutant: a start does not wait for the one in flight.                  *)
MutCapMayStart == TRUE
CapMayStart == ~capStarting

(* start stops the capture it has, and asks for a new one.                 *)
CapStarts(k) ==
    /\ capStart[k].pc = "none" /\ \A j \in 1 .. k - 1 : capStart[j].pc # "none"
    /\ capLeft.starts > 0 /\ CapMayStart
    /\ capLeft' = [capLeft EXCEPT !.starts = @ - 1]
    /\ capStarting' = TRUE
    /\ IF capCurrent # 0
       THEN /\ CapStopNow
            /\ capStart' = [capStart EXCEPT ![k] = [pc |-> "stops", id |-> capCurrent]]
            /\ UNCHANGED capStatus
       ELSE /\ capActive' = FALSE
            /\ capStart' = [capStart EXCEPT ![k] = [pc |-> "asked", id |-> 0]]
            /\ capStatus' = CapStatus("starting", 0, 0)
            /\ UNCHANGED <<capStop, capCurrent>>
    /\ UNCHANGED <<capBack, capWires, capClose, capUpdates, capEntry, capGhost>>

(* The back end starts a capture, under an id of its own, or refuses.      *)
CapBegins(k) ==
    /\ capStart[k].pc = "asked"
    /\ \/ LET n == CHOOSE m \in CapIds : capTask[m] = "none" /\ \A j \in 1 .. m - 1 : capTask[j] # "none" IN
          /\ capTask' = [capTask EXCEPT ![n] = "runs"]
          /\ capOpen' = [capOpen EXCEPT ![n] = TRUE]
          /\ capStart' = [capStart EXCEPT ![k] = [pc |-> "answered", id |-> n]]
       \/ /\ capStart' = [capStart EXCEPT ![k] = [pc |-> "answered", id |-> 0]]
          /\ UNCHANGED <<capTask, capOpen>>
    /\ UNCHANGED <<capTotal, capWires, capStop, capClose, capSession, capEntry, capHist>>

(* What came down the channel before this was dropped; a later batch makes *)
(* up for it, the end does not come again.                                 *)
CapHeardEarly(n) == capTask[n] = "ended" /\ capChan[n] = <<>>

CapAnswered(k) ==
    LET n == capStart[k].id IN
    /\ capStart[k].pc = "answered" /\ capUpdates = <<>>
    /\ capStart' = [capStart EXCEPT ![k].pc = "over"]
    /\ capStarting' = FALSE /\ capCurrent' = n /\ capActive' = (n # 0)
    /\ capStatus' = IF n = 0 THEN CapStatus("error", 0, 0) ELSE CapStatus("streaming", n, 0)
    /\ capEntry' = IF n = 0 THEN capEntry ELSE CapShow(capEntry, n, 0)
    /\ capGhost' = capGhost
         \cup (IF n # 0 /\ CapHeardEarly(n) THEN {<<"ended early", n>>} ELSE {})
         \cup (IF n # 0 /\ ~capOpen[n] /\ n \notin capNews THEN {<<"closed early", n>>} ELSE {})
    /\ UNCHANGED <<capBack, capWires, capStop, capClose, capUpdates, capLeft>>

CapStops ==
    /\ capLeft.stops > 0 /\ capCurrent # 0
    /\ capLeft' = [capLeft EXCEPT !.stops = @ - 1]
    /\ CapStopNow
    /\ UNCHANGED <<capBack, capWires, capStart, capClose, capStatus, capStarting, capUpdates,
                   capEntry, capGhost>>

CapStopTaken(n) ==
    /\ capStop[n] = "sent"
    /\ capStop' = [capStop EXCEPT ![n] = "answered"]
    /\ CapCancel(n)
    /\ UNCHANGED <<capOpen, capTotal, capWires, capStart, capClose, capSession, capEntry, capHist>>

(* The rest of stop, and of what awaited it: a start goes on to ask.       *)
CapStopAnswered(n) ==
    LET waiting == {k \in CapIds : capStart[k] = [pc |-> "stops", id |-> n]} IN
    /\ capStop[n] = "answered"
    /\ capStop' = [capStop EXCEPT ![n] = "no"]
    /\ capEntry' = CapQuietened(capEntry, n)
    /\ IF waiting = {}
       THEN capStatus' = CapStatus("stopped", n, 0) /\ UNCHANGED <<capStart, capActive>>
       ELSE /\ capStatus' = CapStatus("starting", 0, 0) /\ capActive' = FALSE
            /\ capStart' = [k \in CapIds |-> IF k \in waiting THEN [pc |-> "asked", id |-> 0]
                                             ELSE capStart[k]]
    /\ capClose' = [capClose EXCEPT ![n] = IF @ = "stops" THEN "sent" ELSE @]
    /\ capGhost' = IF waiting = {} /\ (capCurrent # 0 \/ capStarting)
                   THEN capGhost \cup {<<"stop answered late", n>>} ELSE capGhost
    /\ UNCHANGED <<capBack, capWires, capCurrent, capStarting, capUpdates, capLeft>>

----------------------------------------
(* close of app/actions: stopIfCurrent, then the session.                  *)
CapClosing(n) ==
    /\ capLeft.closes > 0 /\ capEntry[n].shown /\ capClose[n] = "no"
    /\ capLeft' = [capLeft EXCEPT !.closes = @ - 1]
    /\ IF capStatus.phase = "streaming" /\ capStatus.id = n /\ capCurrent # 0
       THEN /\ CapStopNow
            /\ capClose' = [capClose EXCEPT ![n] = "stops"]
       ELSE /\ capClose' = [capClose EXCEPT ![n] = "sent"]
            /\ UNCHANGED <<capStop, capCurrent, capActive>>
    /\ UNCHANGED <<capBack, capWires, capStart, capStatus, capStarting, capUpdates, capEntry,
                   capGhost>>

CapClosed(n) ==
    /\ capClose[n] = "sent"
    /\ capClose' = [capClose EXCEPT ![n] = "answered"]
    /\ CapCancel(n)
    /\ capOpen' = [capOpen EXCEPT ![n] = FALSE]
    /\ UNCHANGED <<capTotal, capWires, capStart, capStop, capSession, capEntry, capHist>>

CapCloseAnswered(n) ==
    /\ capClose[n] = "answered"
    /\ capClose' = [capClose EXCEPT ![n] = "no"]
    /\ capEntry' = CapDropped(capEntry, n)
    /\ UNCHANGED <<capBack, capWires, capStart, capStop, capSession, capHist>>

CapHearClosed(n) ==
    /\ n \in capNews
    /\ capNews' = capNews \ {n}
    /\ capEntry' = CapDropped(capEntry, n)
    /\ UNCHANGED <<capBack, capChan, capCalls, capSession, capHist>>

----------------------------------------
(* handleChannelEvent.                                                     *)

CapHearBatch(n, total) ==
    /\ IF capStatus.phase = "streaming" /\ capStatus.id = n
       THEN /\ capStatus' = CapStatus("streaming", n, total)
            /\ capEntry' = CapShow(capEntry, n, total)
            /\ capGhost' = IF ~capOpen[n] /\ n \notin capNews
                           THEN capGhost \cup {<<"batch after close", n>>} ELSE capGhost
       ELSE UNCHANGED <<capStatus, capEntry, capGhost>>
    /\ UNCHANGED <<capCurrent, capActive, capUpdates>>

CapHearUpdate(n, total) ==
    /\ capUpdates' = Append(capUpdates, [id |-> n, total |-> total])
    /\ UNCHANGED <<capStatus, capEntry, capCurrent, capActive, capGhost>>

CapHearStopped(n) ==
    /\ capActive' = FALSE /\ capCurrent' = 0
    /\ capStatus' = CapStatus("stopped", n, 0)
    /\ capEntry' = CapQuietened(capEntry, n)
    /\ capGhost' = IF capUpdates # <<>> THEN capGhost \cup {<<"tail", n>>} ELSE capGhost
    /\ UNCHANGED capUpdates

CapHear(n) ==
    /\ capChan[n] # <<>>
    /\ capChan' = [capChan EXCEPT ![n] = Tail(@)]
    /\ LET m == Head(capChan[n]) IN
       IF ~capActive \/ capCurrent # n
       THEN /\ capGhost' = IF m.ev = "stopped" THEN capGhost
                           ELSE capGhost \cup {<<"tail", n>>}
            /\ UNCHANGED <<capStatus, capCurrent, capActive, capUpdates, capEntry>>
       ELSE CASE m.ev = "batch" -> CapHearBatch(n, m.total)
              [] m.ev = "update" -> CapHearUpdate(n, m.total)
              [] m.ev = "stopped" -> CapHearStopped(n)
    /\ UNCHANGED <<capBack, capNews, capCalls, capStarting, capLeft>>

(* flushProcessorUpdates, and what the analyzers make of it: nothing for a *)
(* session the window does not have.                                       *)
CapFlush ==
    /\ capUpdates # <<>>
    /\ capUpdates' = <<>>
    /\ LET n == capUpdates[1].id IN
       IF capActive /\ capEntry[n].shown
       THEN /\ capEntry' = [capEntry EXCEPT ![n].count = capUpdates[Len(capUpdates)].total]
            /\ UNCHANGED capGhost
       ELSE /\ capGhost' = capGhost \cup {<<"tail", n>>}
            /\ UNCHANGED capEntry
    /\ UNCHANGED <<capBack, capWires, capCalls, capStatus, capCurrent, capActive, capStarting,
                   capLeft>>

----------------------------------------
CapNext ==
    \/ CapStops \/ CapFlush
    \/ \E n \in CapIds :
         \/ CapBatch(n) \/ CapEnds(n) \/ CapAgentStops(n) \/ CapAgentCloses(n)
         \/ CapStarts(n) \/ CapBegins(n) \/ CapAnswered(n)
         \/ CapStopTaken(n) \/ CapStopAnswered(n)
         \/ CapClosing(n) \/ CapClosed(n) \/ CapCloseAnswered(n) \/ CapHearClosed(n)
         \/ CapHear(n)

CapSpec == CapInit /\ [][CapNext]_capVars

----------------------------------------
CapQuiet ==
    /\ capNews = {} /\ capUpdates = <<>> /\ ~capStarting
    /\ \A n \in CapIds : capChan[n] = <<>> /\ capStop[n] = "no" /\ capClose[n] = "no"
                            /\ capTask[n] # "cancelled"

(* A capture that was stopped is "an ordinary, postmortem-browsable        *)
(* session" (stream/streamStore.ts:10): refuted, as the batches in flight  *)
(* when the window stops it are dropped and the tab stays short of them.   *)
CapTabIsWhole ==
    CapQuiet => \A n \in CapIds :
        capOpen[n] /\ capEntry[n].shown /\ capTask[n] = "ended" => capEntry[n].total = capTotal[n]

(* A stop was answered once a newer capture had been asked for, which only *)
(* the benchmark driver can do, and took its status away.                  *)
CapLate == \E n \in CapIds : <<"stop answered late", n>> \in capGhost

(* Once everything has been heard: a capture that runs is the one that the *)
(* window can stop; one the window takes to run does, unless its end came  *)
(* before the answer of its start; the tabs are the sessions that are      *)
(* there, unless a batch was heard after the close; their lines and counts *)
(* are those of the back end, unless batches came while none were taken.   *)
CapSettles ==
    CapQuiet => \A n \in CapIds :
        /\ capTask[n] = "runs" => capCurrent = n
        /\ capCurrent = n => capTask[n] = "runs" \/ <<"ended early", n>> \in capGhost
        /\ CapLate \/ (capCurrent = n) = (capStatus.phase = "streaming" /\ capStatus.id = n)
        /\ {<<"batch after close", n>>, <<"closed early", n>>} \cap capGhost = {} =>
             capEntry[n].shown = capOpen[n]
        /\ capEntry[n].live = (capCurrent = n /\ capEntry[n].shown)
        /\ capEntry[n].shown /\ <<"tail", n>> \notin capGhost /\ ~CapLate =>
             capEntry[n].total = capTotal[n] /\ capEntry[n].count = capTotal[n]
=============================================================================
