---------------------------------- MODULE Tabs ----------------------------------
(***************************************************************************)
(* The tabs of the window (app/sessions.ts, app/actions.ts) against the    *)
(* sessions of the back end (services/sessions.rs), which agents open and  *)
(* close as well and which indexes a file after it is open.                *)
(*                                                                         *)
(* The window's code runs between two awaits without interruption.  The    *)
(* back end's events reach it in order; the answer of a command comes at   *)
(* any time after the command ended, before or after events sent earlier.  *)
(* Opening a file is one step of the back end (the module Sessions has its *)
(* parts), and an id stands for a file's content and the type asked for.   *)
(***************************************************************************)
EXTENDS Naturals, Sequences, FiniteSets, SequencesExt

CONSTANTS
    TabIds,      \* session ids
    TabPath,     \* the file of an id
    TabChunks,   \* chunks of a file, the first is there once it is open
    TabCalls,    \* openPath calls
    TabBudgets   \* bounds, of which a behaviour has one: the ids that come up,
                 \* openPath calls, agents' opens and closes, the user's
                 \* closes and changes of focus

ASSUME TabAssumption == TabChunks \in [TabIds -> Nat \ {0}] /\ TabCalls \in Nat

VARIABLES
    tabBack,      \* sessions: whether open, what is indexed, whether it goes on
    tabAnnounce,  \* an agent's sessions on the way to session-opened
    tabEvents,    \* events on their way to the window
    tabOpen,      \* the locals of openPath
    tabClose,     \* the closes of the user: sent, or answered
    tabEntry,     \* entries
    tabOrder,     \* order
    tabFocus,     \* focusedId
    tabPending,   \* pendingClose
    tabGuard,     \* probeGuards
    tabLeft,      \* what is left of the budget (bound)
    tabGhost      \* what has passed what, by id (history)

tabWindow == <<tabEntry, tabOrder, tabFocus>>
tabCalls == <<tabOpen, tabClose, tabPending, tabGuard>>
tabHist == <<tabLeft, tabGhost>>
tabVars == <<tabBack, tabAnnounce, tabEvents, tabWindow, tabCalls, tabHist>>

TabNone == "no tab"
TabShut == [open |-> FALSE, total |-> 0, indexing |-> FALSE]
TabNoOpen == [pc |-> "none", id |-> TabNone, replace |-> FALSE, token |-> 0, total |-> 0,
              indexing |-> FALSE]
TabNoEntry == [total |-> 0, indexing |-> FALSE]

TabInit ==
    /\ tabBack = [i \in TabIds |-> TabShut]
    /\ tabAnnounce = {} /\ tabEvents = <<>>
    /\ tabOpen = [c \in 1..TabCalls |-> TabNoOpen]
    /\ tabClose = [i \in TabIds |-> "no"]
    /\ tabEntry = [i \in TabIds |-> TabNoEntry]
    /\ tabOrder = <<>> /\ tabFocus = TabNone
    /\ tabPending = {} /\ tabGuard = [i \in TabIds |-> 0]
    /\ tabLeft \in TabBudgets /\ tabGhost = {}

TabTypeOK ==
    /\ tabBack \in [TabIds -> [open : BOOLEAN, total : Nat, indexing : BOOLEAN]]
    /\ \A i \in TabIds : tabBack[i].total <= TabChunks[i]
    /\ tabOrder \in Seq(TabIds) /\ IsInjective(tabOrder)
    /\ \A i \in TabIds : (tabEntry[i] # TabNoEntry) = (i \in ToSet(tabOrder))
    /\ tabFocus \in TabIds \cup {TabNone} /\ tabPending \subseteq TabIds

TabShown == ToSet(tabOrder)
TabEvent(name, i, total) == [ev |-> name, id |-> i, total |-> total, indexing |-> FALSE]
TabQueued(name, i) == {k \in DOMAIN tabEvents : tabEvents[k].ev = name /\ tabEvents[k].id = i}

----------------------------------------
(* The window's part of the session store.                                 *)

TabFirst(total, indexing) == [total |-> total, indexing |-> indexing]

(* add: idempotent by id; the first one is focused.                        *)
TabAdd(i, total, indexing, focus) ==
    /\ IF i \in TabShown THEN UNCHANGED <<tabEntry, tabOrder>>
       ELSE /\ tabEntry' = [tabEntry EXCEPT ![i] = TabFirst(total, indexing)]
            /\ tabOrder' = Append(tabOrder, i)
    /\ tabFocus' = IF focus \/ tabFocus = TabNone THEN i ELSE tabFocus

(* replace: the entry is built anew from the answer.                       *)
TabReplace(i, total, indexing) ==
    IF i \notin TabShown THEN TabAdd(i, total, indexing, TRUE)
    ELSE /\ tabEntry' = [tabEntry EXCEPT ![i] = TabFirst(total, indexing)]
         /\ tabFocus' = i /\ UNCHANGED tabOrder

(* A mutant: the last tab has no neighbour.                                *)
MutTabNeighbour(k, rest) == IF k <= Len(rest) THEN rest[k] ELSE TabNone

(* The tab that slid into the place of a removed one, else the one before. *)
TabNeighbour(k, rest) ==
    CASE k <= Len(rest) -> rest[k]
      [] k > Len(rest) /\ rest # <<>> -> Last(rest)
      [] OTHER -> TabNone

TabRemove(i) ==
    IF i \notin TabShown THEN UNCHANGED tabWindow
    ELSE LET k == CHOOSE n \in DOMAIN tabOrder : tabOrder[n] = i
             rest == RemoveAt(tabOrder, k) IN
         /\ tabEntry' = [tabEntry EXCEPT ![i] = TabNoEntry]
         /\ tabOrder' = rest
         /\ tabFocus' = IF tabFocus = i THEN TabNeighbour(k, rest) ELSE tabFocus

TabUpdateTotal(i, total, indexing) ==
    /\ tabEntry' = IF i \notin TabShown THEN tabEntry
                   ELSE [tabEntry EXCEPT ![i].total = total, ![i].indexing = indexing]
    /\ UNCHANGED <<tabOrder, tabFocus>>

----------------------------------------
(* The back end.                                                           *)

(* Every session of the file is closed; those of another id are announced. *)
TabStale(i) == {j \in TabIds \ {i} : TabPath[j] = TabPath[i] /\ tabBack[j].open}
TabCreated(i) ==
    [j \in TabIds |->
        IF j = i THEN [open |-> TRUE, total |-> 1, indexing |-> TabChunks[i] > 1]
        ELSE IF j \in TabStale(i) THEN TabShut ELSE tabBack[j]]
TabStaleClosed(i) ==
    tabEvents \o [k \in 1 .. Cardinality(TabStale(i)) |->
                    TabEvent("closed", SetToSeq(TabStale(i))[k], 0)]

TabLoad(c) ==
    LET i == tabOpen[c].id IN
    /\ tabOpen[c].pc = "load"
    /\ tabBack' = TabCreated(i) /\ tabEvents' = TabStaleClosed(i)
    /\ tabOpen' = [tabOpen EXCEPT ![c].pc = "loaded", ![c].total = 1,
                     ![c].indexing = TabChunks[i] > 1]
    /\ UNCHANGED <<tabAnnounce, tabWindow, tabClose, tabPending, tabGuard, tabHist>>

(* An agent's open indexes before it is announced.                         *)
TabAgentOpen(i) ==
    /\ tabLeft.opens > 0 /\ i \in tabLeft.ids
    /\ tabLeft' = [tabLeft EXCEPT !.opens = @ - 1]
    /\ tabBack' = TabCreated(i) /\ tabEvents' = TabStaleClosed(i)
    /\ tabAnnounce' = tabAnnounce \cup {i}
    /\ UNCHANGED <<tabWindow, tabCalls, tabGhost>>

TabAnnounced(i) ==
    /\ i \in tabAnnounce
    /\ tabAnnounce' = tabAnnounce \ {i}
    /\ tabEvents' = Append(tabEvents, [ev |-> "opened", id |-> i, total |-> 1,
                                        indexing |-> TabChunks[i] > 1])
    /\ tabGhost' = IF ~tabBack[i].open \/ tabBack[i].total > 1
                   THEN tabGhost \cup {<<"announced late", i>>} ELSE tabGhost
    /\ UNCHANGED <<tabBack, tabWindow, tabCalls, tabLeft>>

TabAgentClose(i) ==
    /\ tabLeft.agentCloses > 0 /\ tabBack[i].open
    /\ tabLeft' = [tabLeft EXCEPT !.agentCloses = @ - 1]
    /\ tabBack' = [tabBack EXCEPT ![i] = TabShut]
    /\ tabEvents' = Append(tabEvents, TabEvent("closed", i, 0))
    /\ UNCHANGED <<tabAnnounce, tabWindow, tabCalls, tabGhost>>

(* A chunk of the background indexer; the last one says so.                *)
TabIndex(i) ==
    LET total == tabBack[i].total + 1
        done == total = TabChunks[i] IN
    /\ tabBack[i].indexing
    /\ tabBack' = [tabBack EXCEPT ![i].total = total, ![i].indexing = ~done]
    /\ tabEvents' = tabEvents \o <<TabEvent("progress", i, total)>>
                      \o (IF done THEN <<TabEvent("complete", i, total)>> ELSE <<>>)
    /\ UNCHANGED <<tabAnnounce, tabWindow, tabCalls, tabHist>>

----------------------------------------
(* openPath.                                                               *)

TabOpenSent(c, i, replace) ==
    /\ tabOpen[c].pc = "none" /\ \A d \in 1 .. c - 1 : tabOpen[d].pc # "none"
    /\ c <= tabLeft.calls /\ i \in tabLeft.ids
    /\ replace => i \in TabShown
    /\ tabOpen' = [tabOpen EXCEPT ![c] = [TabNoOpen EXCEPT !.pc = "load", !.id = i,
                                            !.replace = replace]]
    /\ UNCHANGED <<tabBack, tabAnnounce, tabEvents, tabWindow, tabClose, tabPending, tabGuard,
                   tabHist>>

(* The news of a close passes the answer of an open.                       *)
TabPassed(i) ==
    LET echoes == IF i \in tabPending THEN 1 ELSE 0 IN
    IF tabBack[i].open THEN Cardinality(TabQueued("closed", i)) > echoes
    ELSE Cardinality(TabQueued("closed", i)) <= echoes

TabLoaded(c) ==
    LET o == tabOpen[c]
        i == o.id IN
    /\ o.pc = "loaded"
    /\ tabGuard' = [tabGuard EXCEPT ![i] = @ + 1]
    /\ tabOpen' = [tabOpen EXCEPT ![c].pc = "probe", ![c].token = tabGuard[i] + 1]
    /\ IF o.replace THEN TabReplace(i, o.total, o.indexing)
       ELSE TabAdd(i, o.total, o.indexing, TRUE)
    /\ tabGhost' = IF TabPassed(i) THEN tabGhost \cup {<<"close passed", i>>} ELSE tabGhost
    /\ UNCHANGED <<tabBack, tabAnnounce, tabEvents, tabClose, tabPending, tabLeft>>

(* probeTotal reads the total, of whichever session has the id by then.    *)
TabProbe(c) ==
    LET s == tabBack[tabOpen[c].id] IN
    /\ tabOpen[c].pc = "probe"
    /\ tabOpen' = [tabOpen EXCEPT ![c].pc = IF s.open THEN "probed" ELSE "over",
                                  ![c].total = s.total]
    /\ UNCHANGED <<tabBack, tabAnnounce, tabEvents, tabWindow, tabClose, tabPending, tabGuard,
                   tabHist>>

TabCurrent(i, token) == token = tabGuard[i]

TabProbed(c) ==
    LET o == tabOpen[c]
        i == o.id IN
    /\ o.pc = "probed"
    /\ tabOpen' = [tabOpen EXCEPT ![c].pc = "over"]
    /\ IF TabCurrent(i, o.token) THEN TabUpdateTotal(i, o.total, FALSE)
       ELSE UNCHANGED tabWindow
    /\ tabGhost' = IF o.token = tabGuard[i] /\ o.total < tabBack[i].total
                        /\ TabQueued("complete", i) = {}
                   THEN tabGhost \cup {<<"probe passed", i>>} ELSE tabGhost
    /\ UNCHANGED <<tabBack, tabAnnounce, tabEvents, tabClose, tabPending, tabGuard, tabLeft>>

----------------------------------------
(* close.                                                                  *)

TabCloseSent(i) ==
    /\ tabLeft.closes > 0 /\ i \in TabShown /\ tabClose[i] = "no"
    /\ tabLeft' = [tabLeft EXCEPT !.closes = @ - 1]
    /\ tabPending' = tabPending \cup {i}
    /\ tabGuard' = [tabGuard EXCEPT ![i] = @ + 1]
    /\ tabClose' = [tabClose EXCEPT ![i] = "sent"]
    /\ UNCHANGED <<tabBack, tabAnnounce, tabEvents, tabWindow, tabOpen, tabGhost>>

(* Closing what is not open succeeds, and is announced too.                *)
TabClosed(i) ==
    /\ tabClose[i] = "sent"
    /\ tabClose' = [tabClose EXCEPT ![i] = "answered"]
    /\ tabBack' = [tabBack EXCEPT ![i] = TabShut]
    /\ tabEvents' = Append(tabEvents, TabEvent("closed", i, 0))
    /\ UNCHANGED <<tabAnnounce, tabWindow, tabOpen, tabPending, tabGuard, tabHist>>

TabCloseAnswered(i) ==
    /\ tabClose[i] = "answered"
    /\ tabClose' = [tabClose EXCEPT ![i] = "no"]
    /\ TabRemove(i)
    /\ tabGhost' = IF tabBack[i].open \/ TabQueued("opened", i) # {}
                   THEN tabGhost \cup {<<"close passed", i>>} ELSE tabGhost
    /\ UNCHANGED <<tabBack, tabAnnounce, tabEvents, tabOpen, tabPending, tabGuard, tabLeft>>

----------------------------------------
TabFocused(i) ==
    /\ tabLeft.focus > 0 /\ i \in TabShown \ {tabFocus}
    /\ tabLeft' = [tabLeft EXCEPT !.focus = @ - 1]
    /\ tabFocus' = i
    /\ UNCHANGED <<tabBack, tabAnnounce, tabEvents, tabEntry, tabOrder, tabCalls, tabGhost>>

TabHear ==
    /\ tabEvents # <<>>
    /\ tabEvents' = Tail(tabEvents)
    /\ LET e == Head(tabEvents) IN
       /\ CASE e.ev = "opened" -> TabAdd(e.id, e.total, e.indexing, FALSE)
            [] e.ev = "progress" -> TabUpdateTotal(e.id, e.total, TRUE)
            [] e.ev = "complete" -> TabUpdateTotal(e.id, e.total, FALSE)
            [] e.ev = "closed" /\ e.id \in tabPending -> UNCHANGED tabWindow
            [] e.ev = "closed" /\ e.id \notin tabPending -> TabRemove(e.id)
       /\ tabPending' = IF e.ev = "closed" THEN tabPending \ {e.id} ELSE tabPending
    /\ UNCHANGED <<tabBack, tabAnnounce, tabOpen, tabClose, tabGuard, tabHist>>

TabNext ==
    \/ TabHear
    \/ \E c \in 1..TabCalls : TabLoad(c) \/ TabLoaded(c) \/ TabProbe(c) \/ TabProbed(c)
    \/ \E c \in 1..TabCalls, i \in TabIds, replace \in BOOLEAN : TabOpenSent(c, i, replace)
    \/ \E i \in TabIds :
         TabAgentOpen(i) \/ TabAnnounced(i) \/ TabAgentClose(i) \/ TabIndex(i)
           \/ TabCloseSent(i) \/ TabClosed(i) \/ TabCloseAnswered(i) \/ TabFocused(i)

TabSpec == TabInit /\ [][TabNext]_tabVars

----------------------------------------
TabQuiet ==
    /\ tabEvents = <<>> /\ tabAnnounce = {}
    /\ \A c \in 1..TabCalls : tabOpen[c].pc \in {"none", "over"}
    /\ \A i \in TabIds : tabClose[i] = "no" /\ ~tabBack[i].indexing

(* Once everything has been heard, the tabs are the open sessions with all *)
(* their lines, unless for a reason of the id's own: its close passed the  *)
(* answer of an open, or its index the news of it or its own probe.  One   *)
(* of the tabs has the focus whenever there is one.                        *)
TabsAgree ==
    /\ tabFocus \in IF tabOrder = <<>> THEN {TabNone} ELSE TabShown
    /\ TabQuiet => \A i \in TabIds :
         /\ <<"close passed", i>> \notin tabGhost /\ <<"announced late", i>> \notin tabGhost =>
              (i \in TabShown) = tabBack[i].open
         /\ (\A g \in tabGhost : g[2] # i) /\ i \in TabShown =>
              tabEntry[i].total = tabBack[i].total /\ ~tabEntry[i].indexing
         /\ i \notin tabPending
=============================================================================
