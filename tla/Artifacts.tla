----------------------------- MODULE Artifacts -----------------------------
(***************************************************************************)
(* Bookmarks and analyses: two stores of the back end that the user and    *)
(* the agents edit at the same time, and the copy of each that the window  *)
(* keeps (services/bookmarks.rs, services/analyses.rs, bookmarksStore.ts,  *)
(* analysesStore.ts).  An instance is about one of the two kinds, artKind. *)
(*                                                                         *)
(* A mutation changes the store under its lock and sends its event after   *)
(* the lock is dropped, so two mutations can be told in another order than *)
(* they happened.  The window hears of them by events, by the answers to   *)
(* its own commands and by the lists it asks for; the bookmarks' copy is   *)
(* patched with what an event or an answer carries, the analyses' list is  *)
(* asked for again after every event.  The window's commands are           *)
(* synchronous: the main thread runs them in the order they were sent and  *)
(* answers in that order; events reach the window in the order they were   *)
(* sent, but in any order relative to the answers.                         *)
(***************************************************************************)
EXTENDS Integers, Sequences, FiniteSets, SequencesExt

CONSTANTS
    ArtKinds,     \* the kinds of an instance: "bookmark", "analysis"
    ArtIds,       \* artifacts
    ArtAgents,    \* callers on other threads than the main one
    ArtMaxCalls,  \* bound: calls of the agents
    ArtMaxClicks  \* bound: requests of the window

ASSUME ArtAssumption ==
    /\ ArtKinds \subseteq {"bookmark", "analysis"} /\ "ui" \notin ArtAgents
    /\ ArtMaxCalls \in Nat /\ ArtMaxClicks \in Nat

VARIABLES
    artKind,      \* what the store holds
    artOpen,      \* whether the session of the bookmarks is open
    artStore,     \* AppState::bookmarks of that session, or AppState::analyses
    artClock,     \* number of the last mutation
    artCall,      \* the calls in flight, of the agents and of the main thread
    artAsked,     \* the window's requests that wait for the main thread
    artEvents,    \* events on their way to the window
    artAnswers,   \* answers on their way to the window
    artKnown,     \* whether the window shows the session
    artHas,       \* whether bookmarksStore has a record for the session
    artFetched,   \* whether the window asked for the bookmarks of the session
    artList,      \* the list the window shows
    artCache,     \* analysesStore's cache of opened artifacts
    artSelected,  \* the analysis the reader shows
    artCount,     \* calls of the agents and requests of the window (bounds)
    artSeen,      \* newest mutation of each artifact the window was told of (history)
    artOvertaken, \* artifacts the window was told of out of order (history)
    artRestored,  \* number of the last restore (history)
    artStraddled  \* a creation or an answer to one crossed the closing (history)

artBack == <<artOpen, artStore, artClock>>
artWin == <<artKnown, artHas, artFetched, artList, artCache, artSelected>>
artTold == <<artSeen, artOvertaken>>
artGhost == <<artRestored, artStraddled>>
artVars == <<artKind, artBack, artCall, artAsked, artEvents, artAnswers, artWin,
             artCount, artTold, artGhost>>

ArtCallers == ArtAgents \cup {"ui"}
ArtNoId == "none"
ArtNever == [at |-> 0, there |-> FALSE]       \* no such artifact was ever made
ArtNothing == [i \in ArtIds |-> ArtNever]
ArtIdle == [pc |-> "idle", op |-> ArtNoId, id |-> ArtNoId, entry |-> ArtNever]
ArtRequest(op, id) == [op |-> op, id |-> id]
ArtEntries == [at : Nat, there : BOOLEAN]

ArtInit ==
    /\ artKind \in ArtKinds
    /\ artOpen = TRUE /\ artStore = ArtNothing /\ artClock = 0
    /\ artCall = [c \in ArtCallers |-> ArtIdle]
    /\ artAsked = IF artKind = "analysis" THEN <<ArtRequest("list", ArtNoId)>> ELSE <<>>
    /\ artEvents = <<>> /\ artAnswers = <<>>
    /\ artKnown = TRUE /\ artHas = FALSE /\ artFetched = FALSE
    /\ artList = ArtNothing /\ artCache = ArtNothing /\ artSelected = ArtNoId
    /\ artCount = [calls |-> 0, clicks |-> 0]
    /\ artSeen = [i \in ArtIds |-> 0] /\ artOvertaken = {}
    /\ artRestored = 0 /\ artStraddled = FALSE

ArtTypeOK ==
    /\ artKind \in ArtKinds /\ {artOpen, artKnown, artHas, artFetched} \subseteq BOOLEAN
    /\ \A f \in {artStore, artList, artCache} : \A i \in ArtIds : f[i] \in ArtEntries
    /\ \A c \in ArtCallers : artCall[c].pc \in {"idle", "check", "change", "clear", "emit"}
    /\ \A k \in DOMAIN artAsked : artAsked[k].op \in {"create", "update", "remove", "list", "get"}
    /\ artSelected \in ArtIds \cup {ArtNoId} /\ artOvertaken \subseteq ArtIds

----------------------------------------
(* The back end.                                                           *)

(* What a mutation leaves in the store, as the clock ticks.                *)
ArtPut(ids, there) ==
    /\ artClock' = artClock + 1
    /\ artStore' = [i \in ArtIds |-> IF i \in ids
                                     THEN [at |-> artClock + 1, there |-> i \in there]
                                     ELSE artStore[i]]

ArtAnswer(op, id, told) == [op |-> op, id |-> id, told |-> told]

(* Ids are drawn at random: no two creations have the same.                *)
ArtFresh(i) ==
    /\ artStore[i] = ArtNever
    /\ \A c \in ArtCallers : artCall[c].id # i
    /\ \A k \in DOMAIN artAsked : artAsked[k].id # i

ArtCalled(op, i) ==
    [pc |-> IF op = "create" /\ artKind = "bookmark" THEN "check" ELSE "change",
     op |-> op, id |-> i, entry |-> ArtNever]

(* A request arrives on a route of the bridge: at any time, of any agent.  *)
ArtCallStart(c) ==
    \E op \in {"create", "update", "remove", "restore", "close"}, i \in ArtIds :
      /\ artCall[c].pc = "idle" /\ artCount.calls < ArtMaxCalls
      /\ op = "create" \/ (op = "restore" /\ artKind = "bookmark") => ArtFresh(i)
      /\ op \in {"update", "remove"} => artStore[i].at > 0
      /\ op = "close" => artKind = "bookmark" /\ artOpen
      /\ op = "close" \/ (op = "restore" /\ artKind = "analysis") => i = CHOOSE j \in ArtIds : TRUE
      /\ artCall' = [artCall EXCEPT ![c] = ArtCalled(op, i)]
      /\ artCount' = [artCount EXCEPT !.calls = @ + 1]
      /\ UNCHANGED <<artKind, artBack, artAsked, artEvents, artAnswers, artWin, artTold, artGhost>>

(* The main thread takes the next command of the window.                   *)
ArtCommandStart ==
    /\ artCall["ui"].pc = "idle" /\ artAsked # <<>>
    /\ LET r == Head(artAsked) IN
         \/ /\ r.op \in {"list", "get"}
            /\ artAnswers' = Append(artAnswers, ArtAnswer(r.op, r.id, artStore))
            /\ UNCHANGED artCall
         \/ /\ r.op \in {"create", "update", "remove"}
            /\ artCall' = [artCall EXCEPT !["ui"] = ArtCalled(r.op, r.id)]
            /\ UNCHANGED artAnswers
    /\ artAsked' = Tail(artAsked)
    /\ UNCHANGED <<artKind, artBack, artEvents, artWin, artCount, artTold, artGhost>>

(* Bookmark creation asks whether the session is open, then lets go of the *)
(* registry; the bookmark is inserted later, whatever happened meanwhile.  *)
ArtCheck(c) ==
    /\ artCall[c].pc = "check"
    /\ artCall' = [artCall EXCEPT ![c] = IF artOpen THEN [@ EXCEPT !.pc = "change"] ELSE ArtIdle]
    /\ UNCHANGED <<artKind, artBack, artAsked, artEvents, artAnswers, artWin, artCount, artTold,
                   artGhost>>

ArtFound(call) == call.op \in {"update", "remove"} => artStore[call.id].there

ArtHeld == {i \in ArtIds : artStore[i].there}

(* A restore replaces all analyses, or all bookmarks of the session, by    *)
(* what was saved.                                                         *)
ArtRestoreAnalyses ==
    /\ \E kept \in SUBSET ArtIds : ArtPut(ArtIds, kept)
    /\ UNCHANGED artStraddled
ArtRestoreBookmarks(id) ==
    /\ ArtPut(ArtHeld \cup {id}, {id})
    /\ artStraddled' = (artStraddled \/ ~artOpen)

(* The mutation itself, under the lock of the store; a close takes the     *)
(* session out of the registry first.                                      *)
ArtChange(c) ==
    LET call == artCall[c] IN
    /\ call.pc = "change"
    /\ \/ /\ call.op \in {"create", "update", "remove"} /\ ArtFound(call)
          /\ ArtPut({call.id}, IF call.op = "remove" THEN {} ELSE {call.id})
          /\ artStraddled' = (artStraddled \/ ~artOpen)
          /\ UNCHANGED <<artOpen, artRestored>>
       \/ /\ call.op = "restore"
          /\ IF artKind = "analysis" THEN ArtRestoreAnalyses ELSE ArtRestoreBookmarks(call.id)
          /\ artRestored' = artClock + 1
          /\ UNCHANGED artOpen
       \/ /\ call.op = "close"
          /\ artOpen' = FALSE
          /\ UNCHANGED <<artStore, artClock, artGhost>>
    /\ artCall' = [artCall EXCEPT ![c].pc = IF call.op = "close" THEN "clear" ELSE "emit",
                                   ![c].entry = artStore'[call.id]]
    /\ UNCHANGED <<artKind, artAsked, artEvents, artAnswers, artWin, artCount, artTold>>

(* Nothing with that id: an error, which changes nothing in the window.    *)
ArtNotFound(c) ==
    /\ artCall[c].pc = "change" /\ ~ArtFound(artCall[c])
    /\ artCall' = [artCall EXCEPT ![c] = ArtIdle]
    /\ UNCHANGED <<artKind, artBack, artAsked, artEvents, artAnswers, artWin, artCount, artTold,
                   artGhost>>

(* The bookmarks of a closed session go; its analyses stay.                *)
ArtClear(c) ==
    /\ artCall[c].pc = "clear"
    /\ ArtPut(ArtHeld, {})
    /\ artCall' = [artCall EXCEPT ![c].pc = "emit"]
    /\ UNCHANGED <<artKind, artOpen, artAsked, artEvents, artAnswers, artWin, artCount, artTold,
                   artGhost>>

(* The event, with the artifact as the mutation left it, and the answer.   *)
ArtEmit(c) ==
    LET call == artCall[c] IN
    /\ call.pc = "emit"
    /\ artEvents' = Append(artEvents, [op |-> call.op, id |-> call.id, entry |-> call.entry])
    /\ artAnswers' = IF c = "ui"
          THEN Append(artAnswers,
                      ArtAnswer(call.op, call.id, [ArtNothing EXCEPT ![call.id] = call.entry]))
          ELSE artAnswers
    /\ artCall' = [artCall EXCEPT ![c] = ArtIdle]
    /\ UNCHANGED <<artKind, artBack, artAsked, artWin, artCount, artTold, artGhost>>

----------------------------------------
(* The window.                                                             *)

(* What the window learns of the artifacts ids, as they were in told.      *)
ArtLearn(ids, told) ==
    /\ artOvertaken' = artOvertaken \cup {i \in ids : told[i].at < artSeen[i]}
    /\ artSeen' = [i \in ArtIds |-> IF i \in ids /\ told[i].at > artSeen[i]
                                     THEN told[i].at ELSE artSeen[i]]

ArtWith(list, id, entry) == [list EXCEPT ![id] = IF entry.there THEN entry ELSE ArtNever]
ArtReplaced(list, id, entry) == IF list[id].there THEN ArtWith(list, id, entry) ELSE list
ArtAdded(list, id, entry) == IF list[id].there THEN list ELSE ArtWith(list, id, entry)

(* mergeFetched: what was fetched wins, what it lacks is kept.             *)
ArtMerge(list, told) == [i \in ArtIds |-> IF told[i].there THEN told[i] ELSE list[i]]

(* A mutant: a creation makes a record for a session the window has not.   *)
MutArtAccepts == TRUE
(* The membership gate of applyEvent: a creation needs the session.        *)
ArtAccepts == artKnown

(* applyEvent and the listener for workspace-restored.                     *)
ArtBookmarkEvent(e) ==
    /\ \/ /\ e.op = "create"
          /\ IF ArtAccepts THEN artHas' = TRUE /\ artList' = ArtAdded(artList, e.id, e.entry)
             ELSE UNCHANGED <<artHas, artList>>
          /\ UNCHANGED <<artKnown, artFetched, artAsked>>
       \/ /\ e.op \in {"update", "remove"}
          /\ artList' = IF artHas THEN ArtReplaced(artList, e.id, e.entry) ELSE artList
          /\ UNCHANGED <<artKnown, artHas, artFetched, artAsked>>
       \/ /\ e.op = "restore"
          /\ artAsked' = IF artFetched THEN Append(artAsked, ArtRequest("list", ArtNoId))
                         ELSE artAsked
          /\ artHas' = (artHas \/ artFetched)
          /\ UNCHANGED <<artKnown, artFetched, artList>>
       \/ /\ e.op = "close"
          /\ artKnown' = FALSE /\ artHas' = FALSE /\ artFetched' = FALSE
          /\ artList' = ArtNothing
          /\ UNCHANGED artAsked
    /\ IF e.op \in {"create", "update", "remove"}
       THEN ArtLearn({e.id}, [ArtNothing EXCEPT ![e.id] = e.entry]) ELSE UNCHANGED artTold
    /\ UNCHANGED <<artCache, artSelected>>

(* A mutant: a deleted analysis stays in the cache.                        *)
MutArtDropped(cache, e) == IF e.op = "remove" THEN cache ELSE [cache EXCEPT ![e.id] = ArtNever]
ArtDropped(cache, e) == [cache EXCEPT ![e.id] = ArtNever]

(* onAnalysisUpdate: the cached copy goes, the one that is open is asked   *)
(* for again, and so is the list.  The event of a restore names no id.     *)
ArtAnalysisEvent(e) ==
    LET list == ArtRequest("list", ArtNoId)
        open == e.op \in {"create", "update"} /\ artSelected = e.id IN
    /\ IF e.op = "restore" THEN UNCHANGED <<artCache, artTold>>
       ELSE /\ artCache' = ArtDropped(artCache, e)
            /\ ArtLearn({e.id}, [ArtNothing EXCEPT ![e.id] = e.entry])
    /\ artAsked' = artAsked \o (IF open THEN <<ArtRequest("get", e.id), list>> ELSE <<list>>)
    /\ IF e.op = "remove"
       THEN /\ artList' = [artList EXCEPT ![e.id] = ArtNever]
            /\ artSelected' = IF artSelected = e.id THEN ArtNoId ELSE artSelected
       ELSE UNCHANGED <<artList, artSelected>>
    /\ UNCHANGED <<artKnown, artHas, artFetched>>

ArtHear ==
    /\ artEvents # <<>>
    /\ LET e == Head(artEvents) IN
         IF artKind = "bookmark" THEN ArtBookmarkEvent(e) ELSE ArtAnalysisEvent(e)
    /\ artEvents' = Tail(artEvents)
    /\ UNCHANGED <<artKind, artBack, artCall, artAnswers, artCount, artGhost>>

(* The answers of the bookmark commands: create and update make a record   *)
(* for the session again, even when the window has let go of it.           *)
ArtBookmarkAnswer(a) ==
    /\ \/ /\ a.op = "list"
          /\ artList' = IF artFetched THEN ArtMerge(artList, a.told) ELSE artList
          /\ ArtLearn(IF artFetched THEN ArtIds ELSE {}, a.told)
          /\ UNCHANGED <<artHas, artStraddled>>
       \/ /\ a.op \in {"create", "update", "remove"}
          /\ artHas' = TRUE
          /\ artList' = IF a.op = "create" THEN ArtAdded(artList, a.id, a.told[a.id])
                        ELSE ArtReplaced(artList, a.id, a.told[a.id])
          /\ ArtLearn({a.id}, a.told)
          /\ artStraddled' = (artStraddled \/ ~artKnown)
    /\ UNCHANGED <<artAsked, artCache, artSelected>>

(* The answers of the analysis commands; a published one is selected.      *)
ArtAnalysisAnswer(a) ==
    /\ \/ /\ a.op = "list"
          /\ artList' = [i \in ArtIds |-> IF a.told[i].there THEN a.told[i] ELSE ArtNever]
          /\ UNCHANGED <<artCache, artSelected, artTold>>
       \/ /\ a.op = "get"
          /\ artCache' = IF a.told[a.id].there THEN ArtWith(artCache, a.id, a.told[a.id])
                         ELSE artCache
          /\ ArtLearn({a.id}, a.told)
          /\ UNCHANGED <<artList, artSelected>>
       \/ /\ a.op \in {"create", "update", "remove"}
          /\ artCache' = ArtWith(artCache, a.id, a.told[a.id])
          /\ artList' = IF a.op = "create" THEN ArtAdded(artList, a.id, a.told[a.id])
                        ELSE ArtReplaced(artList, a.id, a.told[a.id])
          /\ artSelected' = CASE a.op = "create" -> a.id
                              [] a.op = "remove" /\ artSelected = a.id -> ArtNoId
                              [] OTHER -> artSelected
          /\ ArtLearn({a.id}, a.told)
    /\ UNCHANGED <<artAsked, artHas, artStraddled>>

ArtReceive ==
    /\ artAnswers # <<>>
    /\ LET a == Head(artAnswers) IN
         IF artKind = "bookmark" THEN ArtBookmarkAnswer(a) ELSE ArtAnalysisAnswer(a)
    /\ artAnswers' = Tail(artAnswers)
    /\ UNCHANGED <<artKind, artBack, artCall, artEvents, artKnown, artFetched, artCount,
                   artRestored>>

(* What the user does: create, change or delete, open an analysis, or      *)
(* focus the session, which fetches its bookmarks the first time.          *)
ArtClick ==
    /\ artCount.clicks < ArtMaxClicks
    /\ artCount' = [artCount EXCEPT !.clicks = @ + 1]
    /\ \/ \E i \in ArtIds, op \in {"create", "update", "remove"} :
            /\ IF op = "create" THEN ArtFresh(i) ELSE artList[i].there
            /\ artKind = "bookmark" => artKnown
            /\ artAsked' = Append(artAsked, ArtRequest(op, i))
            /\ UNCHANGED <<artHas, artFetched, artSelected>>
       \/ \E i \in ArtIds :
            /\ artKind = "analysis" /\ artList[i].there /\ artSelected' = i
            /\ artAsked' = IF artCache[i].there THEN artAsked
                           ELSE Append(artAsked, ArtRequest("get", i))
            /\ UNCHANGED <<artHas, artFetched>>
       \/ /\ artKind = "bookmark" /\ artKnown /\ ~artFetched
          /\ artFetched' = TRUE /\ artHas' = TRUE
          /\ artAsked' = Append(artAsked, ArtRequest("list", ArtNoId))
          /\ UNCHANGED artSelected
    /\ UNCHANGED <<artKind, artBack, artCall, artEvents, artAnswers, artKnown, artList, artCache,
                   artTold, artGhost>>

ArtCallStep(c) == ArtCheck(c) \/ ArtChange(c) \/ ArtNotFound(c) \/ ArtClear(c) \/ ArtEmit(c)

ArtNext ==
    \/ \E c \in ArtAgents : ArtCallStart(c)
    \/ \E c \in ArtCallers : ArtCallStep(c)
    \/ ArtCommandStart \/ ArtHear \/ ArtReceive \/ ArtClick

ArtSpec == ArtInit /\ [][ArtNext]_artVars

----------------------------------------
ArtSettled ==
    /\ \A c \in ArtCallers : artCall[c].pc = "idle"
    /\ artAsked = <<>> /\ artEvents = <<>> /\ artAnswers = <<>>

ArtAgrees(copy, i) ==
    IF artStore[i].there THEN copy[i] = artStore[i] ELSE ~copy[i].there

(* Once everything has been told, the list of analyses is the store's,     *)
(* whatever the order of events and answers was: the list is asked for     *)
(* again after every event (analysesStore.ts:249-270, 321).  What the      *)
(* reader has cached is the store's unless the window was told of that     *)
(* analysis out of order, or the store was replaced since.                 *)
ArtAnalysesSettle ==
    artKind = "analysis" /\ ArtSettled =>
      \A i \in ArtIds :
        /\ ArtAgrees(artList, i)
        /\ artCache[i].there /\ i \notin artOvertaken /\ artCache[i].at >= artRestored =>
              ArtAgrees(artCache, i)

(* The bookmarks of an open session are the store's in the window, except  *)
(* for one that the window was told of out of order (bookmarksStore.ts:    *)
(* 223-227) and one that a restore dropped, which the window keeps; a      *)
(* closed session has none in the store nor in the window, unless a        *)
(* creation or an answer crossed the closing (bookmarks.rs:35-66,          *)
(* bookmarksStore.ts:429-462).                                             *)
ArtBookmarksSettle ==
    artKind = "bookmark" /\ ArtSettled =>
      /\ artOpen /\ artFetched =>
           \A i \in ArtIds \ artOvertaken :
             ArtAgrees(artList, i) \/ (~artStore[i].there /\ artList[i].at < artRestored)
      /\ ~artOpen /\ ~artStraddled => ~artHas /\ ArtHeld = {}

ArtCopiesSettle == ArtAnalysesSettle /\ ArtBookmarksSettle
=============================================================================
