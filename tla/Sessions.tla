------------------------------ MODULE Sessions ------------------------------
(***************************************************************************)
(* The session registry and the background indexer of files:              *)
(* services/sessions.rs (open_file, close, run_background_indexer),        *)
(* core/session_identity.rs, commands/files.rs (restore_artifacts).        *)
(*                                                                         *)
(* One file on disk.  A session id is a function of the file's content and *)
(* of the source type the caller asked for, so opening the same bytes      *)
(* again yields the same id; `generation' tells the instances apart.  One  *)
(* step is one critical section.  Bookmarks stand for bookmarks and        *)
(* pipeline meta, which travel the same way.                               *)
(*                                                                         *)
(* Every name carries the prefix Ses: the module is meant to be extended   *)
(* beside others.                                                          *)
(***************************************************************************)
EXTENDS Integers, FiniteSets, Sequences, SequencesExt

CONSTANTS
    SesOpeners,   \* threads that may call open
    SesLabels,    \* source types a caller may ask for (or "detected")
    SesMarks,     \* bookmarks that may be created
    SesChunks,    \* chunks left to the background indexer, by version
    SesMaxVer,    \* bound: how often the file is rewritten
    SesMaxGen     \* bound: how many sessions are created

ASSUME SesAssumption ==
    /\ SesMaxVer \in Nat
    /\ SesMaxGen \in Nat
    /\ SesChunks \in [0..SesMaxVer -> Nat]

SesIds == [ver : 0..SesMaxVer, label : SesLabels]
SesNone == [ver |-> -1, label |-> "none"]
SesGens == 1..SesMaxGen

VARIABLES
    sesDisk,       \* the version of the file on disk
    sesLive,       \* `sessions': the instance stored under each id
    sesTasks,      \* `indexing_tasks': whose cancel sender is stored
    sesCancelled,  \* receivers that would not read Empty, or are gone
    sesIndexer,    \* the background indexers
    sesMarksOf,    \* `bookmarks'
    sesCite,       \* the session an analysis reference is attributed to
    sesNextGen,    \* SESSION_GENERATION
    sesOpen,       \* the locals of each open call
    sesClose,      \* the locals of a close call
    sesPush,       \* the locals of a bookmark creation
    sesShown       \* the sessions the front end believes open

(* History: the bookmarks created, why one or the reference may be gone,   *)
(* and whether calls overlapped.                                           *)
VARIABLES
    sesStored,     \* bookmarks that create has stored
    sesExcused,    \* closed by the user, lost with a replaced file, ...
    sesOverlap     \* two of the calls above were under way at once

sesIndexing == <<sesLive, sesTasks, sesCancelled, sesIndexer>>
sesArtifacts == <<sesMarksOf, sesCite>>
sesWorld == <<sesDisk, sesNextGen, sesShown>>
sesCalls == <<sesOpen, sesClose, sesPush>>
sesHistory == <<sesStored, sesExcused, sesOverlap>>
sesVars == <<sesIndexing, sesArtifacts, sesWorld, sesCalls, sesHistory>>

SesNoSession == [gen |-> 0, indexed |-> <<>>, indexing |-> FALSE]
SesIdle == [pc |-> "idle", id |-> SesNone, mine |-> {}, left |-> {},
            gone |-> {}, gen |-> 0]
SesNoIndexer == [pc |-> "none", id |-> SesNone, cursor |-> 0]

SesIsLive(id) == sesLive[id].gen # 0
SesLiveIds == {id \in SesIds : SesIsLive(id)}

SesTypeOK ==
    /\ sesDisk \in 0..SesMaxVer
    /\ sesLive \in [SesIds -> [gen : 0..SesMaxGen, indexed : Seq(Nat),
                               indexing : BOOLEAN]]
    /\ sesTasks \in [SesIds -> 0..SesMaxGen]
    /\ sesCancelled \subseteq SesGens
    /\ sesIndexer \in [SesGens ->
                         [pc : {"none", "check", "chunk", "finish", "ended"},
                          id : SesIds \cup {SesNone}, cursor : Nat]]
    /\ sesMarksOf \in [SesIds -> SUBSET SesMarks]
    /\ sesCite \in SesIds \cup {SesNone}
    /\ sesNextGen \in 1..(SesMaxGen + 1)
    /\ sesOpen \in [SesOpeners ->
                      [pc : {"idle", "rescue", "take", "list", "task", "live",
                             "artifacts", "announce", "load", "insert",
                             "restore", "spawn", "answer"},
                       id : SesIds \cup {SesNone}, mine : SUBSET SesMarks,
                       left : SUBSET SesIds, gone : SUBSET SesIds,
                       gen : 0..SesMaxGen]]
    /\ sesClose \in [pc : {"idle", "task", "live", "artifacts", "announce"},
                     id : SesIds \cup {SesNone}]
    /\ sesPush \in [mark : SesMarks \cup {"none"}, id : SesIds \cup {SesNone}]
    /\ sesShown \subseteq SesIds
    /\ sesStored \subseteq SesMarks
    /\ sesExcused \subseteq SesMarks \cup {"failed", "cite"}
    /\ sesOverlap \in BOOLEAN

SesInit ==
    /\ sesDisk = 0
    /\ sesLive = [id \in SesIds |-> SesNoSession]
    /\ sesTasks = [id \in SesIds |-> 0]
    /\ sesCancelled = {}
    /\ sesIndexer = [g \in SesGens |-> SesNoIndexer]
    /\ sesMarksOf = [id \in SesIds |-> {}]
    /\ sesCite = SesNone
    /\ sesNextGen = 1
    /\ sesOpen = [o \in SesOpeners |-> SesIdle]
    /\ sesClose = [pc |-> "idle", id |-> SesNone]
    /\ sesPush = [mark |-> "none", id |-> SesNone]
    /\ sesShown = {}
    /\ sesStored = {}
    /\ sesExcused = {}
    /\ sesOverlap = FALSE

----------------------------------------
(* The critical sections of close_session_state, used by every caller.     *)

(* Removing or replacing a sender drops it: its receiver reads Closed, and *)
(* indexer_cancelled takes that for a cancellation.                        *)
SesDropSender(id) == sesCancelled \cup ({sesTasks[id]} \ {0})

SesRemoveTask(id) ==
    /\ sesCancelled' = SesDropSender(id)
    /\ sesTasks' = [sesTasks EXCEPT ![id] = 0]

SesRemoveSession(id) == sesLive' = [sesLive EXCEPT ![id] = SesNoSession]

SesRemoveArtifacts(id) == sesMarksOf' = [sesMarksOf EXCEPT ![id] = {}]

SesBusy == {o \in SesOpeners : sesOpen[o].pc # "idle"}
SesQuiet == SesBusy = {} /\ sesClose.pc = "idle" /\ sesPush.mark = "none"

(* A call starts while another is under way. *)
SesNoteOverlap == sesOverlap' = (sesOverlap \/ ~SesQuiet)

----------------------------------------
(* open_file, up to the load: the id is derived from disk, the artifacts   *)
(* of a session the file can still reproduce are rescued, every session of *)
(* the file is closed.                                                     *)

SesOpenStart(o, label) ==
    /\ sesOpen[o].pc = "idle"
    /\ sesNextGen <= SesMaxGen
    /\ sesOpen' = [sesOpen EXCEPT
                     ![o] = [SesIdle EXCEPT
                               !.pc = "rescue",
                               !.id = [ver |-> sesDisk, label |-> label]]]
    /\ SesNoteOverlap
    /\ UNCHANGED <<sesWorld, sesIndexing, sesArtifacts, sesClose, sesPush,
                   sesExcused, sesStored>>

MutSesMigratable(id) == [id EXCEPT !.ver = sesDisk, !.label = "detected"] = id
(* Derived again from the bytes now on disk, with the session's own label. *)
SesMigratable(id) == [id EXCEPT !.ver = sesDisk] = id

SesRescue(o) ==
    /\ sesOpen[o].pc = "rescue"
    /\ LET found == {id \in SesLiveIds : SesMigratable(id)} IN
       /\ sesOpen' = [sesOpen EXCEPT ![o].pc = "take", ![o].left = found]
       /\ sesCite' = IF sesCite \in found THEN sesOpen[o].id ELSE sesCite
    /\ sesExcused' = sesExcused \cup
          UNION {sesMarksOf[id] \cup {"cite"} :
                   id \in {i \in SesLiveIds : i.ver # sesDisk}}
    /\ UNCHANGED <<sesWorld, sesIndexing, sesMarksOf, sesClose, sesPush,
                   sesOverlap, sesStored>>

SesTake(o) ==
    /\ sesOpen[o].pc = "take"
    /\ LET left == sesOpen[o].left IN
       /\ sesMarksOf' = [id \in SesIds |-> IF id \in left THEN {}
                                           ELSE sesMarksOf[id]]
       /\ sesOpen' = [sesOpen EXCEPT
                        ![o].pc = "list",
                        ![o].mine = UNION {sesMarksOf[id] : id \in left},
                        ![o].left = {}]
    /\ UNCHANGED <<sesWorld, sesIndexing, sesCite, sesClose, sesPush,
                   sesHistory>>

(* close_stale_sessions: all sessions of the path, whatever their id. *)
SesStale == SesLiveIds

SesListStale(o) ==
    /\ sesOpen[o].pc = "list"
    /\ sesOpen' = [sesOpen EXCEPT ![o].pc = "task", ![o].left = SesStale,
                                  ![o].gone = SesStale]
    /\ UNCHANGED <<sesWorld, sesIndexing, sesArtifacts, sesClose, sesPush,
                   sesHistory>>

SesCloseStaleTask(o) ==
    /\ sesOpen[o].pc = "task"
    /\ IF sesOpen[o].left = {}
         THEN /\ sesOpen' = [sesOpen EXCEPT ![o].pc = "announce"]
              /\ UNCHANGED <<sesCancelled, sesTasks>>
         ELSE /\ sesOpen' = [sesOpen EXCEPT ![o].pc = "live"]
              /\ SesRemoveTask(CHOOSE id \in sesOpen[o].left : TRUE)
    /\ UNCHANGED <<sesWorld, sesLive, sesIndexer, sesArtifacts, sesClose,
                   sesPush, sesHistory>>

SesCloseStaleSession(o) ==
    /\ sesOpen[o].pc = "live"
    /\ SesRemoveSession(CHOOSE id \in sesOpen[o].left : TRUE)
    /\ sesOpen' = [sesOpen EXCEPT ![o].pc = "artifacts"]
    /\ UNCHANGED <<sesWorld, sesTasks, sesCancelled, sesIndexer, sesArtifacts,
                   sesClose, sesPush, sesHistory>>

SesCloseStaleArtifacts(o) ==
    /\ sesOpen[o].pc = "artifacts"
    /\ LET id == CHOOSE id \in sesOpen[o].left : TRUE IN
       /\ SesRemoveArtifacts(id)
       /\ sesOpen' = [sesOpen EXCEPT ![o].pc = "task",
                                     ![o].left = @ \ {id}]
    /\ UNCHANGED <<sesWorld, sesIndexing, sesCite, sesClose, sesPush,
                   sesHistory>>

(* The front end is told of the closed ones, but for the id about to be    *)
(* reused.                                                                 *)
SesAnnounceStale(o) ==
    /\ sesOpen[o].pc = "announce"
    /\ sesShown' = sesShown \ (sesOpen[o].gone \ {sesOpen[o].id})
    /\ sesOpen' = [sesOpen EXCEPT ![o].pc = "load"]
    /\ UNCHANGED <<sesDisk, sesIndexing, sesArtifacts, sesNextGen, sesClose,
                   sesPush, sesHistory>>

----------------------------------------
(* open_file, from the load on. *)

(* add_source_partial_typed fails: the error is returned, what was rescued *)
(* goes with the call, and a session of this id was closed unannounced.    *)
SesLoadFails(o) ==
    /\ sesOpen[o].pc = "load"
    /\ sesOpen' = [sesOpen EXCEPT ![o] = SesIdle]
    /\ sesExcused' = sesExcused \cup sesOpen[o].mine \cup {"failed"}
    /\ UNCHANGED <<sesWorld, sesIndexing, sesArtifacts, sesClose, sesPush,
                   sesOverlap, sesStored>>

SesLoad(o) ==
    /\ sesOpen[o].pc = "load"
    /\ sesNextGen <= SesMaxGen
    /\ sesOpen' = [sesOpen EXCEPT ![o].pc = "insert", ![o].gen = sesNextGen]
    /\ sesNextGen' = sesNextGen + 1
    /\ UNCHANGED <<sesDisk, sesIndexing, sesArtifacts, sesClose, sesPush,
                   sesShown, sesHistory>>

SesIndexingNeeded(id) == SesChunks[id.ver] > 0

SesInsert(o) ==
    /\ sesOpen[o].pc = "insert"
    /\ LET id == sesOpen[o].id IN
       sesLive' = [sesLive EXCEPT
                     ![id] = [gen |-> sesOpen[o].gen, indexed |-> <<0>>,
                              indexing |-> SesIndexingNeeded(id)]]
    /\ sesOpen' = [sesOpen EXCEPT ![o].pc = "restore"]
    /\ UNCHANGED <<sesWorld, sesTasks, sesCancelled, sesIndexer, sesArtifacts,
                   sesClose, sesPush, sesHistory>>

(* RescuedArtifacts::restore_onto: what is there already is replaced. *)
SesRestore(o) ==
    /\ sesOpen[o].pc = "restore"
    /\ sesMarksOf' = IF sesOpen[o].mine = {} THEN sesMarksOf
                     ELSE [sesMarksOf EXCEPT
                             ![sesOpen[o].id] = sesOpen[o].mine]
    /\ sesOpen' = [sesOpen EXCEPT
                     ![o].pc = IF SesIndexingNeeded(sesOpen[o].id)
                                 THEN "spawn" ELSE "answer",
                     ![o].mine = {}]
    /\ UNCHANGED <<sesWorld, sesIndexing, sesCite, sesClose, sesPush,
                   sesHistory>>

(* The cancel sender is stored, over one of an earlier instance if that is *)
(* still there, and the indexer starts.                                    *)
SesSpawn(o) ==
    /\ sesOpen[o].pc = "spawn"
    /\ LET id == sesOpen[o].id
           g == sesOpen[o].gen
       IN /\ sesCancelled' = SesDropSender(id)
          /\ sesTasks' = [sesTasks EXCEPT ![id] = g]
          /\ sesIndexer' = [sesIndexer EXCEPT
                              ![g] = [pc |-> "check", id |-> id, cursor |-> 0]]
    /\ sesOpen' = [sesOpen EXCEPT ![o].pc = "answer"]
    /\ UNCHANGED <<sesWorld, sesLive, sesArtifacts, sesClose, sesPush,
                   sesHistory>>

(* The result reaches the front end: the command's answer for a UI caller, *)
(* session-opened for an agent.                                            *)
SesAnswer(o) ==
    /\ sesOpen[o].pc = "answer"
    /\ sesShown' = sesShown \cup {sesOpen[o].id}
    /\ sesOpen' = [sesOpen EXCEPT ![o] = SesIdle]
    /\ UNCHANGED <<sesDisk, sesIndexing, sesArtifacts, sesNextGen, sesClose,
                   sesPush, sesHistory>>

----------------------------------------
(* close: UI command and bridge route.  Any session the front end shows.   *)

SesCloseStart(id) ==
    /\ sesClose.pc = "idle"
    /\ id \in sesShown
    /\ sesClose' = [pc |-> "task", id |-> id]
    /\ SesNoteOverlap
    /\ UNCHANGED <<sesWorld, sesIndexing, sesArtifacts, sesOpen, sesPush,
                   sesExcused, sesStored>>

SesCloseTask ==
    /\ sesClose.pc = "task"
    /\ SesRemoveTask(sesClose.id)
    /\ sesClose' = [sesClose EXCEPT !.pc = "live"]
    /\ UNCHANGED <<sesWorld, sesLive, sesIndexer, sesArtifacts, sesOpen,
                   sesPush, sesHistory>>

SesCloseSession ==
    /\ sesClose.pc = "live"
    /\ SesRemoveSession(sesClose.id)
    /\ sesClose' = [sesClose EXCEPT !.pc = "artifacts"]
    /\ UNCHANGED <<sesWorld, sesTasks, sesCancelled, sesIndexer, sesArtifacts,
                   sesOpen, sesPush, sesHistory>>

SesCloseArtifacts ==
    /\ sesClose.pc = "artifacts"
    /\ SesRemoveArtifacts(sesClose.id)
    /\ sesExcused' = sesExcused \cup sesMarksOf[sesClose.id] \cup {"cite"}
    /\ sesClose' = [sesClose EXCEPT !.pc = "announce"]
    /\ UNCHANGED <<sesWorld, sesIndexing, sesCite, sesOpen, sesPush,
                   sesOverlap, sesStored>>

SesCloseAnnounce ==
    /\ sesClose.pc = "announce"
    /\ sesShown' = sesShown \ {sesClose.id}
    /\ sesClose' = [pc |-> "idle", id |-> SesNone]
    /\ UNCHANGED <<sesDisk, sesIndexing, sesArtifacts, sesNextGen, sesOpen,
                   sesPush, sesHistory>>

SesClose == SesCloseTask \/ SesCloseSession \/ SesCloseArtifacts
               \/ SesCloseAnnounce

----------------------------------------
(* bookmarks::create looks the session up in one critical section and      *)
(* stores the bookmark in another.                                         *)

(* Bound: a behaviour has one artifact, a bookmark or a reference. *)
SesNoArtifactYet == sesStored = {} /\ sesCite = SesNone

SesPushCheck(b, id) ==
    /\ sesPush.mark = "none"
    /\ SesNoArtifactYet
    /\ SesIsLive(id)
    /\ sesPush' = [mark |-> b, id |-> id]
    /\ SesNoteOverlap
    /\ UNCHANGED <<sesWorld, sesIndexing, sesArtifacts, sesOpen, sesClose,
                   sesExcused, sesStored>>

SesPushStore ==
    /\ sesPush.mark # "none"
    /\ sesMarksOf' = [sesMarksOf EXCEPT ![sesPush.id] = @ \cup {sesPush.mark}]
    /\ sesStored' = sesStored \cup {sesPush.mark}
    /\ sesPush' = [mark |-> "none", id |-> SesNone]
    /\ UNCHANGED <<sesWorld, sesIndexing, sesCite, sesOpen, sesClose,
                   sesExcused, sesOverlap>>

(* An analysis that refers to a live session is published. *)
SesPublish(id) ==
    /\ SesNoArtifactYet
    /\ SesIsLive(id)
    /\ sesCite' = id
    /\ SesNoteOverlap
    /\ UNCHANGED <<sesWorld, sesIndexing, sesMarksOf, sesCalls, sesExcused,
                   sesStored>>

(* Another program replaces the file's content. *)
SesRewrite ==
    /\ sesDisk < SesMaxVer
    /\ sesDisk' = sesDisk + 1
    /\ UNCHANGED <<sesIndexing, sesArtifacts, sesNextGen, sesCalls, sesShown,
                   sesHistory>>

----------------------------------------
(* run_background_indexer: one chunk is a look at the cancel receiver and  *)
(* then one critical section of `sessions'.                                *)

SesEnd(g) ==
    /\ sesIndexer' = [sesIndexer EXCEPT
                        ![g] = [SesNoIndexer EXCEPT !.pc = "ended"]]
    /\ sesCancelled' = sesCancelled \cup {g}

SesIndexerCheck(g) ==
    /\ sesIndexer[g].pc = "check"
    /\ IF g \in sesCancelled
         THEN SesEnd(g)
         ELSE /\ sesIndexer' = [sesIndexer EXCEPT ![g].pc = "chunk"]
              /\ UNCHANGED sesCancelled
    /\ UNCHANGED <<sesWorld, sesLive, sesTasks, sesArtifacts, sesCalls,
                   sesHistory>>

MutSesSameInstance(g) == SesIsLive(sesIndexer[g].id)
MutSesSameInstance2(g) == sesLive[sesIndexer[g].id].gen = g + 1
(* The session under the id is the instance this indexer was started for. *)
SesSameInstance(g) == sesLive[sesIndexer[g].id].gen = g

SesIndexerChunk(g) ==
    /\ sesIndexer[g].pc = "chunk"
    /\ LET id == sesIndexer[g].id
           next == sesIndexer[g].cursor + 1
           done == next >= SesChunks[id.ver]
       IN IF SesIsLive(id) /\ SesSameInstance(g)
            THEN /\ sesLive' = [sesLive EXCEPT
                                  ![id].indexed = Append(@, next),
                                  ![id].indexing = ~done]
                 /\ sesIndexer' = [sesIndexer EXCEPT
                                     ![g].cursor = next,
                                     ![g].pc = IF done THEN "finish"
                                                       ELSE "check"]
                 /\ UNCHANGED sesCancelled
            ELSE /\ SesEnd(g)
                 /\ UNCHANGED sesLive
    /\ UNCHANGED <<sesWorld, sesTasks, sesArtifacts, sesCalls, sesHistory>>

(* After file-index-complete the sender stored under the session's id is   *)
(* dropped: this indexer's, or that of whichever one came after it.        *)
SesIndexerFinish(g) ==
    /\ sesIndexer[g].pc = "finish"
    /\ sesTasks' = [sesTasks EXCEPT ![sesIndexer[g].id] = 0]
    /\ sesIndexer' = [sesIndexer EXCEPT
                        ![g] = [SesNoIndexer EXCEPT !.pc = "ended"]]
    /\ sesCancelled' = SesDropSender(sesIndexer[g].id) \cup {g}
    /\ UNCHANGED <<sesWorld, sesLive, sesArtifacts, sesCalls, sesHistory>>

SesIndexerStep(g) ==
    SesIndexerCheck(g) \/ SesIndexerChunk(g) \/ SesIndexerFinish(g)

SesOpenStep(o) ==
    \/ SesRescue(o) \/ SesTake(o) \/ SesListStale(o)
    \/ SesCloseStaleTask(o) \/ SesCloseStaleSession(o)
    \/ SesCloseStaleArtifacts(o) \/ SesAnnounceStale(o)
    \/ SesLoadFails(o) \/ SesLoad(o) \/ SesInsert(o) \/ SesRestore(o)
    \/ SesSpawn(o) \/ SesAnswer(o)

SesNext ==
    \/ \E o \in SesOpeners :
          SesOpenStep(o) \/ \E l \in SesLabels : SesOpenStart(o, l)
    \/ \E id \in SesIds : SesCloseStart(id) \/ SesPublish(id)
                              \/ \E b \in SesMarks : SesPushCheck(b, id)
    \/ SesClose \/ SesPushStore \/ SesRewrite
    \/ \E g \in SesGens : SesIndexerStep(g)

SesSpec == SesInit /\ [][SesNext]_sesVars

(* Calls and indexers are tasks of the runtime: one that is under way goes *)
(* on.  Nobody has to open, close, bookmark or publish.                    *)
SesFairness ==
    /\ \A o \in SesOpeners : WF_sesVars(SesOpenStep(o))
    /\ \A g \in SesGens : WF_sesVars(SesIndexerStep(g))
    /\ WF_sesVars(SesClose)
    /\ WF_sesVars(SesPushStore)

SesFairSpec == SesSpec /\ SesFairness

----------------------------------------
(* Properties. *)

(* The index of a session consists of the chunks of its file, each once    *)
(* and in order, and it says it is complete only when it has them all:     *)
(* no indexer of an earlier instance ever writes into a later one          *)
(* (core/session.rs, the generation token).                                *)
SesIndexIsPrefix ==
    \A id \in SesLiveIds :
      LET s == sesLive[id] IN
      /\ s.indexed = [i \in 1..Len(s.indexed) |-> i - 1]
      /\ ~s.indexing <=> Len(s.indexed) = SesChunks[id.ver] + 1

(* When no call is under way and the calls so far did not overlap:         *)
(* one file has one session, ...                                           *)
SesOneSessionPerFile == Cardinality(SesLiveIds) <= 1

(* ... a bookmark stored once is found under a live session, whatever the  *)
(* source type the file was reopened under, and an analysis refers to the  *)
(* live session of the same bytes (what is excused was closed by the user, *)
(* went with replaced content, or was in the hands of an open that failed), *)
SesArtifactsFollow ==
    /\ \A b \in sesStored \ sesExcused :
         \E id \in SesLiveIds : b \in sesMarksOf[id]
    /\ {"failed", "cite"} \cap sesExcused = {} =>
         \A id \in SesLiveIds :
           sesCite # SesNone /\ sesCite.ver = id.ver => sesCite = id

(* ... and the front end shows what is open. *)
SesShownIsLive == "failed" \notin sesExcused => sesShown = SesLiveIds

SesRegistrySettled ==
    SesQuiet /\ ~sesOverlap =>
      SesOneSessionPerFile /\ SesArtifactsFollow /\ SesShownIsLive

(* The index of a session is right while it grows, the registry once the   *)
(* calls have been answered.                                               *)
SesSound == SesIndexIsPrefix /\ SesRegistrySettled

(* An indexer whose session and cancel sender are left in place completes  *)
(* the session.                                                            *)
SesUndisturbed(id, g) ==
    sesTasks[id] = g /\ sesLive[id].gen = g /\ sesLive[id].indexing

SesUndisturbedCompletes ==
    \A id \in SesIds, g \in SesGens :
      SesUndisturbed(id, g) ~> ~SesUndisturbed(id, g)

(* What the tool description of open_file promises (mcp-server/src/        *)
(* server.ts): a session that is being indexed settles.                    *)
SesIndexingSettles ==
    \A id \in SesIds : sesLive[id].indexing ~> ~sesLive[id].indexing
=============================================================================
