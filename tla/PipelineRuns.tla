---------------------------- MODULE PipelineRuns ----------------------------
(***************************************************************************)
(* Runs of a session's processor chain: services/pipeline.rs (run),        *)
(* services/chain.rs, the run registry of commands/mod.rs, and the close   *)
(* and reopen of the session from services/sessions.rs.                    *)
(*                                                                         *)
(* Runs of one session are serialised by a lock object that is looked up   *)
(* by session id; a cancel token is registered per run.  One session id is *)
(* modelled: other sessions have locks of their own.  A chain is the set   *)
(* of its members (their order is not modelled).  The three result maps    *)
(* are tagged with the run that stored them.  One step is one critical     *)
(* section.  Every name carries the prefix Run.                            *)
(***************************************************************************)
EXTENDS Integers, FiniteSets

CONSTANTS
    RunCalls,      \* run requests; each is made at most once
    RunProcs,      \* processor ids
    RunInstalled,  \* ... those installed
    RunChunks,     \* chunks of 50,000 lines in the source
    RunMaxInst,    \* bound: how often the session is opened
    RunMaxEdits    \* bound: how often the user edits the chain

ASSUME RunAssumption ==
    /\ RunInstalled \subseteq RunProcs
    /\ RunChunks \in Nat
    /\ RunMaxInst \in Nat \ {0}
    /\ RunMaxEdits \in Nat

RunNobody == "nobody"
ASSUME RunNobodyAssumption == RunNobody \notin RunCalls

RunMaps == {"tracker", "correlator", "reporter"}
RunNoChain == [active |-> {}, disabled |-> {}, set |-> FALSE]
RunChains == [active : SUBSET RunProcs, disabled : SUBSET RunProcs,
              set : BOOLEAN]

VARIABLES
    runInst,    \* which instance of the session is live, 0 if none
    runOpened,  \* instances so far
    runLock,    \* pipeline_run_locks: the lock object stored, 0 if none
    runLocks,   \* lock objects made so far
    runTokens,  \* pipeline_cancels: registered runs
    runCancel,  \* tokens that are set
    runCall,    \* the locals of each run
    runChain,   \* session_pipeline_meta
    runEdits,   \* chain edits by the user so far
    runStore,   \* the three result maps: who stored the entry
    runCloser   \* the locals of a close or a reopen

(* History: runs a stop was meant for, and whether a step of a close fell  *)
(* into a run.                                                             *)
VARIABLES runStopped, runTorn

runSession == <<runInst, runOpened>>
runRegistry == <<runLock, runLocks, runTokens, runCancel>>
runMeta == <<runChain, runEdits>>
runHistory == <<runStopped, runTorn>>
runVars == <<runSession, runRegistry, runCall, runMeta, runStore, runCloser,
             runHistory>>

RunIdle == [pc |-> "idle", lock |-> 0, want |-> {}, read |-> RunNoChain,
            ids |-> {}, chunks |-> 0, answer |-> "none"]

RunWaiting == {"register", "queued"}
RunInside == {"resolve", "ensure", "patch", "commit", "again", "gate", "snapshot",
              "chunk", "tracker", "correlator", "reporter"}

RunTypeOK ==
    /\ runInst \in 0..RunMaxInst
    /\ runOpened \in 0..RunMaxInst
    /\ runLock \in Nat
    /\ runLocks \in Nat
    /\ runTokens \subseteq RunCalls
    /\ runCancel \subseteq RunCalls
    /\ runCall \in [RunCalls ->
         [pc : {"idle", "done"} \cup RunWaiting \cup RunInside,
          lock : Nat, want : SUBSET RunProcs, read : RunChains,
          ids : SUBSET RunProcs, chunks : Nat,
          answer : {"none", "ok", "cancelled", "error"}]]
    /\ runChain \in RunChains
    /\ runEdits \in 0..RunMaxEdits
    /\ runStore \in [RunMaps -> RunCalls \cup {RunNobody}]
    /\ runCloser \in [pc : {"idle", "sessions", "tracker", "correlator",
                            "reporter", "meta", "locks", "insert", "restore"},
                      reopen : BOOLEAN, meta : RunChains]
    /\ runStopped \subseteq RunCalls
    /\ runTorn \in BOOLEAN

RunNoCloser == [pc |-> "idle", reopen |-> FALSE, meta |-> RunNoChain]

RunInit ==
    /\ runInst = 1
    /\ runOpened = 1
    /\ runLock = 0
    /\ runLocks = 0
    /\ runTokens = {}
    /\ runCancel = {}
    /\ runCall = [c \in RunCalls |-> RunIdle]
    /\ runChain = RunNoChain
    /\ runEdits = 0
    /\ runStore = [m \in RunMaps |-> RunNobody]
    /\ runCloser = RunNoCloser
    /\ runStopped = {}
    /\ runTorn = FALSE

RunAt(c, pc) == runCall[c].pc = pc
RunGo(c, pc) == runCall' = [runCall EXCEPT ![c].pc = pc]

MutRunReturn(c, answer) ==
    /\ answer # "error"
    /\ runCall' = [runCall EXCEPT ![c].pc = "done", ![c].answer = answer]
    /\ runTokens' = runTokens \ {c}
    /\ runCancel' = runCancel \ {c}

(* The guards of run_blocking are dropped on every return: the run lock    *)
(* (a run holds it while it is inside) and the token.                      *)
RunReturn(c, answer) ==
    /\ runCall' = [runCall EXCEPT
                     ![c] = [RunIdle EXCEPT !.pc = "done", !.answer = answer,
                                            !.chunks = runCall[c].chunks]]
    /\ runTokens' = runTokens \ {c}
    /\ runCancel' = runCancel \ {c}

----------------------------------------
(* run_blocking. *)

(* pipeline_run_lock: the lock object of the session, made if missing.     *)
(* `want' is the explicit processor list, {} for the chain alone.          *)
RunStart(c, want) ==
    /\ RunAt(c, "idle")
    /\ LET lock == IF runLock = 0 THEN runLocks + 1 ELSE runLock IN
       /\ runLock' = lock
       /\ runLocks' = IF runLock = 0 THEN lock ELSE runLocks
       /\ runCall' = [runCall EXCEPT ![c].pc = "register", ![c].lock = lock,
                                     ![c].want = want]
    /\ UNCHANGED <<runSession, runTokens, runCancel, runMeta, runStore,
                   runCloser, runHistory>>

MutRunRegister(c) ==
    /\ RunAt(c, "register")
    /\ RunGo(c, "queued")
    /\ UNCHANGED <<runSession, runRegistry, runMeta, runStore, runCloser,
                   runHistory>>

RunRegister(c) ==
    /\ RunAt(c, "register")
    /\ runTokens' = runTokens \cup {c}
    /\ RunGo(c, "queued")
    /\ UNCHANGED <<runSession, runLock, runLocks, runCancel, runMeta,
                   runStore, runCloser, runHistory>>

MutRunLockFree(lock) == TRUE

RunLockFree(lock) ==
    \A d \in RunCalls :
      ~(runCall[d].lock = lock /\ runCall[d].pc \in RunInside)

RunAcquire(c) ==
    /\ RunAt(c, "queued")
    /\ RunLockFree(runCall[c].lock)
    /\ RunGo(c, "resolve")
    /\ UNCHANGED <<runSession, runRegistry, runMeta, runStore, runCloser,
                   runHistory>>

(* resolve_effective_chain: the explicit list, every member of which must  *)
(* be installed, or else the enabled, installed members of the chain.      *)
RunEffective(want) ==
    IF want # {} THEN want
    ELSE (runChain.active \ runChain.disabled) \cap RunInstalled

RunResolvable(want) ==
    /\ IF want # {} THEN want \subseteq RunInstalled ELSE runChain.set
    /\ RunEffective(want) # {}

RunResolve(c) ==
    /\ RunAt(c, "resolve")
    /\ LET want == runCall[c].want IN
       IF RunResolvable(want)
         THEN /\ runCall' = [runCall EXCEPT
                               ![c].ids = RunEffective(want),
                               ![c].pc = IF want # {} THEN "ensure" ELSE "gate"]
              /\ UNCHANGED <<runTokens, runCancel>>
         ELSE RunReturn(c, "error")
    /\ UNCHANGED <<runSession, runLock, runLocks, runMeta, runStore,
                   runCloser, runHistory>>

(* chain::patch checks the session in one critical section, reads the      *)
(* chain in the next ...                                                   *)
RunPatchEnsure(c) ==
    /\ RunAt(c, "ensure")
    /\ IF runInst # 0
         THEN RunGo(c, "patch") /\ UNCHANGED <<runTokens, runCancel>>
         ELSE RunReturn(c, "error")
    /\ UNCHANGED <<runSession, runLock, runLocks, runMeta, runStore,
                   runCloser, runHistory>>

RunPatchRead(c) ==
    /\ RunAt(c, "patch")
    /\ runCall' = [runCall EXCEPT ![c].pc = "commit", ![c].read = runChain]
    /\ UNCHANGED <<runSession, runRegistry, runMeta, runStore, runCloser,
                   runHistory>>

(* ... and stores what it read plus the additions in another. *)
RunPatched(chain, add) ==
    [active |-> chain.active \cup add, disabled |-> chain.disabled \ add,
     set |-> TRUE]

RunPatchCommit(c) ==
    /\ RunAt(c, "commit")
    /\ runChain' = RunPatched(runCall[c].read, runCall[c].ids)
    /\ RunGo(c, "again")
    /\ UNCHANGED <<runSession, runRegistry, runEdits, runStore, runCloser,
                   runHistory>>

(* The run executes the whole merged chain. *)
RunResolveAgain(c) ==
    /\ RunAt(c, "again")
    /\ IF RunResolvable({})
         THEN /\ runCall' = [runCall EXCEPT ![c].pc = "gate",
                                            ![c].ids = RunEffective({})]
              /\ UNCHANGED <<runTokens, runCancel>>
         ELSE RunReturn(c, "error")
    /\ UNCHANGED <<runSession, runLock, runLocks, runMeta, runStore,
                   runCloser, runHistory>>

(* A stop that arrived while the run was queued. *)
RunGate(c) ==
    /\ RunAt(c, "gate")
    /\ IF c \in runCancel
         THEN RunReturn(c, "cancelled")
         ELSE RunGo(c, "snapshot") /\ UNCHANGED <<runTokens, runCancel>>
    /\ UNCHANGED <<runSession, runLock, runLocks, runMeta, runStore,
                   runCloser, runHistory>>

RunSnapshot(c) ==
    /\ RunAt(c, "snapshot")
    /\ IF runInst # 0
         THEN RunGo(c, "chunk") /\ UNCHANGED <<runTokens, runCancel>>
         ELSE RunReturn(c, "error")
    /\ UNCHANGED <<runSession, runLock, runLocks, runMeta, runStore,
                   runCloser, runHistory>>

(* One turn of the chunk loop; a cancelled run keeps what it has. *)
RunChunk(c) ==
    /\ RunAt(c, "chunk")
    /\ runCall' =
         IF c \in runCancel \/ runCall[c].chunks = RunChunks
           THEN [runCall EXCEPT ![c].pc = "tracker"]
           ELSE [runCall EXCEPT ![c].chunks = @ + 1]
    /\ UNCHANGED <<runSession, runRegistry, runMeta, runStore, runCloser,
                   runHistory>>

(* The three maps are overwritten one after the other. *)
RunStoreOne(c, map, next) ==
    /\ RunAt(c, map)
    /\ runStore' = [runStore EXCEPT ![map] = c]
    /\ RunGo(c, next)
    /\ UNCHANGED <<runSession, runRegistry, runMeta, runCloser, runHistory>>

RunStoreLast(c) ==
    /\ RunAt(c, "reporter")
    /\ runStore' = [runStore EXCEPT !["reporter"] = c]
    /\ RunReturn(c, "ok")
    /\ UNCHANGED <<runSession, runLock, runLocks, runMeta, runCloser,
                   runHistory>>

RunStep(c) ==
    \/ RunRegister(c) \/ RunAcquire(c) \/ RunResolve(c) \/ RunPatchEnsure(c)
    \/ RunPatchRead(c) \/ RunPatchCommit(c) \/ RunResolveAgain(c) \/ RunGate(c)
    \/ RunSnapshot(c) \/ RunChunk(c)
    \/ RunStoreOne(c, "tracker", "correlator")
    \/ RunStoreOne(c, "correlator", "reporter")
    \/ RunStoreLast(c)

----------------------------------------
(* The user. *)

(* cancel_all_pipeline_runs: every token there is. *)
RunStop ==
    /\ runCancel' = runCancel \cup runTokens
    /\ runStopped' = runStopped \cup
          {c \in RunCalls : runCall[c].pc \in RunInside \cup {"queued"}}
    /\ UNCHANGED <<runSession, runLock, runLocks, runTokens, runCall, runMeta,
                   runStore, runCloser, runTorn>>

(* commit stores a chain only when it differs from what is there. *)
RunCommitted(active, disabled) ==
    [active |-> active, disabled |-> disabled,
     set |-> runChain.set \/ active # {}]

(* chain::set; a session without a chain reads as an empty one. *)
RunEditChain(active, disabled) ==
    /\ runInst # 0
    /\ runEdits < RunMaxEdits
    /\ runEdits' = runEdits + 1
    /\ runChain' = RunCommitted(active, disabled \cap active)
    /\ UNCHANGED <<runSession, runRegistry, runCall, runStore, runCloser,
                   runHistory>>

(* close, or an open of the same file, which takes the chain along, closes *)
(* the session and puts a new instance under the same id.                  *)
RunClose(reopen) ==
    /\ runCloser.pc = "idle"
    /\ runInst # 0
    /\ reopen => runOpened < RunMaxInst
    /\ runCloser' = [pc |-> "sessions", reopen |-> reopen,
                     meta |-> IF reopen THEN runChain ELSE RunNoChain]
    /\ runChain' = IF reopen THEN RunNoChain ELSE runChain
    /\ UNCHANGED <<runSession, runRegistry, runCall, runEdits, runStore,
                   runHistory>>

RunUnderWay == \E c \in RunCalls : runCall[c].pc \in RunWaiting \cup RunInside

RunCloserAt(pc, next) ==
    /\ runCloser.pc = pc
    /\ runCloser' = IF next = "idle" THEN RunNoCloser
                    ELSE [runCloser EXCEPT !.pc = next]
    /\ runTorn' = (runTorn \/ RunUnderWay)
    /\ runStopped' = runStopped

RunCloseSession ==
    /\ RunCloserAt("sessions", "tracker")
    /\ runInst' = 0
    /\ UNCHANGED <<runOpened, runRegistry, runCall, runMeta, runStore>>

RunCloseMap(map, next) ==
    /\ RunCloserAt(map, next)
    /\ runStore' = [runStore EXCEPT ![map] = RunNobody]
    /\ UNCHANGED <<runSession, runRegistry, runCall, runMeta>>

RunCloseMeta ==
    /\ RunCloserAt("meta", "locks")
    /\ runChain' = RunNoChain
    /\ UNCHANGED <<runSession, runRegistry, runCall, runEdits, runStore>>

(* The registry forgets the lock object; runs that have it keep it. *)
RunCloseLocks ==
    /\ RunCloserAt("locks", IF runCloser.reopen THEN "insert" ELSE "idle")
    /\ runLock' = 0
    /\ UNCHANGED <<runSession, runLocks, runTokens, runCancel, runCall,
                   runMeta, runStore>>

RunReopenInsert ==
    /\ RunCloserAt("insert", "restore")
    /\ runInst' = runOpened + 1
    /\ runOpened' = runOpened + 1
    /\ UNCHANGED <<runRegistry, runCall, runMeta, runStore>>

RunReopenRestore ==
    /\ RunCloserAt("restore", "idle")
    /\ runChain' = IF runCloser.meta.set THEN runCloser.meta ELSE runChain
    /\ UNCHANGED <<runSession, runRegistry, runCall, runEdits, runStore>>

RunCloserStep ==
    \/ RunCloseSession
    \/ RunCloseMap("tracker", "correlator")
    \/ RunCloseMap("correlator", "reporter")
    \/ RunCloseMap("reporter", "meta")
    \/ RunCloseMeta \/ RunCloseLocks \/ RunReopenInsert \/ RunReopenRestore

RunNext ==
    \/ \E c \in RunCalls :
         RunStep(c) \/ \E want \in SUBSET RunProcs : RunStart(c, want)
    \/ \E active, disabled \in SUBSET RunProcs :
         RunEditChain(active, disabled)
    \/ RunStop \/ RunCloserStep
    \/ \E reopen \in BOOLEAN : RunClose(reopen)

RunSpec == RunInit /\ [][RunNext]_runVars

(* A run holds a thread of the blocking pool and a close one of the        *)
(* runtime: each goes on.  Nobody has to start, stop or edit.              *)
RunFairness ==
    /\ \A c \in RunCalls : WF_runVars(RunStep(c))
    /\ WF_runVars(RunCloserStep)

RunFairSpec == RunSpec /\ RunFairness

----------------------------------------
(* Properties. *)

RunStoring == \E c \in RunCalls : runCall[c].pc \in {"correlator", "reporter"}

RunSettled == ~RunStoring /\ runCloser.pc = "idle"

(* The three maps of a session never hold results of two runs (comment at  *)
(* the head of run_blocking: the lock makes a run's three writes atomic    *)
(* with regard to other runs).                                             *)
RunOfOneRun ==
    RunSettled =>
      \A m, n \in RunMaps :
        RunNobody \in {runStore[m], runStore[n]} \/ runStore[m] = runStore[n]

(* The maps hold all of one run's results, and those of a session that is  *)
(* open, as long as no session is closed under a run that waits or         *)
(* executes.                                                               *)
RunResultsConsistent ==
    ~runTorn /\ RunSettled =>
      /\ \A m, n \in RunMaps : runStore[m] = runStore[n]
      /\ runInst = 0 => \A m \in RunMaps : runStore[m] = RunNobody

(* A run that was queued or executing when the user pressed stop processes *)
(* no further chunk.                                                       *)
RunStopReaches ==
    [][\A c \in runStopped : runCall'[c].chunks = runCall[c].chunks]_runVars

(* Every run request is answered: the lock is released on every path.      *)
RunAnswered ==
    \A c \in RunCalls : RunAt(c, "register") ~> RunAt(c, "done")

(* chain::patch adds members "without touching the rest". *)
RunPatchKeepsRest ==
    [][\A c \in RunCalls :
         RunAt(c, "commit") /\ runCall'[c].pc = "again" =>
           runChain.active \ runCall[c].ids \subseteq runChain'.active]_runVars
=============================================================================
