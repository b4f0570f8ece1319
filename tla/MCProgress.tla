----------------------------- MODULE MCProgress -----------------------------
(***************************************************************************)
(* What each component brings to an end, on a small instance of each.      *)
(*                                                                         *)
(* The behaviours are the sum of the components' behaviours: `part' says   *)
(* which component runs, and the others stay as they began.  A property of *)
(* one component then holds of the sum exactly if it holds of the          *)
(* component, and one run of TLC answers for all of them.                  *)
(***************************************************************************)
EXTENDS AgentRing, DirtyFlag, MCSessions, PipelineRuns, MCScans, TLC

CONSTANTS r1, t1, c1, a1, a2, s1, s2, o1

CONSTANTS Reporters, Trackers, Transformers, Excluded, Callers,
          MaxBatch, MaxLines, MaxStamp
VARIABLES session, total, starter, tx, cancelled, task, calls, epoch, hasMap,
          live, results, announced, batch,
          stamp, owner, cleared, rewoken, superseded

Stream == INSTANCE LiveStream

CONSTANTS Ids, First, Sess, Editors, None, MaxMut, MaxSave, MaxFail, MaxRename,
          MaxChurn, MaxDelete, MaxWindow, MaxEvents, MayExit
VARIABLES saved, store, made, gen, flushed, signal, envelope, window, flush,
          save, disk, entries, active, edits, undone, phase, reached, count

Auto == INSTANCE Autosave WITH live <- saved

VARIABLE part

streamVars == <<session, total, starter, tx, cancelled, task, calls, epoch,
                hasMap, live, results, announced, batch,
                stamp, owner, cleared, rewoken, superseded>>
autoVars == <<saved, store, made, gen, flushed, signal, envelope, window,
              flush, save, disk, entries, active, edits, undone, phase, reached,
              count>>
allVars == <<part, streamVars, autoVars, vars, dirVars, sesVars, runVars,
             scnVars>>

Parts == {"stream", "autosave", "ring", "flag", "sessions", "runs",
          "scans"}

ProgressInit ==
    /\ part \in Parts
    /\ Stream!Init /\ Auto!Init /\ Init /\ DirInit
    /\ SesInit /\ RunInit /\ ScnInit

ProgressNext ==
    /\ UNCHANGED part
    /\ \/ /\ part = "stream" /\ Stream!Next
          /\ UNCHANGED <<autoVars, vars, dirVars, sesVars, runVars, scnVars>>
       \/ /\ part = "autosave" /\ Auto!Next
          /\ UNCHANGED <<streamVars, vars, dirVars, sesVars, runVars, scnVars>>
       \/ /\ part = "ring" /\ Next
          /\ UNCHANGED <<streamVars, autoVars, dirVars, sesVars, runVars, scnVars>>
       \/ /\ part = "flag" /\ DirNext
          /\ UNCHANGED <<streamVars, autoVars, vars, sesVars, runVars, scnVars>>
       \/ /\ part = "sessions" /\ SesNext
          /\ UNCHANGED <<streamVars, autoVars, vars, dirVars, runVars, scnVars>>
       \/ /\ part = "runs" /\ RunNext
          /\ UNCHANGED <<streamVars, autoVars, vars, dirVars, sesVars, scnVars>>
       \/ /\ part = "scans" /\ ScnNext
          /\ UNCHANGED <<streamVars, autoVars, vars, dirVars, sesVars, runVars>>

(* Each component under its own fairness, as its module states it.         *)
StreamFairness ==
    LET Runs(A) == part = "stream" /\ A IN
    /\ WF_streamVars(Runs(Stream!TaskOpen))
    /\ WF_streamVars(Runs(Stream!FlushStep))
    /\ SF_streamVars(Runs(Stream!TaskCancelled))
    /\ WF_streamVars(Runs(Stream!StartRegisterTask))
    /\ WF_streamVars(Runs(Stream!StartSpawnTask))
    /\ \A c \in Callers : /\ WF_streamVars(Runs(Stream!CloseRemoveSession(c)))
                           /\ WF_streamVars(Runs(Stream!Clear(c)))

AutosaveFairness ==
    /\ WF_autoVars(part = "autosave" /\ Auto!ScheduleAutosave)
    /\ WF_autoVars(part = "autosave" /\ Auto!Debounced)
    /\ \A f \in Auto!Flushers : WF_autoVars(part = "autosave" /\ Auto!Flush(f))

RingFairness ==
    /\ WF_vars(part = "ring" /\ Insert)
    /\ WF_vars(part = "ring" /\ Register)
    /\ \A g \in Agents : WF_vars(part = "ring" /\ Poll(g))

FlagFairness ==
    \A i \in DirSlots : /\ WF_dirVars(part = "flag" /\ DirTimerFires(i))
                        /\ WF_dirVars(part = "flag" /\ DirSaveStep(i))

SessionsFairness ==
    /\ \A o \in SesOpeners : WF_sesVars(part = "sessions" /\ SesOpenStep(o))
    /\ \A g \in SesGens : WF_sesVars(part = "sessions" /\ SesIndexerStep(g))
    /\ WF_sesVars(part = "sessions" /\ SesClose)
    /\ WF_sesVars(part = "sessions" /\ SesPushStore)

RunsFairness ==
    /\ \A c \in RunCalls : WF_runVars(part = "runs" /\ RunStep(c))
    /\ WF_runVars(part = "runs" /\ RunCloserStep)

ScansFairness ==
    \A c \in ScnCalls : WF_scnVars(part = "scans" /\ ScnStep(c))

ProgressFairness ==
    /\ StreamFairness /\ AutosaveFairness /\ RingFairness /\ FlagFairness
    /\ SessionsFairness /\ RunsFairness /\ ScansFairness

ProgressSpec == ProgressInit /\ [][ProgressNext]_allVars /\ ProgressFairness

(* A cancel reaches the capture task and ends it, and every command of a    *)
(* caller is answered.                                                     *)
StreamSettles == Stream!CancelEndsTask /\ Stream!CommandsComplete
EventuallyClean == Auto!EventuallyClean

(* Whatever a caller asked for comes to an end: the capture task and its    *)
(* commands, a pipeline run, a filter's scan.                              *)
CallsSettle == StreamSettles /\ RunAnswered /\ ScnFilterSettles

=============================================================================
