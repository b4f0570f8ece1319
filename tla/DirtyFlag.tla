----------------------------- MODULE DirtyFlag -----------------------------
(* The front end's side of saving (src-solid/workspace/workspaceStore.ts):   *)
(* what only it owns, the layout and the editor tabs, its dirty flag, its    *)
(* debounce timer, its listener for workspace-auto-saved, and the flush that *)
(* every transition runs before it throws that state away.                   *)
(*                                                                           *)
(* An edit is numbered; a save carries the number of the last edit when it   *)
(* was called, caches it in the back end's envelope and writes it to the     *)
(* file.  A flush of the back end (module Autosave) clones the envelope,     *)
(* writes it, and sends an event that clears the flag.  Saves may overlap:   *)
(* the timer does not wait for the save before.                              *)
EXTENDS Integers, FiniteSets

CONSTANTS
  DirSlots,       \* saves that may be in flight at a time
  DirMaxEdit,     \* bound: edits
  DirMaxFlush,    \* bound: flushes of the back end
  DirMaxFail      \* bound: failed saves

ASSUME DirAssumption ==
  /\ {DirMaxEdit, DirMaxFlush, DirMaxFail} \subseteq Nat
  /\ "open" \notin DirSlots /\ "passed" \notin DirSlots

VARIABLES
  dirEdit,        \* the number of the last edit of the layout or the tabs
  dirFlag,        \* the dirty flag of the active workspace
  dirTimer,       \* whether the auto-save debounce is armed
  dirSaves,       \* saveWorkspace in flight, by slot
  dirGate,        \* flushForTransition: "open", the slot it waits for, or "passed"
  dirFlushing,    \* the back end's flush in flight
  dirEnvelope,    \* the edit in the cached envelope
  dirDisk,        \* the edit in the file
  dirEvents,      \* workspace-auto-saved events not yet delivered
  dirFlushes,     \* flushes so far
  dirFails,       \* failed saves so far
  dirCrossed      \* an edit met a save, a flush or an event in flight (history)

dirBackend == <<dirFlushing, dirEnvelope, dirDisk, dirEvents, dirFlushes>>
dirFrontend == <<dirEdit, dirFlag, dirTimer, dirSaves, dirGate>>
dirVars == <<dirFrontend, dirBackend, dirFails, dirCrossed>>

DirEdits == 0 .. DirMaxEdit
DirFree == [pc |-> "free", edit |-> 0]
DirSaving == \E i \in DirSlots : dirSaves[i].pc # "free"
DirBusy == DirSaving \/ dirFlushing.pc # "free" \/ dirEvents > 0
DirPassed == dirGate = "passed"

DirInit ==
  /\ dirEdit = 0 /\ dirFlag = FALSE /\ dirTimer = FALSE
  /\ dirSaves = [i \in DirSlots |-> DirFree] /\ dirGate = "open" /\ dirFlushing = DirFree
  /\ dirEnvelope = 0 /\ dirDisk = 0 /\ dirEvents = 0 /\ dirFlushes = 0 /\ dirFails = 0
  /\ dirCrossed = FALSE

(* Mutant: the flag is set, the timer is not armed again. *)
MutDirMarkMutated ==
  /\ dirEdit < DirMaxEdit /\ ~DirPassed
  /\ dirEdit' = dirEdit + 1
  /\ dirFlag' = TRUE
  /\ dirCrossed' = (dirCrossed \/ DirBusy)
  /\ UNCHANGED <<dirTimer, dirSaves, dirGate, dirBackend, dirFails>>

(* markMutated: the edit, the flag, and the debounce starts over. *)
DirMarkMutated ==
  /\ dirEdit < DirMaxEdit /\ ~DirPassed
  /\ dirEdit' = dirEdit + 1
  /\ dirFlag' = TRUE
  /\ dirTimer' = TRUE
  /\ dirCrossed' = (dirCrossed \/ DirBusy)
  /\ UNCHANGED <<dirSaves, dirGate, dirBackend, dirFails>>

(* autoSave: a save, only if the flag is dirty. *)
DirAutoSave(i) ==
  /\ dirSaves[i].pc = "free"
  /\ dirSaves' = IF dirFlag THEN [dirSaves EXCEPT ![i] = [pc |-> "called", edit |-> dirEdit]] ELSE dirSaves

DirTimerFires(i) ==
  /\ dirTimer /\ ~DirPassed
  /\ dirTimer' = FALSE
  /\ DirAutoSave(i)
  /\ UNCHANGED <<dirEdit, dirFlag, dirGate, dirBackend, dirFails, dirCrossed>>

(* flushForTransition starts with autoSave; a clean workspace goes through.  *)
(* Mutant: the timer is dropped and nobody waits for the save. *)
MutDirGateSaves(i) ==
  /\ dirGate = "open"
  /\ DirAutoSave(i)
  /\ dirGate' = "passed"
  /\ dirTimer' = FALSE
  /\ UNCHANGED <<dirEdit, dirFlag, dirBackend, dirFails, dirCrossed>>

DirGateSaves(i) ==
  /\ dirGate = "open"
  /\ DirAutoSave(i)
  /\ dirGate' = IF dirFlag THEN i ELSE "passed"
  /\ dirTimer' = (dirTimer /\ dirFlag)
  /\ UNCHANGED <<dirEdit, dirFlag, dirBackend, dirFails, dirCrossed>>

(* When its save is over it drops the timer and looks at the flag, before    *)
(* anything else runs.  A workspace that is dirty still is prompted for;     *)
(* here the user stays.                                                      *)
DirGateLooks(i) ==
  IF dirGate = i
  THEN /\ dirTimer' = FALSE
       /\ dirGate' = IF dirFlag' THEN "open" ELSE "passed"
  ELSE UNCHANGED <<dirTimer, dirGate>>

(* The command in the back end: cache the envelope, then write the file. *)
DirSaveCaches(i) ==
  /\ dirSaves[i].pc = "called"
  /\ dirEnvelope' = dirSaves[i].edit
  /\ dirSaves' = [dirSaves EXCEPT ![i].pc = "cached"]
  /\ UNCHANGED <<dirEdit, dirFlag, dirTimer, dirGate, dirFlushing, dirDisk,
                 dirEvents, dirFlushes, dirFails, dirCrossed>>

DirSaveWrites(i) ==
  /\ dirSaves[i].pc = "cached"
  /\ dirDisk' = dirSaves[i].edit
  /\ dirSaves' = [dirSaves EXCEPT ![i].pc = "written"]
  /\ UNCHANGED <<dirEdit, dirFlag, dirTimer, dirGate, dirFlushing,
                 dirEnvelope, dirEvents, dirFlushes, dirFails, dirCrossed>>

DirSaveReturns(i) ==
  /\ dirSaves[i].pc = "written"
  /\ dirSaves' = [dirSaves EXCEPT ![i] = DirFree]
  /\ dirFlag' = FALSE
  /\ DirGateLooks(i)
  /\ UNCHANGED <<dirEdit, dirBackend, dirFails, dirCrossed>>

(* Mutant: a save that failed clears the flag too. *)
MutDirSaveFails(i) ==
  /\ dirSaves[i].pc \in {"called", "cached"} /\ dirFails < DirMaxFail
  /\ dirSaves' = [dirSaves EXCEPT ![i] = DirFree]
  /\ dirFlag' = FALSE
  /\ dirFails' = dirFails + 1
  /\ DirGateLooks(i)
  /\ UNCHANGED <<dirEdit, dirBackend, dirCrossed>>

(* The call fails: it is logged, and the flag stays set. *)
DirSaveFails(i) ==
  /\ dirSaves[i].pc \in {"called", "cached"} /\ dirFails < DirMaxFail
  /\ dirSaves' = [dirSaves EXCEPT ![i] = DirFree]
  /\ dirFails' = dirFails + 1
  /\ UNCHANGED dirFlag
  /\ DirGateLooks(i)
  /\ UNCHANGED <<dirEdit, dirBackend, dirCrossed>>

DirFlushClones ==
  /\ dirFlushing.pc = "free" /\ dirFlushes < DirMaxFlush
  /\ dirFlushing' = [pc |-> "cloned", edit |-> dirEnvelope]
  /\ dirFlushes' = dirFlushes + 1
  /\ dirCrossed' = (dirCrossed \/ dirFlag \/ DirSaving)
  /\ UNCHANGED <<dirFrontend, dirEnvelope, dirDisk, dirEvents, dirFails>>

DirFlushWrites ==
  /\ dirFlushing.pc = "cloned"
  /\ dirDisk' = dirFlushing.edit
  /\ dirFlushing' = DirFree
  /\ dirEvents' = dirEvents + 1
  /\ UNCHANGED <<dirFrontend, dirEnvelope, dirFlushes, dirFails, dirCrossed>>

(* Mutant: the listener runs without an event. *)
MutDirAutoSaved ==
  /\ dirEvents' = dirEvents - 1
  /\ dirFlag' = FALSE
  /\ UNCHANGED <<dirEdit, dirTimer, dirSaves, dirGate, dirFlushing,
                 dirEnvelope, dirDisk, dirFlushes, dirFails, dirCrossed>>

(* onWorkspaceAutoSaved *)
DirAutoSaved ==
  /\ dirEvents > 0
  /\ dirEvents' = dirEvents - 1
  /\ dirFlag' = FALSE
  /\ UNCHANGED <<dirEdit, dirTimer, dirSaves, dirGate, dirFlushing,
                 dirEnvelope, dirDisk, dirFlushes, dirFails, dirCrossed>>

DirSaveStep(i) == DirSaveCaches(i) \/ DirSaveWrites(i) \/ DirSaveReturns(i)

DirNext ==
  \/ DirMarkMutated
  \/ \E i \in DirSlots : DirTimerFires(i) \/ DirGateSaves(i) \/ DirSaveStep(i) \/ DirSaveFails(i)
  \/ DirFlushClones \/ DirFlushWrites \/ DirAutoSaved

(* Timers fire and calls return; whether a transition starts is open. *)
DirFairness == \A i \in DirSlots : WF_dirVars(DirTimerFires(i)) /\ WF_dirVars(DirSaveStep(i))

DirSpec == DirInit /\ [][DirNext]_dirVars
DirLiveSpec == DirSpec /\ DirFairness

----------------------------------------
(* Properties *)

(* Every variable has its type. *)
DirTypeOK ==
  /\ dirEdit \in DirEdits /\ dirEnvelope \in DirEdits /\ dirDisk \in DirEdits
  /\ dirFlag \in BOOLEAN /\ dirTimer \in BOOLEAN /\ dirCrossed \in BOOLEAN
  /\ dirSaves \in [DirSlots -> [pc : {"free", "called", "cached", "written"}, edit : DirEdits]]
  /\ dirGate \in DirSlots \cup {"open", "passed"}
  /\ dirFlushing \in [pc : {"free", "cloned"}, edit : DirEdits]
  /\ dirEvents \in 0 .. DirMaxFlush /\ dirFlushes \in 0 .. DirMaxFlush /\ dirFails \in 0 .. DirMaxFail

(* A dirty workspace is never forgotten: its timer is armed or a save is in  *)
(* flight, unless a save failed, which nothing tries again by itself.        *)
DirArmed == dirFlag /\ dirFails = 0 => dirTimer \/ DirSaving

(* The state a transition throws away is in the file: where no edit met a    *)
(* save or a flush in flight, however saves overlap and fail.  (An edit that *)
(* does meet one is marked clean by it and thrown away unsaved.)             *)
DirGateKeepsEdits == DirPassed /\ ~dirCrossed => dirDisk = dirEdit

(* Neither forgets an edit: what a transition throws away is in the file,   *)
(* and what is not in the file has a save ahead of it.                      *)
DirSound == DirArmed /\ DirGateKeepsEdits

(* Every edit gets to the file in the end, or a save failed and the flag     *)
(* still says that there is something to save.                               *)
DirEditsReachTheFile == <>[](dirDisk = dirEdit \/ (dirFlag /\ dirFails > 0) \/ dirCrossed)
=============================================================================
