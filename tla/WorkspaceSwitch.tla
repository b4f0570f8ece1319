-------------------------- MODULE WorkspaceSwitch --------------------------
(* Workspace transitions of the desktop over the auto-save of module         *)
(* Autosave: switchWorkspace, openWorkspace and newWorkspace of              *)
(* src-solid/workspace/workspaceStore.ts, and load_and_restore of            *)
(* services/workspace.rs, through which an agent opens a workspace.          *)
(*                                                                           *)
(* A transition is a burst of independent calls: save what is dirty, arm the *)
(* suppression window, close the sessions, empty the analyses, read the      *)
(* incoming file, replay it, push the envelope.  Between two calls anything  *)
(* else may happen: artifacts made by agents, flushes, the window's          *)
(* deadline.  The analyses are the artifacts of Autosave; what a session     *)
(* owns itself (bookmarks) goes with the session.                            *)
EXTENDS Autosave

CONSTANTS
  Settled,      \* a transition starts only when every artifact is on disk,
                \* and a save starts or a window is armed only while no flush runs
  SlowSwitch,   \* whether a transition may outlast the window
  MaxSwitch,    \* bound: transitions
  MayAgentLoad  \* whether an agent may open a workspace

(* A transition: where it stands, what it is, the incoming workspace and     *)
(* what was read of its file.                                                *)
SwPcs == {"saving", "load", "begin", "close", "activate", "analyses", "open", "push", "end"}
Transitions == [pc : SwPcs, op : {"switch", "open", "new", "agent"}, to : Ids, content : Contents]

ASSUME SwitchAssumption ==
  /\ {Settled, SlowSwitch, MayAgentLoad} \subseteq BOOLEAN
  /\ MaxSwitch \in Nat
  /\ None \notin Transitions

VARIABLES
  sw,         \* the transition in flight, None when there is none
  switches,   \* transitions so far
  agentLoads, \* whether an agent has opened a workspace (history)
  owner       \* the workspace an artifact was made in; None when it was made
              \* while a transition or a save was in flight (history)

swvars == <<sw, switches, agentLoads, owner>>
allvars == <<vars, swvars>>

Nothing == [sess |-> {}, art |-> {}]

(* filePath ?? autoSavePath: the file a workspace is read from. *)
(* Mutant: a workspace that was never saved is read all the same. *)
MutHasFile(w) == w \in Ids

HasFile(w) == disk[<<w, "explicit">>] # None \/ disk[<<w, "auto">>] # None
Candidate(w) == IF disk[<<w, "explicit">>] # None THEN <<w, "explicit">> ELSE <<w, "auto">>
IsExplicit(w) == disk[<<w, "explicit">>] # None

SwInit ==
  /\ Init
  /\ sw = None /\ switches = 0 /\ agentLoads = FALSE
  /\ owner = [m \in Artifacts |-> None]

----------------------------------------
(* flushForTransition: a save only when the front end's own flag is dirty,   *)
(* which artifacts made in the back end do not set.                          *)
NoFlush == \A f \in Flushers : flush[f].pc = "idle"
Quiet == store \subseteq OnDisk /\ gen = made /\ NoFlush

AfterSave(op) == IF op = "open" THEN "load" ELSE "begin"

StartClean(op, w) ==
  /\ phase = "running" /\ sw = None /\ save.pc = "idle" /\ switches < MaxSwitch
  /\ op = "switch" => w # active
  /\ op = "open" => HasFile(w)
  /\ op = "new" => ~HasFile(w) /\ w # active
  /\ Settled => Quiet
  /\ sw' = [pc |-> AfterSave(op), op |-> op, to |-> w, content |-> Nothing]
  /\ switches' = switches + 1
  /\ UNCHANGED <<vars, agentLoads, owner>>

StartDirty(op, w) ==
  /\ sw = None /\ switches < MaxSwitch
  /\ op = "switch" => w # active
  /\ op = "open" => HasFile(w)
  /\ op = "new" => ~HasFile(w) /\ w # active
  /\ Settled => Quiet
  /\ Save(active, IsExplicit(active))
  /\ sw' = [pc |-> "saving", op |-> op, to |-> w, content |-> Nothing]
  /\ switches' = switches + 1
  /\ UNCHANGED <<agentLoads, owner>>

Go(pc) == sw' = [sw EXCEPT !.pc = pc] /\ UNCHANGED <<switches, agentLoads, owner>>

SaveReturns ==
  /\ sw # None /\ sw.pc = "saving" /\ save.pc = "idle"
  /\ Go(AfterSave(sw.op))
  /\ UNCHANGED vars

(* beginWorkspaceSwitch *)
Begins ==
  /\ sw # None /\ sw.pc = "begin" /\ phase = "running"
  /\ Settled => NoFlush
  /\ Go("close")
  /\ window' = TRUE
  /\ UNCHANGED <<live, store, made, clock, envelope, flush, save, files, list, edits, undone, phase, count>>

(* teardownWorkspace: one close per session, then the analyses. *)
Closes(s) ==
  /\ sw # None /\ sw.pc = "close" /\ s \in live /\ phase = "running"
  /\ live' = live \ {s}
  /\ UNCHANGED <<store, made, clock, shell, flush, save, files, list, edits, undone, phase, count, swvars>>

(* Mutant: the analyses stay. *)
MutEmptiesAnalyses ==
  /\ sw # None /\ sw.pc = "close" /\ live = {} /\ phase = "running"
  /\ Go("activate")
  /\ UNCHANGED vars

EmptiesAnalyses ==
  /\ sw # None /\ sw.pc = "close" /\ live = {} /\ phase = "running"
  /\ store' = {}
  /\ Go("activate")
  /\ UNCHANGED <<live, made, clock, shell, flush, save, files, list, edits, undone, phase, count>>

(* The target is active from here on, even if its file cannot be read. *)
Activates ==
  /\ sw # None /\ sw.pc = "activate" /\ phase = "running"
  /\ active' = sw.to
  /\ Go(IF sw.op = "open" THEN "analyses"
        ELSE IF sw.op = "switch" /\ HasFile(sw.to) THEN "load" ELSE "push")
  /\ UNCHANGED <<live, store, made, clock, shell, flush, save, files, entries, edits, undone, phase, count>>

(* loadWorkspaceV4; an explicit open reads before it tears anything down. *)
Loads ==
  /\ sw # None /\ sw.pc = "load" /\ phase = "running"
  /\ sw' = [sw EXCEPT !.pc = IF sw.op = "open" THEN "begin" ELSE "analyses",
                      !.content = disk[Candidate(sw.to)]]
  /\ UNCHANGED <<vars, switches, agentLoads, owner>>

(* A file that cannot be read ends the transition where it stands. *)
LoadFails ==
  /\ sw # None /\ sw.pc = "load" /\ phase = "running"
  /\ sw' = None
  /\ Counts("fail", MaxFail)
  /\ UNCHANGED <<live, store, made, clock, shell, flush, save, files, list, edits, undone, phase, switches, agentLoads, owner>>

(* Mutant: the analyses of the file are not put back. *)
MutRestoresAnalyses ==
  /\ sw # None /\ sw.pc = "analyses" /\ phase = "running"
  /\ Go(IF sw.op = "agent" THEN "end" ELSE "open")
  /\ UNCHANGED vars

(* applyRestore: the analyses replace the store, then the sessions open. *)
RestoresAnalyses ==
  /\ sw # None /\ sw.pc = "analyses" /\ phase = "running"
  /\ store' = sw.content.art
  /\ Go(IF sw.op = "agent" THEN "end" ELSE "open")
  /\ UNCHANGED <<live, made, clock, shell, flush, save, files, list, edits, undone, phase, count>>

Opens(s) ==
  /\ sw # None /\ sw.pc = "open" /\ s \in sw.content.sess \ live /\ phase = "running"
  /\ live' = live \cup {s}
  /\ UNCHANGED <<store, made, clock, shell, flush, save, files, list, edits, undone, phase, count, swvars>>

AllOpen ==
  /\ sw # None /\ sw.pc = "open" /\ sw.content.sess \subseteq live
  /\ Go(IF sw.op = "agent" THEN "analyses" ELSE "push")
  /\ UNCHANGED vars

(* pushEnvelope: the window ends and the transition is over. *)
PushesEnvelope ==
  /\ sw # None /\ sw.pc = "push" /\ phase = "running"
  /\ envelope' = Stamped(sw.to, IsExplicit(sw.to))
  /\ window' = FALSE
  /\ sw' = None
  /\ UNCHANGED <<live, store, made, clock, flush, save, files, list, edits, undone, phase, count, switches, agentLoads, owner>>

(* load_and_restore arms the window, opens the sessions of the file on top   *)
(* of those that are open, replaces the analyses, and returns.               *)
AgentStarts(w) ==
  /\ phase = "running" /\ MayAgentLoad /\ sw = None /\ switches < MaxSwitch /\ HasFile(w)
  /\ Settled => Quiet
  /\ window' = TRUE
  /\ sw' = [pc |-> "open", op |-> "agent", to |-> w, content |-> disk[Candidate(w)]]
  /\ switches' = switches + 1
  /\ agentLoads' = TRUE
  /\ UNCHANGED <<live, store, made, clock, envelope, flush, save, files, list, edits, undone, phase, count, owner>>

AgentReturns ==
  /\ sw # None /\ sw.pc = "end"
  /\ sw' = None
  /\ UNCHANGED <<vars, switches, agentLoads, owner>>

Transition ==
  \/ \E op \in {"switch", "open", "new"}, w \in Ids : StartClean(op, w) \/ StartDirty(op, w)
  \/ SaveReturns \/ Begins \/ EmptiesAnalyses \/ Activates \/ Loads \/ LoadFails
  \/ RestoresAnalyses \/ AllOpen \/ PushesEnvelope \/ AgentReturns
  \/ \E s \in Sess : Closes(s) \/ Opens(s)
  \/ \E w \in Ids : AgentStarts(w)

(* An artifact an agent or the user makes; who it belongs to is clear only   *)
(* while the desktop is neither switching nor saving.                        *)
Makes ==
  /\ Mutate
  /\ owner' = [owner EXCEPT ![made'] = IF sw = None /\ save.pc = "idle" THEN active ELSE None]
  /\ UNCHANGED <<sw, switches, agentLoads>>

(* The desktop saves the workspace that is active, under its own path. *)
Saves ==
  /\ sw = None /\ active # None
  /\ Settled => NoFlush
  /\ \E explicit \in BOOLEAN : (IsExplicit(active) => explicit) /\ Save(active, explicit)
  /\ UNCHANGED swvars

Lapses ==
  /\ sw # None => SlowSwitch
  /\ WindowLapses
  /\ UNCHANGED swvars

SwNext ==
  \/ Transition \/ Makes \/ Saves \/ Lapses
  \/ (ScheduleAutosave \/ SaveCollect \/ SaveWrite \/ Debounced) /\ UNCHANGED swvars
  \/ (\E f \in Flushers : Flush(f)) /\ UNCHANGED swvars

SwSpec == SwInit /\ [][SwNext]_allvars

----------------------------------------
(* Properties *)

Owned(m) == owner[m] # None

SwTypeOK ==
  /\ TypeOK
  /\ switches \in 0 .. MaxSwitch /\ agentLoads \in BOOLEAN
  /\ owner \in [Artifacts -> Ids \cup {None}]
  /\ sw \in Transitions \cup {None}

(* A file is only ever replaced by one that holds the artifacts it held: no  *)
(* flush stamps the shell of a workspace on the analyses of a transition.    *)
(* (After an agent has opened a workspace the envelope is that of another.)  *)
FilesOnlyGrow ==
  [][\A d \in Dests : disk[d] # None /\ ~agentLoads /\ count.fail = 0 =>
       \A m \in disk[d].art : Owned(m) => m \in disk'[d].art]_allvars

(* An artifact is only in the files of the workspace it was made in, as long *)
(* as every incoming file could be read and the desktop opened them all.     *)
NoForeignArtifact ==
  ~agentLoads /\ count.fail = 0 =>
    \A d \in Dests : disk[d] # None => \A m \in disk[d].art : owner[m] \in {d[1], None}

(* An artifact whose handler returned is in memory or in a file. *)
NothingLost ==
  ~agentLoads /\ count.fail = 0 =>
    \A m \in 1 .. gen : Owned(m) => m \in store \cup OnDisk

(* While the sessions of the outgoing workspace are being closed no flush    *)
(* writes its file: the file written before the transition stays whole.      *)
OutgoingFileUntouched ==
  [][sw # None /\ sw.op # "agent" /\ window =>
       \A k \in {"auto", "explicit"} : disk'[<<envelope.id, k>>] = disk[<<envelope.id, k>>]]_allvars

(* No transition takes anything out of a file: its own artifacts stay, and  *)
(* it is not written at all while its sessions are being closed.            *)
FilesKept == FilesOnlyGrow /\ OutgoingFileUntouched

(* Every artifact is where it belongs: nowhere but in its own workspace,    *)
(* and there.                                                               *)
ArtifactsPlaced == NoForeignArtifact /\ NothingLost
=============================================================================
