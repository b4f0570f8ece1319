------------------------------ MODULE Autosave ------------------------------
(* The backend auto-save (src-tauri/src/workspace/autosave.rs) and the       *)
(* handlers of services/workspace.rs that share its state: save and          *)
(* auto_save, sync_envelope, begin_switch, rename_workspace and              *)
(* delete_workspace.                                                         *)
(*                                                                           *)
(* A handler that changes an artifact changes it under the lock of the       *)
(* artifact and then calls schedule_autosave, which bumps a generation and   *)
(* wakes the scheduler task.  The scheduler waits for quiet and flushes; the *)
(* exit handler flushes on its own thread when the generations differ.  A    *)
(* flush reads the generation, the suppression window, the envelope, the     *)
(* sessions and the artifacts one after the other, each under a lock of its  *)
(* own, and writes the file later: every step is an action here.  The write  *)
(* of a file is one step (temporary file, then rename, under a mutex).       *)
(*                                                                           *)
(* Artifacts are numbered in the order they were made and a file or a store  *)
(* is the set of those it holds.  Time is not modelled: the debounce and     *)
(* the deadline of the window may end at any moment.  The eviction of old    *)
(* files is left out (it spares every file the list points at).              *)
EXTENDS Integers, FiniteSets

CONSTANTS
  Ids,          \* workspace ids
  First,        \* the workspace that is active at the start
  Sess,         \* session ids
  Editors,      \* who may delete and rename workspaces at the same time
  None,
  MaxMut,       \* bound: artifacts made
  MaxSave,      \* bound: saves and envelope syncs
  MaxFail,      \* bound: failed writes of a flush
  MaxRename,    \* bound: renames
  MaxChurn,     \* bound: sessions the user opens or closes
  MaxDelete,    \* bound: deletions of a workspace
  MaxWindow,    \* bound: calls of begin_switch
  MaxEvents,    \* bound: all of the events above but the artifacts together
  MayExit       \* whether the process may exit

ASSUME AutosaveAssumption ==
  /\ First \in Ids /\ None \notin Ids
  /\ {MaxMut, MaxSave, MaxFail, MaxRename, MaxChurn, MaxDelete, MaxWindow, MaxEvents}
       \subseteq Nat
  /\ MayExit \in BOOLEAN

VARIABLES
  live,       \* AppState::sessions: the sessions open
  store,      \* AppState::analyses: the artifacts in memory
  made,       \* artifacts made so far (history)
  gen,        \* autosave_generation
  flushed,    \* autosave_flushed_generation
  signal,     \* whether autosave_tx holds a signal
  envelope,   \* workspace_envelope
  window,     \* autosave_switch_suppressed_until: whether it is armed
  flush,      \* the two flushes: locals and program counter
  save,       \* the save or auto_save command in flight
  disk,       \* the .ltw files
  entries,    \* app-state.json: the workspace list
  active,     \* app-state.json: active_workspace_id
  edits,      \* the delete_workspace or rename_workspace in flight of each editor
  undone,     \* workspaces a late write of the list put back, or whose files
              \* went though the list could not be written (history)
  phase,      \* the life of the process
  reached,    \* artifacts that were in some file at some time (history)
  count       \* the bounded events so far

clock == <<gen, flushed, signal>>
shell == <<envelope, window>>
files == <<disk, reached>>
list == <<entries, active>>
vars == <<live, store, made, clock, shell, flush, save, files, list, edits, undone, phase, count>>

Flushers == {"scheduler", "exit"}
FlushPcs == {"idle", "gate", "clone", "collect", "recheck", "artifacts", "write", "record", "done"}
Dests == Ids \X {"auto", "explicit"}
Artifacts == 1 .. MaxMut
Envelopes == [id : Ids, explicit : BOOLEAN, expected : SUBSET Sess]
Contents == [sess : SUBSET Sess, art : SUBSET Artifacts]
EntryLists == [Ids -> [listed : BOOLEAN, auto : Dests \cup {None}]]
Edits == [pc : {"close", "remove", "save"}, op : {"delete", "rename"}, id : Ids, file : BOOLEAN,
          sess : SUBSET Sess, entries : EntryLists, active : Ids \cup {None}]

(* None is no value of the kinds it stands for the lack of. *)
ASSUME NoneAssumption == None \notin Dests \cup Envelopes \cup Contents \cup Edits

(* Where a flush writes the workspace of an envelope. *)
FlushDest(env) == <<env.id, IF env.explicit THEN "explicit" ELSE "auto">>

(* The live sessions have nothing in common with those the envelope was      *)
(* cached against.                                                           *)
Diverges(expected, now) == expected # {} /\ expected \cap now = {}

Pending == gen # flushed

(* What cache_envelope stores: the stamp is the set of live sessions. *)
Stamped(w, explicit) == [id |-> w, explicit |-> explicit, expected |-> live]

(* The artifacts in the files, and the file a path names. *)
OnDisk == UNION {disk[d].art : d \in {x \in Dests : disk[x] # None}}

(* The locals of a flush or a save that starts, and of one that is over. *)
Starting(pc, seen, env) == [pc |-> pc, seen |-> seen, env |-> env, sess |-> {}, art |-> {}]
Idle == Starting("idle", 0, None)

Init ==
  /\ live = Sess
  /\ store = {} /\ made = 0 /\ gen = 0 /\ flushed = 0 /\ signal = FALSE
  /\ envelope = [id |-> First, explicit |-> FALSE, expected |-> Sess]
  /\ window = FALSE
  /\ flush = [f \in Flushers |-> Idle]
  /\ save = Idle
  /\ disk = [d \in Dests |-> None]
  /\ entries = [w \in Ids |-> [listed |-> TRUE, auto |-> None]]
  /\ active = First
  /\ edits = [c \in Editors |-> None] /\ undone = {}
  /\ phase = "running" /\ reached = {}
  /\ count = [save |-> 0, fail |-> 0, rename |-> 0, open |-> 0, close |-> 0,
              delete |-> 0, window |-> 0]

(* One more of a bounded kind of event. *)
Events == count.save + count.fail + count.rename + count.open + count.close
            + count.delete + count.window
Counts(kind, bound) ==
  /\ count[kind] < bound /\ Events < MaxEvents
  /\ count' = [count EXCEPT ![kind] = @ + 1]

----------------------------------------
(* The handlers that make an artifact: the change, then schedule_autosave. *)
Mutate ==
  /\ phase = "running" /\ made < MaxMut
  /\ made' = made + 1
  /\ store' = store \cup {made + 1}
  /\ UNCHANGED <<live, clock, shell, flush, save, files, list, edits, undone, phase, count>>

ScheduleAutosave ==
  /\ phase = "running" /\ gen < made
  /\ gen' = gen + 1
  /\ signal' = TRUE
  /\ UNCHANGED <<live, store, made, flushed, shell, flush, save, files, list, edits, undone, phase, count>>

(* The user opens or closes a session of the active workspace. *)
OpenSession(s) ==
  /\ phase = "running" /\ s \notin live
  /\ live' = live \cup {s}
  /\ Counts("open", MaxChurn)
  /\ UNCHANGED <<store, made, clock, shell, flush, save, files, list, edits, undone, phase>>

CloseSession(s) ==
  /\ phase = "running" /\ s \in live
  /\ live' = live \ {s}
  /\ Counts("close", MaxChurn)
  /\ UNCHANGED <<store, made, clock, shell, flush, save, files, list, edits, undone, phase>>

----------------------------------------
(* A flush.  The scheduler starts one when the signals have been quiet for   *)
(* the debounce; every signal in the channel has been taken by then.         *)
Debounced ==
  /\ phase # "gone" /\ signal /\ flush["scheduler"].pc = "idle"
  /\ signal' = FALSE
  /\ flush' = [flush EXCEPT !["scheduler"] = Starting("gate", gen, None)]
  /\ UNCHANGED <<live, store, made, gen, flushed, shell, save, files, list, edits, undone, phase, count>>

(* Mutant: only a signal still in the channel counts as pending. *)
MutExitFlush ==
  /\ phase = "running" /\ MayExit
  /\ phase' = "exiting"
  /\ flush' = IF signal
              THEN [flush EXCEPT !["exit"] = Starting("gate", gen, None)]
              ELSE flush
  /\ UNCHANGED <<live, store, made, clock, shell, save, files, list, edits, undone, count>>

(* The exit handler starts one only when something is pending. *)
ExitFlush ==
  /\ phase = "running" /\ MayExit
  /\ phase' = "exiting"
  /\ flush' = IF Pending
              THEN [flush EXCEPT !["exit"] = Starting("gate", gen, None)]
              ELSE flush
  /\ UNCHANGED <<live, store, made, clock, shell, save, files, list, edits, undone, count>>

Gone ==
  /\ phase = "exiting" /\ flush["exit"].pc = "idle"
  /\ phase' = "gone"
  /\ UNCHANGED <<live, store, made, clock, shell, flush, save, files, list, edits, undone, count>>

(* Only the flush's own locals change while it takes its snapshot. *)
Local == UNCHANGED <<live, store, made, clock, shell, save, files, list, edits, undone,
                     phase, count>>

(* Mutant: the window is not looked at. *)
MutGate(f) ==
  /\ phase # "gone" /\ flush[f].pc = "gate"
  /\ flush' = [flush EXCEPT ![f].pc = "clone"]
  /\ Local

Gate(f) ==
  /\ phase # "gone" /\ flush[f].pc = "gate"
  /\ flush' = [flush EXCEPT ![f] = IF window THEN Idle ELSE [@ EXCEPT !.pc = "clone"]]
  /\ Local

CloneEnvelope(f) ==
  /\ phase # "gone" /\ flush[f].pc = "clone"
  /\ flush' = [flush EXCEPT ![f] = IF envelope = None THEN Idle
                                   ELSE [@ EXCEPT !.pc = "collect", !.env = envelope]]
  /\ Local

Collect(f) ==
  /\ phase # "gone" /\ flush[f].pc = "collect"
  /\ flush' = [flush EXCEPT ![f].pc = "recheck", ![f].sess = live]
  /\ Local

(* Mutant: whatever the live sessions are, the flush goes on. *)
MutRecheck(f) ==
  /\ phase # "gone" /\ flush[f].pc = "recheck"
  /\ flush' = [flush EXCEPT ![f].pc = "artifacts"]
  /\ Local

Recheck(f) ==
  /\ phase # "gone" /\ flush[f].pc = "recheck"
  /\ flush' = [flush EXCEPT ![f] = IF Diverges(@.env.expected, live) THEN Idle
                                   ELSE [@ EXCEPT !.pc = "artifacts"]]
  /\ Local

TakeArtifacts(f) ==
  /\ phase # "gone" /\ flush[f].pc = "artifacts"
  /\ flush' = [flush EXCEPT ![f].pc = "write", ![f].art = store]
  /\ Local

WriteFile(f) ==
  /\ phase # "gone" /\ flush[f].pc = "write"
  /\ disk' = [disk EXCEPT ![FlushDest(flush[f].env)] = [sess |-> flush[f].sess, art |-> flush[f].art]]
  /\ reached' = reached \cup flush[f].art
  /\ flush' = [flush EXCEPT ![f].pc = "record"]
  /\ UNCHANGED <<live, store, made, clock, shell, save, list, edits, undone, phase, count>>

(* Mutant: an entry that is gone is put back. *)
MutRecordUpserts(f) ==
  /\ phase # "gone" /\ flush[f].pc = "record"
  /\ entries' = [entries EXCEPT ![flush[f].env.id] = [listed |-> TRUE, auto |-> FlushDest(flush[f].env)]]
  /\ flush' = [flush EXCEPT ![f].pc = "done"]
  /\ UNCHANGED <<live, store, made, clock, shell, save, files, active, edits, undone, phase, count>>

(* Mutant: the path under which the user saved is recorded, written or not. *)
MutRecordPath(f) ==
  /\ phase # "gone" /\ flush[f].pc = "record"
  /\ entries' = [w \in Ids |-> IF w = flush[f].env.id /\ entries[w].listed
                               THEN [entries[w] EXCEPT !.auto = <<w, "explicit">>]
                               ELSE entries[w]]
  /\ flush' = [flush EXCEPT ![f].pc = "done"]
  /\ UNCHANGED <<live, store, made, clock, shell, save, files, active, edits, undone, phase, count>>

(* record_auto_save_in_app_state: nothing happens to an entry that is gone. *)
RecordSave(f) ==
  /\ phase # "gone" /\ flush[f].pc = "record"
  /\ entries' = [w \in Ids |-> IF w = flush[f].env.id /\ entries[w].listed
                               THEN [entries[w] EXCEPT !.auto = FlushDest(flush[f].env)]
                               ELSE entries[w]]
  /\ flush' = [flush EXCEPT ![f].pc = "done"]
  /\ UNCHANGED <<live, store, made, clock, shell, save, files, active, edits, undone, phase, count>>

(* Mutant: the generation of the end of the flush is stored. *)
MutDoneNow(f) ==
  /\ phase # "gone" /\ flush[f].pc = "done"
  /\ flushed' = gen
  /\ flush' = [flush EXCEPT ![f] = Idle]
  /\ UNCHANGED <<live, store, made, gen, signal, shell, save, files, list, edits, undone, phase, count>>

(* Mutant: every flush counts as one artifact. *)
MutDoneCounts(f) ==
  /\ phase # "gone" /\ flush[f].pc = "done"
  /\ flushed' = flushed + 1
  /\ flush' = [flush EXCEPT ![f] = Idle]
  /\ UNCHANGED <<live, store, made, gen, signal, shell, save, files, list, edits, undone, phase, count>>

(* Mutant: signals that came during the flush are drained with it. *)
MutDoneDrains(f) ==
  /\ phase # "gone" /\ flush[f].pc = "done"
  /\ flushed' = flush[f].seen /\ signal' = FALSE
  /\ flush' = [flush EXCEPT ![f] = Idle]
  /\ UNCHANGED <<live, store, made, gen, shell, save, files, list, edits, undone, phase, count>>

FlushDone(f) ==
  /\ phase # "gone" /\ flush[f].pc = "done"
  /\ flushed' = flush[f].seen
  /\ flush' = [flush EXCEPT ![f] = Idle]
  /\ UNCHANGED <<live, store, made, gen, signal, shell, save, files, list, edits, undone, phase, count>>

(* The file or the list cannot be written: logged, and never retried. *)
FlushFails(f) ==
  /\ phase # "gone" /\ flush[f].pc \in {"write", "record"}
  /\ flush' = [flush EXCEPT ![f] = Idle]
  /\ Counts("fail", MaxFail)
  /\ UNCHANGED <<live, store, made, clock, shell, save, files, list, edits, undone, phase>>

Flush(f) ==
  \/ Gate(f) \/ CloneEnvelope(f) \/ Collect(f) \/ Recheck(f) \/ TakeArtifacts(f)
  \/ WriteFile(f) \/ RecordSave(f) \/ FlushDone(f)

----------------------------------------
(* save (explicit) and auto_save: cache the envelope, snapshot, write.       *)
Save(w, explicit) ==
  /\ phase = "running" /\ save.pc = "idle"
  /\ envelope' = Stamped(w, explicit)
  /\ window' = FALSE
  /\ save' = Starting("collect", 0, Stamped(w, explicit))
  /\ Counts("save", MaxSave)
  /\ UNCHANGED <<live, store, made, clock, flush, files, list, edits, undone, phase>>

SaveCollect ==
  /\ phase = "running" /\ save.pc = "collect"
  /\ save' = [save EXCEPT !.pc = "write", !.sess = live, !.art = store]
  /\ UNCHANGED <<live, store, made, clock, shell, flush, files, list, edits, undone, phase, count>>

SaveWrite ==
  /\ phase = "running" /\ save.pc = "write"
  /\ disk' = [disk EXCEPT ![FlushDest(save.env)] = [sess |-> save.sess, art |-> save.art]]
  /\ reached' = reached \cup save.art
  /\ save' = Idle
  /\ UNCHANGED <<live, store, made, clock, shell, flush, list, edits, undone, phase, count>>

(* sync_envelope: the cache alone. *)
SyncEnvelope(w, explicit) ==
  /\ phase = "running"
  /\ envelope' = Stamped(w, explicit)
  /\ window' = FALSE
  /\ Counts("save", MaxSave)
  /\ UNCHANGED <<live, store, made, clock, flush, save, files, list, edits, undone, phase>>

BeginSwitch ==
  /\ phase = "running"
  /\ window' = TRUE
  /\ Counts("window", MaxWindow)
  /\ UNCHANGED <<live, store, made, clock, envelope, flush, save, files, list, edits, undone, phase>>

(* The deadline of the window passes; the next look at it clears it. *)
WindowLapses ==
  /\ phase # "gone" /\ window
  /\ window' = FALSE
  /\ UNCHANGED <<live, store, made, clock, envelope, flush, save, files, list, edits, undone, phase, count>>

----------------------------------------
(* delete_workspace and rename_workspace read the list and write back what   *)
(* they read: the lock is held for the write alone, so the edits of several  *)
(* editors (the desktop's commands, the agents' routes) overlap.  A deletion *)
(* of the active workspace closes the sessions it found, and drops the       *)
(* envelope, before it removes the files.                                    *)
Editing(c, pc, op) ==
  /\ phase = "running" /\ edits[c] # None
  /\ edits[c].pc = pc /\ edits[c].op = op

DeleteBegin(c, w, file) ==
  /\ phase = "running" /\ edits[c] = None /\ entries[w].listed
  /\ edits' = [edits EXCEPT ![c] =
       [pc |-> IF active = w THEN "close" ELSE "remove", op |-> "delete", id |-> w,
        file |-> file, sess |-> IF active = w THEN live ELSE {}, entries |-> entries,
        active |-> IF active = w THEN None ELSE active]]
  /\ window' = (window \/ active = w)
  /\ Counts("delete", MaxDelete)
  /\ UNCHANGED <<live, store, made, clock, envelope, flush, save, files, list, undone, phase>>

DeleteCloses(c, s) ==
  /\ Editing(c, "close", "delete") /\ s \in edits[c].sess
  /\ live' = live \ {s}
  /\ edits' = [edits EXCEPT ![c].sess = @ \ {s}]
  /\ UNCHANGED <<store, made, clock, shell, flush, save, files, list, undone, phase, count>>

DeleteClears(c) ==
  /\ Editing(c, "close", "delete") /\ edits[c].sess = {}
  /\ envelope' = IF envelope # None /\ envelope.id = edits[c].id THEN None ELSE envelope
  /\ edits' = [edits EXCEPT ![c].pc = "remove"]
  /\ UNCHANGED <<live, store, made, clock, window, flush, save, files, list, undone, phase, count>>

(* The auto-save file the list names, and the explicit one on request. *)
Removed(c, d) ==
  \/ d = edits[c].entries[edits[c].id].auto
  \/ edits[c].file /\ d = <<edits[c].id, "explicit">>

(* An error of remove_file is swallowed, and the file stays. *)
DeleteRemoves(c) ==
  /\ Editing(c, "remove", "delete")
  /\ \E lost \in SUBSET {d \in Dests : Removed(c, d)} :
       disk' = [d \in Dests |-> IF d \in lost THEN None ELSE disk[d]]
  /\ edits' = [edits EXCEPT ![c].pc = "save"]
  /\ UNCHANGED <<live, store, made, clock, shell, flush, save, reached, list, undone, phase, count>>

(* The list an editor writes: what it read, without what it deletes. *)
Rewritten(c) ==
  [w \in Ids |-> IF edits[c].op = "delete" /\ w = edits[c].id
                 THEN [listed |-> FALSE, auto |-> None]
                 ELSE edits[c].entries[w]]

(* save_app_state: whoever was deleted since the list was read is back. *)
WritesList(c, op) ==
  /\ Editing(c, "save", op)
  /\ entries' = Rewritten(c)
  /\ active' = edits[c].active
  /\ undone' = undone \cup {w \in Ids : Rewritten(c)[w].listed /\ ~entries[w].listed}
  /\ edits' = [edits EXCEPT ![c] = None]
  /\ UNCHANGED <<live, store, made, clock, shell, flush, save, files, phase, count>>

DeleteSaves(c) == WritesList(c, "delete")

(* The list cannot be written; the files of a deletion are gone by then. *)
EditFails(c) ==
  /\ \E op \in {"delete", "rename"} : Editing(c, "save", op)
  /\ edits' = [edits EXCEPT ![c] = None]
  /\ undone' = undone \cup (IF edits[c].op = "delete" THEN {edits[c].id} ELSE {})
  /\ Counts("fail", MaxFail)
  /\ UNCHANGED <<live, store, made, clock, shell, flush, save, files, list, phase>>

(* rename_workspace, names left out. *)
RenameReads(c, w) ==
  /\ phase = "running" /\ edits[c] = None /\ entries[w].listed
  /\ edits' = [edits EXCEPT ![c] =
       [pc |-> "save", op |-> "rename", id |-> w, file |-> FALSE, sess |-> {},
        entries |-> entries, active |-> active]]
  /\ Counts("rename", MaxRename)
  /\ UNCHANGED <<live, store, made, clock, shell, flush, save, files, list, undone, phase>>

RenameSaves(c) == WritesList(c, "rename")

Edit(c) ==
  \/ \E w \in Ids : RenameReads(c, w) \/ \E file \in BOOLEAN : DeleteBegin(c, w, file)
  \/ \E s \in Sess : DeleteCloses(c, s)
  \/ DeleteClears(c) \/ DeleteRemoves(c) \/ DeleteSaves(c) \/ RenameSaves(c) \/ EditFails(c)

Handlers ==
  \/ Mutate \/ ScheduleAutosave
  \/ \E s \in Sess : OpenSession(s) \/ CloseSession(s)
  \/ \E w \in Ids, explicit \in BOOLEAN : Save(w, explicit) \/ SyncEnvelope(w, explicit)
  \/ SaveCollect \/ SaveWrite
  \/ BeginSwitch \/ WindowLapses
  \/ \E c \in Editors : Edit(c)

Next ==
  \/ Handlers
  \/ Debounced \/ ExitFlush \/ Gone
  \/ \E f \in Flushers : Flush(f) \/ FlushFails(f)

Spec == Init /\ [][Next]_vars

(* The runtime polls its tasks: a handler goes on, a quiet signal is taken   *)
(* and a flush that has started goes on.                                     *)
Fairness ==
  /\ WF_vars(ScheduleAutosave)
  /\ WF_vars(Debounced)
  /\ \A f \in Flushers : WF_vars(Flush(f))

LiveSpec == Spec /\ Fairness

----------------------------------------
(* Properties *)

(* Every variable has its type. *)
TypeOK ==
  /\ live \subseteq Sess /\ store \subseteq Artifacts /\ reached \subseteq Artifacts
  /\ made \in 0 .. MaxMut /\ gen \in 0 .. made /\ flushed \in 0 .. gen
  /\ signal \in BOOLEAN /\ window \in BOOLEAN
  /\ envelope \in Envelopes \cup {None}
  /\ DOMAIN flush = Flushers
  /\ \A f \in Flushers :
       /\ flush[f].pc \in FlushPcs
       /\ flush[f].seen \in 0 .. gen
       /\ flush[f].env \in Envelopes \cup {None}
       /\ flush[f].sess \subseteq Sess /\ flush[f].art \subseteq Artifacts
  /\ save.pc \in {"idle", "collect", "write"} /\ save.env \in Envelopes \cup {None}
  /\ disk \in [Dests -> Contents \cup {None}]
  /\ entries \in EntryLists /\ active \in Ids \cup {None}
  /\ edits \in [Editors -> Edits \cup {None}] /\ undone \subseteq Ids
  /\ phase \in {"running", "exiting", "gone"}

(* When the generations agree, has_pending_flush is right to say that        *)
(* nothing is owed: every artifact whose handler called schedule_autosave    *)
(* was in a file that a flush or a save wrote.                               *)
CleanMeansReached == ~Pending => 1 .. gen \subseteq reached

(* The same of the files as they are now, while the scheduler is the only    *)
(* writer and nothing is deleted or renamed: the files still hold all of it. *)
CleanMeansSaved ==
  ~Pending /\ phase = "running" /\ count.save = 0 /\ count.delete = 0
    => 1 .. gen \subseteq OnDisk

(* A process that exits loses nothing that was scheduled, whatever flush was *)
(* in flight, unless a failed write, a window or the loss of its sessions or *)
(* its envelope made the last flush skip.                                    *)
Unskipped == count.fail = 0 /\ count.window = 0 /\ count.close = 0 /\ count.delete = 0
ExitReached == phase = "gone" /\ Unskipped => 1 .. gen \subseteq reached

(* What counts as saved is in the files, before the exit and after it.      *)
SavedIsKept == CleanMeansSaved /\ ExitReached

(* A flush that is about to write has at least one of the sessions its       *)
(* envelope was cached against, if there was any: a workspace torn down      *)
(* under a flush is not written as an empty one.  (Sessions that come back   *)
(* between the two looks at them fool the second look.)                      *)
NoBareSnapshot ==
  \A f \in Flushers :
    flush[f].pc = "write" /\ flush[f].env.expected # {} /\ count.open = 0
      => flush[f].sess \cap flush[f].env.expected # {}

(* A deletion stands, whatever flush or save is in flight: nothing lists the *)
(* workspace again but the write of an edit of something else that had read  *)
(* the list before the deletion wrote it.                                    *)
PutsBack(c, w) ==
  /\ edits[c] # None /\ edits'[c] = None
  /\ edits[c].entries[w].listed /\ (edits[c].op = "delete" => edits[c].id # w)
NeverRelisted ==
  [][\A w \in Ids : ~entries[w].listed /\ entries'[w].listed
       => \E c \in Editors : PutsBack(c, w)]_vars

(* Refuted by two edits that overlap: a deleted workspace stays off the list. *)
DeletionStands == [][\A w \in Ids : ~entries[w].listed => ~entries'[w].listed]_vars

(* The list points at a file that is not there only while a deletion of the  *)
(* workspace has yet to write the list, or after one was undone.             *)
Deleting(c, w) ==
  edits[c] # None /\ edits[c].op = "delete" /\ edits[c].pc = "save" /\ edits[c].id = w
Exempt(w) == w \in undone \/ \E c \in Editors : Deleting(c, w)
ListedFileExists ==
  \A w \in Ids : entries[w].listed /\ entries[w].auto # None /\ ~Exempt(w)
     => disk[entries[w].auto] # None

(* A flush neither empties a file nor leaves the list without its file.     *)
SnapshotsSound == NoBareSnapshot /\ ListedFileExists

(* Artifacts that wait for a flush are flushed in the end, whatever comes    *)
(* between, as long as no window and no error skips the flush.               *)
EventuallyClean == <>[]~Pending
=============================================================================
