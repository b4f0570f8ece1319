-------------------------- MODULE FrontEnd_proofs --------------------------
\* Proofs about what the front end drives: its dirty flag (DirtyFlag), the
\* transitions between workspaces (WorkspaceSwitch) and what it shows of a
\* live capture (Capture).
EXTENDS DirtyFlag, WorkspaceSwitch, Capture, TLAPS

\* Types.  An event is of a flush that was counted.
DirTypeInv ==
  /\ DirTypeOK
  /\ dirEvents + (IF dirFlushing.pc = "cloned" THEN 1 ELSE 0) <= dirFlushes

\* What no edit in flight disturbs: saves and flushes carry the last edit,
\* and a flag that is clean means that the envelope and the file have it.
DirCleanInv ==
  /\ \A i \in DirSlots : dirSaves[i].pc # "free" =>
       /\ dirSaves[i].edit = dirEdit
       /\ dirSaves[i].pc \in {"cached", "written"} => dirEnvelope = dirEdit
       /\ dirSaves[i].pc = "written" => dirDisk = dirEdit
  /\ ~dirFlag => dirDisk = dirEdit /\ dirEnvelope = dirEdit
  /\ dirFlushing.pc = "cloned" => dirFlushing.edit = dirEdit /\ ~dirFlag
  /\ dirEvents > 0 => ~dirFlag

DirInv ==
  /\ DirTypeInv /\ DirArmed
  /\ DirPassed => ~dirFlag
  /\ ~dirCrossed => DirCleanInv

DirSaveRecords == [pc : {"free", "called", "cached", "written"}, edit : DirEdits]

LEMMA DirInitially == DirInit => DirInv
  <1> SUFFICES ASSUME DirInit PROVE DirInv OBVIOUS
  <1>1. \A i \in DirSlots : dirSaves[i].pc = "free" /\ dirSaves[i] \in DirSaveRecords
    BY DirAssumption DEF DirInit, DirFree, DirSaveRecords, DirEdits
  <1>2. dirFlushing.pc = "free" /\ dirFlushing \in [pc : {"free", "cloned"}, edit : DirEdits]
    BY DirAssumption DEF DirInit, DirFree, DirEdits
  <1>3. dirSaves \in [DirSlots -> DirSaveRecords] BY <1>1 DEF DirInit
  <1>4. 0 \in 0 .. DirMaxEdit /\ 0 \in 0 .. DirMaxFlush /\ 0 \in 0 .. DirMaxFail BY DirAssumption
  <1>5. DirTypeOK BY <1>2, <1>3, <1>4 DEF DirInit, DirTypeOK, DirSaveRecords, DirEdits
  <1>6. DirTypeInv BY <1>2, <1>4, <1>5 DEF DirInit, DirTypeInv
  <1> QED BY <1>1, <1>2, <1>6, DirAssumption DEF DirInit, DirInv, DirArmed, DirPassed, DirCleanInv

\* What happens to the slot of a save that moves on or is over.
LEMMA DirSlotMoved ==
  ASSUME NEW i \in DirSlots, dirSaves \in [DirSlots -> DirSaveRecords],
         NEW pc \in {"cached", "written"}, dirSaves' = [dirSaves EXCEPT ![i].pc = pc]
  PROVE  /\ dirSaves' \in [DirSlots -> DirSaveRecords]
         /\ dirSaves'[i].pc = pc /\ dirSaves'[i].edit = dirSaves[i].edit
         /\ \A j \in DirSlots \ {i} : dirSaves'[j] = dirSaves[j] BY DEF DirSaveRecords

LEMMA DirSlotFreed ==
  ASSUME NEW i \in DirSlots, dirSaves \in [DirSlots -> DirSaveRecords],
         dirSaves' = [dirSaves EXCEPT ![i] = DirFree]
  PROVE  /\ dirSaves' \in [DirSlots -> DirSaveRecords] /\ dirSaves'[i].pc = "free"
         /\ \A j \in DirSlots \ {i} : dirSaves'[j] = dirSaves[j]
  BY DirAssumption DEF DirSaveRecords, DirFree, DirEdits

LEMMA DirSlotCalled ==
  ASSUME NEW i \in DirSlots, dirSaves \in [DirSlots -> DirSaveRecords], dirEdit \in DirEdits,
         DirAutoSave(i)
  PROVE  /\ dirSaves' \in [DirSlots -> DirSaveRecords]
         /\ dirFlag => dirSaves'[i].pc = "called" /\ dirSaves'[i].edit = dirEdit
         /\ ~dirFlag => dirSaves' = dirSaves
         /\ \A j \in DirSlots \ {i} : dirSaves'[j] = dirSaves[j] BY DEF DirAutoSave, DirSaveRecords

LEMMA DirTypeStep == DirTypeInv /\ [DirNext]_dirVars => DirTypeInv'
  <1> SUFFICES ASSUME DirTypeInv, [DirNext]_dirVars PROVE DirTypeInv' OBVIOUS
  <1> USE DirAssumption DEF DirTypeInv, DirTypeOK, dirBackend, dirFrontend, DirEdits
  <1>0. dirSaves \in [DirSlots -> DirSaveRecords] BY DEF DirSaveRecords
  <1>1. CASE DirMarkMutated BY <1>1 DEF DirMarkMutated, DirBusy, DirSaving
  <1>2. ASSUME NEW i \in DirSlots, DirTimerFires(i) PROVE DirTypeInv'
    <2>1. dirSaves' \in [DirSlots -> DirSaveRecords] BY <1>0, <1>2, DirSlotCalled DEF DirTimerFires
    <2> QED BY <1>2, <2>1 DEF DirTimerFires, DirSaveRecords
  <1>3. ASSUME NEW i \in DirSlots, DirGateSaves(i) PROVE DirTypeInv'
    <2>1. dirSaves' \in [DirSlots -> DirSaveRecords] BY <1>0, <1>3, DirSlotCalled DEF DirGateSaves
    <2> QED BY <1>3, <2>1 DEF DirGateSaves, DirSaveRecords
  <1>4. ASSUME NEW i \in DirSlots, DirSaveStep(i) \/ DirSaveFails(i) PROVE DirTypeInv'
    <2>1. dirSaves' \in [DirSlots -> DirSaveRecords]
      BY <1>0, <1>4, DirSlotMoved, DirSlotFreed
      DEF DirSaveStep, DirSaveCaches, DirSaveWrites, DirSaveReturns, DirSaveFails
    <2>2. CASE DirSaveCaches(i) \/ DirSaveWrites(i)
      BY <2>1, <2>2 DEF DirSaveCaches, DirSaveWrites, DirSaveRecords
    <2>3. CASE DirSaveReturns(i) \/ DirSaveFails(i)
      <3>1. UNCHANGED <<dirEdit, dirBackend, dirCrossed>> BY <2>3 DEF DirSaveReturns, DirSaveFails
      <3>2. dirFails' \in 0 .. DirMaxFail BY <2>3 DEF DirSaveReturns, DirSaveFails
      <3>3. dirFlag' \in BOOLEAN BY <2>3, Zenon DEF DirSaveReturns, DirSaveFails
      <3>4. DirGateLooks(i) BY <2>3 DEF DirSaveReturns, DirSaveFails
      <3>5. dirTimer' \in BOOLEAN /\ dirGate' \in DirSlots \cup {"open", "passed"}
        BY <3>4 DEF DirGateLooks
      <3> QED BY <2>1, <3>1, <3>2, <3>3, <3>5 DEF DirSaveRecords
    <2> QED BY <1>4, <2>2, <2>3 DEF DirSaveStep
  <1>5. CASE DirFlushClones BY <1>5 DEF DirFlushClones, DirSaving
  <1>6. CASE DirFlushWrites
    <2>1. dirFlushing' = [pc |-> "free", edit |-> 0] /\ dirDisk' \in DirEdits
      BY <1>6 DEF DirFlushWrites, DirFree
    <2>2. dirFlushing' \in [pc : {"free", "cloned"}, edit : DirEdits] /\ dirFlushing'.pc = "free"
      BY <2>1
    <2>3. dirEvents' = dirEvents + 1 /\ dirFlushes' = dirFlushes /\ dirEvents + 1 <= dirFlushes
      BY <1>6 DEF DirFlushWrites
    <2>4. UNCHANGED <<dirFrontend, dirEnvelope, dirFails, dirCrossed>> BY <1>6 DEF DirFlushWrites
    <2> QED BY <2>1, <2>2, <2>3, <2>4
  <1>7. CASE DirAutoSaved
    <2>1. dirEvents' = dirEvents - 1 /\ dirEvents > 0 /\ dirFlag' = FALSE
          /\ UNCHANGED <<dirEdit, dirTimer, dirSaves, dirGate, dirFlushing,
                         dirEnvelope, dirDisk, dirFlushes, dirFails, dirCrossed>>
      BY <1>7 DEF DirAutoSaved
    <2>2. dirEvents' \in 0 .. DirMaxFlush /\ dirEvents' <= dirEvents BY <2>1
    <2>3. DirTypeOK' BY <2>1, <2>2
    <2>4. dirEvents' + (IF dirFlushing'.pc = "cloned" THEN 1 ELSE 0) <= dirFlushes' BY <2>1, <2>2
    <2> QED BY <2>3, <2>4
  <1>8. CASE UNCHANGED dirVars BY <1>8 DEF dirVars
  <1> QED BY <1>1, <1>2, <1>3, <1>4, <1>5, <1>6, <1>7, <1>8 DEF DirNext

LEMMA DirStep == DirInv /\ [DirNext]_dirVars => DirInv'
  <1> SUFFICES ASSUME DirInv, [DirNext]_dirVars PROVE DirInv' OBVIOUS
  <1>0. /\ DirTypeInv' /\ DirTypeInv
        /\ dirSaves \in [DirSlots -> DirSaveRecords] /\ dirEdit \in DirEdits
        /\ \A i \in DirSlots : i # "open" /\ i # "passed"
    BY DirTypeStep, DirAssumption DEF DirInv, DirTypeInv, DirTypeOK, DirSaveRecords
  <1> USE DEF dirBackend, dirFrontend
  <1>1. CASE DirMarkMutated
    <2>1. dirTimer' /\ dirFlag' /\ dirGate' = dirGate /\ dirGate # "passed"
          /\ dirCrossed' = (dirCrossed \/ DirBusy) /\ UNCHANGED <<dirSaves, dirBackend>>
      BY <1>1 DEF DirMarkMutated, DirPassed
    <2>2. ~dirCrossed' => DirCleanInv'
      BY <1>0, <2>1 DEF DirCleanInv, DirBusy, DirSaving, DirTypeInv, DirTypeOK
    <2> QED BY <1>0, <2>1, <2>2 DEF DirInv, DirArmed, DirPassed
  <1>2. ASSUME NEW i \in DirSlots, DirTimerFires(i) \/ DirGateSaves(i) PROVE DirInv'
    <2>1. /\ dirFlag => dirSaves'[i].pc = "called" /\ dirSaves'[i].edit = dirEdit
          /\ ~dirFlag => dirSaves' = dirSaves
          /\ \A j \in DirSlots \ {i} : dirSaves'[j] = dirSaves[j]
      BY <1>0, <1>2, DirSlotCalled DEF DirTimerFires, DirGateSaves
    <2>2. /\ UNCHANGED <<dirEdit, dirFlag, dirBackend, dirFails, dirCrossed>>
          /\ dirGate' = "passed" => ~dirFlag \/ dirGate = "passed"
      BY <1>0, <1>2 DEF DirTimerFires, DirGateSaves
    <2>3. ~dirCrossed' => DirCleanInv' BY <2>1, <2>2 DEF DirInv, DirCleanInv
    <2>4. DirArmed' BY <2>1, <2>2 DEF DirArmed, DirSaving
    <2> QED BY <1>0, <2>2, <2>3, <2>4 DEF DirInv, DirPassed
  <1>3. ASSUME NEW i \in DirSlots, DirSaveCaches(i) \/ DirSaveWrites(i) PROVE DirInv'
    <2>1. /\ dirSaves[i].pc \in {"called", "cached"} /\ dirSaves'[i].pc \in {"cached", "written"}
          /\ dirSaves'[i].edit = dirSaves[i].edit
          /\ \A j \in DirSlots \ {i} : dirSaves'[j] = dirSaves[j]
          /\ UNCHANGED <<dirEdit, dirFlag, dirTimer, dirGate, dirFlushing, dirEvents, dirFails,
                         dirCrossed>>
          /\ dirSaves[i].pc = "called" => dirSaves'[i].pc = "cached"
                                          /\ dirEnvelope' = dirSaves[i].edit /\ dirDisk' = dirDisk
          /\ dirSaves[i].pc = "cached" => dirSaves'[i].pc = "written"
                                          /\ dirDisk' = dirSaves[i].edit /\ dirEnvelope' = dirEnvelope
      BY <1>0, <1>3, DirSlotMoved DEF DirSaveCaches, DirSaveWrites
    <2>2. ASSUME ~dirCrossed PROVE DirCleanInv'
      <3>1. DirCleanInv BY <2>2 DEF DirInv
      <3>2. /\ dirEnvelope' \in {dirEnvelope, dirEdit} /\ dirDisk' \in {dirDisk, dirEdit}
            /\ dirSaves'[i].pc = "cached" => dirEnvelope' = dirEdit
            /\ dirSaves'[i].pc = "written" => dirEnvelope' = dirEdit /\ dirDisk' = dirEdit
        BY <2>1, <3>1 DEF DirCleanInv
      <3> QED BY <2>1, <3>1, <3>2 DEF DirCleanInv
    <2>3. DirArmed' BY <2>1 DEF DirInv, DirArmed, DirSaving
    <2> QED BY <1>0, <2>1, <2>2, <2>3 DEF DirInv, DirPassed
  <1>4. ASSUME NEW i \in DirSlots, DirSaveReturns(i) PROVE DirInv'
    <2>1. /\ dirSaves[i].pc = "written" /\ dirSaves'[i].pc = "free" /\ ~dirFlag'
          /\ \A j \in DirSlots \ {i} : dirSaves'[j] = dirSaves[j]
          /\ UNCHANGED <<dirEdit, dirBackend, dirFails, dirCrossed>>
      BY <1>0, <1>4, DirSlotFreed DEF DirSaveReturns
    <2>2. ASSUME ~dirCrossed PROVE DirCleanInv' BY <2>1, <2>2 DEF DirInv, DirCleanInv
    <2> QED BY <1>0, <2>1, <2>2 DEF DirInv, DirArmed, DirPassed
  <1>5. ASSUME NEW i \in DirSlots, DirSaveFails(i) PROVE DirInv'
    <2>1. /\ dirSaves'[i].pc = "free" /\ dirFlag' = dirFlag /\ dirFails' = dirFails + 1
          /\ \A j \in DirSlots \ {i} : dirSaves'[j] = dirSaves[j]
          /\ UNCHANGED <<dirEdit, dirBackend, dirCrossed>>
      BY <1>0, <1>5, DirSlotFreed DEF DirSaveFails
    <2>2. dirGate' = "passed" => ~dirFlag
      BY <1>5, <2>1 DEF DirSaveFails, DirGateLooks, DirInv, DirPassed
    <2>3. ~dirCrossed => DirCleanInv' BY <2>1 DEF DirInv, DirCleanInv
    <2>4. DirArmed' BY <1>0, <2>1 DEF DirArmed, DirTypeInv, DirTypeOK
    <2> QED BY <1>0, <2>1, <2>2, <2>3, <2>4 DEF DirInv, DirPassed
  <1>6. CASE DirFlushClones
    <2>1. /\ dirFlushing' = [pc |-> "cloned", edit |-> dirEnvelope]
          /\ dirCrossed' = (dirCrossed \/ dirFlag \/ DirSaving)
          /\ UNCHANGED <<dirFrontend, dirEnvelope, dirDisk, dirEvents, dirFails>>
      BY <1>6 DEF DirFlushClones
    <2>2. ~dirCrossed' => DirCleanInv' BY <2>1 DEF DirInv, DirCleanInv, DirSaving
    <2> QED BY <1>0, <2>1, <2>2 DEF DirInv, DirArmed, DirPassed, DirSaving
  <1>7. CASE DirFlushWrites
    <2>1. /\ dirFlushing.pc = "cloned" /\ dirDisk' = dirFlushing.edit /\ dirFlushing'.pc = "free"
          /\ UNCHANGED <<dirFrontend, dirEnvelope, dirFails, dirCrossed>>
      BY <1>7 DEF DirFlushWrites, DirFree
    <2>2. ~dirCrossed' => DirCleanInv' BY <2>1 DEF DirInv, DirCleanInv
    <2> QED BY <1>0, <2>1, <2>2 DEF DirInv, DirArmed, DirPassed, DirSaving
  <1>8. CASE DirAutoSaved
    <2>1. /\ dirEvents > 0 /\ ~dirFlag'
          /\ UNCHANGED <<dirEdit, dirTimer, dirSaves, dirGate, dirFlushing, dirEnvelope, dirDisk,
                         dirCrossed>> BY <1>8 DEF DirAutoSaved
    <2>2. ~dirCrossed' => DirCleanInv' BY <2>1 DEF DirInv, DirCleanInv
    <2> QED BY <1>0, <2>1, <2>2 DEF DirInv, DirArmed, DirPassed
  <1>9. CASE UNCHANGED dirVars
    BY <1>0, <1>9 DEF dirVars, DirInv, DirArmed, DirPassed, DirCleanInv, DirSaving
  <1> QED BY <1>1, <1>2, <1>3, <1>4, <1>5, <1>6, <1>7, <1>8, <1>9 DEF DirNext, DirSaveStep

\* The type invariant of the flag holds for any number of saves in flight.
THEOREM DirTypeCorrect == DirSpec => []DirTypeOK
  <1>1. DirInv => DirTypeOK BY DEF DirInv, DirTypeInv
  <1> QED BY <1>1, DirInitially, DirStep, PTL DEF DirSpec

\* The front end forgets no edit: a dirty workspace has a save ahead of it,
\* and what a transition throws away is in the file
\* (workspaceStore.ts:338-372).
THEOREM DirForgetsNothing == DirSpec => []DirSound
  <1>1. DirInv => DirSound BY DEF DirInv, DirSound, DirGateKeepsEdits, DirCleanInv
  <1> QED BY <1>1, DirInitially, DirStep, PTL DEF DirSpec

\* Transitions (WorkspaceSwitch), of a settled workspace and as long as
\* they end within the window.

\* No agent has opened a workspace and every file could be read.
Usual == ~agentLoads /\ count.fail = 0

\* What is in memory is the incoming workspace's, or nothing's yet; its
\* name is in app-state.json; its file has been read; its analyses are
\* back; its predecessor may not be written.
Torn == sw # None /\ (sw.pc \in {"activate", "analyses", "open", "push"}
                        \/ (sw.pc = "load" /\ sw.op # "open"))
Named == Torn /\ sw.pc # "activate"
Loaded == sw # None /\ (sw.pc = "analyses"
                          \/ (sw.op = "open" /\ sw.pc \in {"begin", "close", "activate"}))
Restored == sw # None /\ sw.pc \in {"open", "push"}
Shut == Torn \/ (sw # None /\ sw.pc = "close")

Home == IF Torn THEN sw.to ELSE envelope.id
Filed(m) == HasFile(owner[m]) /\ m \in disk[Candidate(owner[m])].art
Of(m, w) == owner[m] \in {w, None}
Files(w) == {d \in Dests : d[1] = w /\ disk[d] # None}

\* Under an armed window no file is written (the process does not exit).
WindowInv ==
  /\ window => \A f \in Flushers : flush[f].pc \in {"idle", "gate"}
  /\ flush["exit"].pc = "idle"
  /\ sw # None => \/ save.pc = "idle" \/ sw.op = "agent"
                  \/ (sw.pc = "saving" /\ ~window)

\* The writers under way write the workspace that the envelope names.
WritersAtHome ==
  /\ sw # None => sw.op # "agent" /\ sw.pc # "end"
  /\ Shut => window
  /\ active = IF Named THEN sw.to ELSE envelope.id
  /\ \A f \in Flushers : flush[f].pc \in {"collect", "recheck", "artifacts", "write"} =>
       flush[f].env.id = envelope.id /\ flush[f].env.explicit = envelope.explicit
  /\ save.pc # "idle" => save.env.id = envelope.id /\ save.env.explicit = envelope.explicit
  /\ ~envelope.explicit => disk[<<envelope.id, "explicit">>] = None

\* Nothing is where it does not belong.
NoneForeign ==
  /\ \A m \in store : m <= made /\ Of(m, Home)
  /\ \A d \in Dests : disk[d] # None => \A m \in disk[d].art : m <= made /\ Of(m, d[1])
  /\ sw # None => \A m \in sw.content.art : m <= made /\ Of(m, sw.to)
  /\ \A f \in Flushers : flush[f].pc = "write" =>
       \A m \in flush[f].art : m <= made /\ Of(m, flush[f].env.id)
  /\ save.pc = "write" => \A m \in save.art : m <= made /\ Of(m, save.env.id)
  /\ \A m \in Artifacts : m > made => owner[m] = None

\* Everything is where it belongs, in memory and in the files, and no
\* writer under way would take it out of them.
InMemory ==
  \A m \in Artifacts :
    /\ owner[m] = envelope.id => Torn \/ m \in store
    /\ Restored /\ owner[m] = sw.to => m \in store
    /\ Loaded /\ owner[m] = sw.to => m \in sw.content.art
    /\ sw # None /\ sw.op = "new" => owner[m] # sw.to
InFiles ==
  \A m \in Artifacts : Owned(m) =>
    /\ Filed(m) \/ (sw = None /\ owner[m] = envelope.id)
    /\ \A d \in Files(owner[m]) : m \in disk[d].art => Filed(m)
WritersKeep ==
  \A m \in Artifacts : owner[m] = envelope.id =>
    /\ save.pc = "write" => m \in save.art
    /\ \A f \in Flushers : flush[f].pc = "write" =>
         /\ save.pc # "idle" => m \in flush[f].art
         /\ \A d \in Files(envelope.id) : m \in disk[d].art => m \in flush[f].art

PlacesInv == WritersAtHome /\ NoneForeign /\ InMemory /\ InFiles /\ WritersKeep
SwitchInv == WindowInv /\ (Usual => PlacesInv)

----------------------------------------
\* Types of a transition, the auto-save's included.
FlushLocals == [pc : FlushPcs, seen : Nat, env : Envelopes \cup {None},
                sess : SUBSET Sess, art : SUBSET Artifacts]
SaveLocals == [pc : {"idle", "collect", "write"}, seen : Nat, env : Envelopes \cup {None},
               sess : SUBSET Sess, art : SUBSET Artifacts]
CountRecs == [save : Nat, fail : Nat, rename : Nat, open : Nat, close : Nat, delete : Nat,
              window : Nat]
Enveloped == {"collect", "recheck", "artifacts", "write", "record", "done"}

MemoryTypes ==
  /\ live \in SUBSET Sess /\ store \in SUBSET Artifacts
  /\ made \in Nat /\ made <= MaxMut /\ gen \in Nat /\ gen <= made
  /\ flushed \in Nat /\ flushed <= gen
  /\ signal \in BOOLEAN /\ window \in BOOLEAN /\ phase = "running"
  /\ envelope \in Envelopes /\ active \in Ids /\ entries \in EntryLists /\ count \in CountRecs
FlushTypes ==
  /\ flush \in [Flushers -> FlushLocals]
  /\ \A f \in Flushers : /\ flush[f].seen <= gen
                         /\ flush[f].pc \in Enveloped => flush[f].env \in Envelopes
SaveTypes == save \in SaveLocals /\ (save.pc # "idle" => save.env \in Envelopes)
FileTypes == disk \in [Dests -> Contents \cup {None}] /\ reached \in SUBSET Artifacts
StepTypes ==
  /\ sw \in Transitions \cup {None}
  /\ sw # None /\ (sw.pc = "load" \/ (sw.pc = "saving" /\ sw.op = "open")) => HasFile(sw.to)
  /\ switches \in 0 .. MaxSwitch /\ agentLoads \in BOOLEAN
  /\ owner \in [Artifacts -> Ids \cup {None}]
SwTypes == MemoryTypes /\ FlushTypes /\ SaveTypes /\ FileTypes /\ StepTypes

LEMMA SwDests == \A env \in Envelopes : FlushDest(env) \in Dests BY DEF Envelopes, FlushDest, Dests

LEMMA SwStamped ==
  ASSUME live \in SUBSET Sess, NEW w \in Ids, NEW explicit \in BOOLEAN
  PROVE  /\ Stamped(w, explicit) \in Envelopes
         /\ Stamped(w, explicit).id = w /\ Stamped(w, explicit).explicit = explicit
BY DEF Stamped, Envelopes

\* A file once written is there: nothing here takes one away.
LEMMA SwFilesStay ==
  ASSUME SwTypes, NEW env \in Envelopes, NEW c \in Contents,
         disk' = [disk EXCEPT ![FlushDest(env)] = c]
  PROVE  /\ disk' \in [Dests -> Contents \cup {None}] /\ disk'[FlushDest(env)] = c
         /\ \A d \in Dests : d # FlushDest(env) => disk'[d] = disk[d]
         /\ \A w \in Ids : HasFile(w) => HasFile(w)'
<1>1. FlushDest(env) \in Dests BY SwDests
<1>2. /\ disk' \in [Dests -> Contents \cup {None}] /\ disk'[FlushDest(env)] = c
      /\ \A d \in Dests : d # FlushDest(env) => disk'[d] = disk[d] BY <1>1 DEF SwTypes, FileTypes
<1>3. c # None BY NoneAssumption
<1>4. \A w \in Ids : <<w, "auto">> \in Dests /\ <<w, "explicit">> \in Dests BY DEF Dests
<1> QED BY <1>1, <1>2, <1>3, <1>4 DEF HasFile

\* What a step of a flush does, in the terms the invariants use.
FlushMoves(f) ==
  \/ flush'[f].pc = "idle" /\ disk' = disk
  \/ /\ flush[f].pc = "gate" /\ ~window
     /\ flush'[f].pc = "clone" /\ disk' = disk
  \/ /\ flush[f].pc = "clone" /\ flush'[f].pc = "collect"
     /\ flush'[f].env = envelope /\ disk' = disk
  \/ /\ flush[f].pc = "collect" /\ flush'[f].pc = "recheck"
     /\ flush'[f].env = flush[f].env /\ disk' = disk
  \/ /\ flush[f].pc = "recheck" /\ flush'[f].pc = "artifacts"
     /\ flush'[f].env = flush[f].env /\ disk' = disk
  \/ /\ flush[f].pc = "artifacts" /\ flush'[f].pc = "write"
     /\ flush'[f].env = flush[f].env /\ flush'[f].art = store /\ disk' = disk
  \/ /\ flush[f].pc = "write" /\ flush'[f].pc = "record"
     /\ flush'[f].env = flush[f].env
     /\ disk' = [disk EXCEPT ![FlushDest(flush[f].env)] =
                   [sess |-> flush[f].sess, art |-> flush[f].art]]
  \/ /\ flush[f].pc = "record" /\ flush'[f].pc = "done"
     /\ flush'[f].env = flush[f].env /\ disk' = disk

LEMMA SwIdle == /\ Idle \in FlushLocals /\ Idle \in SaveLocals
                /\ Idle.pc = "idle" /\ Idle.seen = 0
BY DEF Idle, Starting, FlushLocals, SaveLocals, FlushPcs

LEMMA SwFlushes ==
  ASSUME SwTypes, NEW f \in Flushers, NEW r \in FlushLocals, r.seen <= gen,
         r.pc \in Enveloped => r.env \in Envelopes,
         flush' = [flush EXCEPT ![f] = r], gen' = gen
  PROVE  /\ FlushTypes' /\ flush'[f] = r
         /\ \A g \in Flushers \ {f} : flush'[g] = flush[g] BY DEF SwTypes, FlushTypes

FlushFrame == UNCHANGED <<live, store, made, gen, signal, envelope, window, save, active,
                          edits, undone, phase, count>>

LEMMA SwFlushStep ==
  ASSUME SwTypes, NEW f \in Flushers, Flush(f)
  PROVE  /\ FlushMoves(f) /\ FlushTypes' /\ FileTypes' /\ FlushFrame
         /\ \A g \in Flushers \ {f} : flush'[g] = flush[g]
         /\ flushed' \in Nat /\ flushed' <= gen /\ entries' \in EntryLists
         /\ \A w \in Ids : HasFile(w) => HasFile(w)'
<1> DEFINE l == flush[f]
<1>1. l \in FlushLocals /\ l.seen <= gen /\ (l.pc \in Enveloped => l.env \in Envelopes)
      /\ envelope \in Envelopes /\ flushed \in Nat /\ flushed <= gen /\ gen \in Nat
      /\ entries \in EntryLists /\ store \in SUBSET Artifacts /\ live \in SUBSET Sess
  BY DEF SwTypes, FlushTypes, MemoryTypes
<1>2. Idle.seen <= gen BY <1>1, SwIdle
<1>. USE DEF FlushFrame, clock, shell, files, list, Local
<1>3. CASE Gate(f)
  <2>1. CASE window
    <3>1. flush' = [flush EXCEPT ![f] = Idle] /\ UNCHANGED <<disk, reached, flushed, entries>>
          /\ FlushFrame BY <1>3, <2>1 DEF Gate
    <3>2. FlushTypes' /\ flush'[f] = Idle /\ \A g \in Flushers \ {f} : flush'[g] = flush[g]
      BY <1>2, <3>1, SwFlushes, SwIdle DEF Enveloped
    <3> QED BY <1>1, <3>1, <3>2, SwIdle DEF FlushMoves, SwTypes, FileTypes, HasFile
  <2>2. CASE ~window
    <3> DEFINE r == [l EXCEPT !.pc = "clone"]
    <3>1. flush' = [flush EXCEPT ![f] = r] /\ UNCHANGED <<disk, reached, flushed, entries>>
          /\ FlushFrame /\ l.pc = "gate" BY <1>3, <2>2 DEF Gate
    <3>2. r \in FlushLocals /\ r.pc = "clone" /\ r.seen = l.seen BY <1>1 DEF FlushLocals, FlushPcs
    <3>3. FlushTypes' /\ flush'[f] = r /\ \A g \in Flushers \ {f} : flush'[g] = flush[g]
      <4> HIDE DEF r
      <4> QED BY <1>1, <3>1, <3>2, SwFlushes DEF Enveloped
    <3> HIDE DEF r
    <3> QED BY <1>1, <2>2, <3>1, <3>2, <3>3 DEF FlushMoves, SwTypes, FileTypes, HasFile
  <2> QED BY <2>1, <2>2
<1>4. CASE CloneEnvelope(f)
  <2> DEFINE r == [l EXCEPT !.pc = "collect", !.env = envelope]
  <2>1. flush' = [flush EXCEPT ![f] = r] /\ UNCHANGED <<disk, reached, flushed, entries>>
        /\ FlushFrame /\ l.pc = "clone" BY <1>1, <1>4, NoneAssumption DEF CloneEnvelope
  <2>2. r \in FlushLocals /\ r.pc = "collect" /\ r.seen = l.seen /\ r.env = envelope
    BY <1>1 DEF FlushLocals, FlushPcs
  <2>3. FlushTypes' /\ flush'[f] = r /\ \A g \in Flushers \ {f} : flush'[g] = flush[g]
    <3> HIDE DEF r
    <3> QED BY <1>1, <2>1, <2>2, SwFlushes DEF Enveloped
  <2> HIDE DEF r
  <2> QED BY <1>1, <2>1, <2>2, <2>3 DEF FlushMoves, SwTypes, FileTypes, HasFile
<1>5. CASE Collect(f)
  <2> DEFINE r == [l EXCEPT !.pc = "recheck", !.sess = live]
  <2>1. flush' = [flush EXCEPT ![f] = r] /\ UNCHANGED <<disk, reached, flushed, entries>>
        /\ FlushFrame /\ l.pc = "collect" BY <1>1, <1>5 DEF Collect, SwTypes, FlushTypes
  <2>2. r \in FlushLocals /\ r.pc = "recheck" /\ r.seen = l.seen /\ r.env = l.env
    BY <1>1 DEF FlushLocals, FlushPcs
  <2>3. FlushTypes' /\ flush'[f] = r /\ \A g \in Flushers \ {f} : flush'[g] = flush[g]
    <3> HIDE DEF r
    <3> QED BY <1>1, <2>1, <2>2, SwFlushes DEF Enveloped
  <2> HIDE DEF r
  <2> QED BY <1>1, <2>1, <2>2, <2>3 DEF FlushMoves, SwTypes, FileTypes, HasFile
<1>6. CASE Recheck(f)
  <2>1. CASE Diverges(l.env.expected, live)
    <3>1. flush' = [flush EXCEPT ![f] = Idle] /\ UNCHANGED <<disk, reached, flushed, entries>>
          /\ FlushFrame BY <1>6, <2>1 DEF Recheck
    <3>2. FlushTypes' /\ flush'[f] = Idle /\ \A g \in Flushers \ {f} : flush'[g] = flush[g]
      BY <1>2, <3>1, SwFlushes, SwIdle DEF Enveloped
    <3> QED BY <1>1, <3>1, <3>2, SwIdle DEF FlushMoves, SwTypes, FileTypes, HasFile
  <2>2. CASE ~Diverges(l.env.expected, live)
    <3> DEFINE r == [l EXCEPT !.pc = "artifacts"]
    <3>1. flush' = [flush EXCEPT ![f] = r] /\ UNCHANGED <<disk, reached, flushed, entries>>
          /\ FlushFrame /\ l.pc = "recheck" BY <1>6, <2>2 DEF Recheck
    <3>2. r \in FlushLocals /\ r.pc = "artifacts" /\ r.seen = l.seen /\ r.env = l.env
      BY <1>1 DEF FlushLocals, FlushPcs
    <3>3. FlushTypes' /\ flush'[f] = r /\ \A g \in Flushers \ {f} : flush'[g] = flush[g]
      <4> HIDE DEF r
      <4> QED BY <1>1, <3>1, <3>2, SwFlushes DEF Enveloped
    <3> HIDE DEF r
    <3> QED BY <1>1, <2>2, <3>1, <3>2, <3>3 DEF FlushMoves, SwTypes, FileTypes, HasFile
  <2> QED BY <2>1, <2>2
<1>7. CASE TakeArtifacts(f)
  <2> DEFINE r == [l EXCEPT !.pc = "write", !.art = store]
  <2>1. flush' = [flush EXCEPT ![f] = r] /\ UNCHANGED <<disk, reached, flushed, entries>>
        /\ FlushFrame /\ l.pc = "artifacts" BY <1>1, <1>7 DEF TakeArtifacts, SwTypes, FlushTypes
  <2>2. r \in FlushLocals /\ r.pc = "write" /\ r.seen = l.seen /\ r.env = l.env /\ r.art = store
    BY <1>1 DEF FlushLocals, FlushPcs
  <2>3. FlushTypes' /\ flush'[f] = r /\ \A g \in Flushers \ {f} : flush'[g] = flush[g]
    <3> HIDE DEF r
    <3> QED BY <1>1, <2>1, <2>2, SwFlushes DEF Enveloped
  <2> HIDE DEF r
  <2> QED BY <1>1, <2>1, <2>2, <2>3 DEF FlushMoves, SwTypes, FileTypes, HasFile
<1>8. CASE WriteFile(f)
  <2> DEFINE r == [l EXCEPT !.pc = "record"]
             c == [sess |-> l.sess, art |-> l.art]
  <2>1. flush' = [flush EXCEPT ![f] = r] /\ UNCHANGED <<flushed, entries>>
        /\ FlushFrame /\ l.pc = "write" /\ disk' = [disk EXCEPT ![FlushDest(l.env)] = c]
        /\ reached' = reached \cup l.art BY <1>1, <1>8 DEF WriteFile, SwTypes, FlushTypes
  <2>2. r \in FlushLocals /\ r.pc = "record" /\ r.seen = l.seen /\ r.env = l.env
    BY <1>1 DEF FlushLocals, FlushPcs
  <2>3. c \in Contents /\ l.art \in SUBSET Artifacts BY <1>1 DEF FlushLocals, Contents
  <2>4. FlushTypes' /\ flush'[f] = r /\ \A g \in Flushers \ {f} : flush'[g] = flush[g]
    <3> HIDE DEF r, c
    <3> QED BY <1>1, <2>1, <2>2, SwFlushes DEF Enveloped
  <2>5. disk' \in [Dests -> Contents \cup {None}] /\ \A w \in Ids : HasFile(w) => HasFile(w)'
    <3> HIDE DEF r, c
    <3>1. l.env \in Envelopes BY <1>1, <2>1 DEF Enveloped
    <3> QED BY <2>1, <2>3, <3>1, SwFilesStay
  <2>6. FileTypes' BY <2>1, <2>3, <2>5 DEF FileTypes, SwTypes
  <2>7. FlushMoves(f) BY <2>1, <2>2, <2>4 DEF FlushMoves
  <2> HIDE DEF r, c
  <2> QED BY <1>1, <2>1, <2>4, <2>5, <2>6, <2>7
<1>9. CASE RecordSave(f)
  <2> DEFINE r == [l EXCEPT !.pc = "done"]
  <2>1. flush' = [flush EXCEPT ![f] = r] /\ UNCHANGED <<disk, reached, flushed>>
        /\ FlushFrame /\ l.pc = "record" BY <1>1, <1>9 DEF RecordSave, SwTypes, FlushTypes
  <2>2. r \in FlushLocals /\ r.pc = "done" /\ r.seen = l.seen /\ r.env = l.env
    BY <1>1 DEF FlushLocals, FlushPcs
  <2>3. FlushTypes' /\ flush'[f] = r /\ \A g \in Flushers \ {f} : flush'[g] = flush[g]
    <3> HIDE DEF r
    <3> QED BY <1>1, <2>1, <2>2, SwFlushes DEF Enveloped
  <2>4. entries' \in EntryLists
    <3>1. FlushDest(l.env) \in Dests BY <1>1, <2>1, SwDests DEF Enveloped
    <3>2. entries' = [w \in Ids |-> IF w = l.env.id /\ entries[w].listed
                                   THEN [entries[w] EXCEPT !.auto = FlushDest(l.env)]
                                   ELSE entries[w]] BY <1>9 DEF RecordSave
    <3>3. \A w \in Ids : [entries[w] EXCEPT !.auto = FlushDest(l.env)]
                           \in [listed : BOOLEAN, auto : Dests \cup {None}]
      BY <1>1, <3>1 DEF EntryLists
    <3> HIDE DEF l
    <3> QED BY <1>1, <3>2, <3>3 DEF EntryLists
  <2> HIDE DEF r
  <2> QED BY <1>1, <2>1, <2>2, <2>3, <2>4 DEF FlushMoves, SwTypes, FileTypes, HasFile
<1>10. CASE FlushDone(f)
  <2>1. flush' = [flush EXCEPT ![f] = Idle] /\ UNCHANGED <<disk, reached, entries>>
        /\ FlushFrame /\ flushed' = l.seen BY <1>10 DEF FlushDone
  <2>2. FlushTypes' /\ flush'[f] = Idle /\ \A g \in Flushers \ {f} : flush'[g] = flush[g]
    BY <1>2, <2>1, SwFlushes, SwIdle DEF Enveloped
  <2>3. l.seen \in Nat BY <1>1 DEF FlushLocals
  <2> QED BY <1>1, <2>1, <2>2, <2>3, SwIdle DEF FlushMoves, SwTypes, FileTypes, HasFile
<1> QED BY <1>3, <1>4, <1>5, <1>6, <1>7, <1>8, <1>9, <1>10 DEF Flush

LEMMA SwCounted ==
  ASSUME count \in CountRecs, NEW kind \in {"save", "fail"}, NEW bound, Counts(kind, bound)
  PROVE  /\ count' \in CountRecs
         /\ kind = "save" => count'.fail = count.fail
         /\ kind = "fail" => count'.fail # 0 BY DEF Counts, CountRecs

\* The locals of a save that begins, and that the envelope is its own.
LEMMA SwSave ==
  ASSUME SwTypes, NEW w \in Ids, NEW explicit \in BOOLEAN, Save(w, explicit)
  PROVE  /\ SaveTypes' /\ MemoryTypes'
         /\ save.pc = "idle" /\ save'.pc = "collect" /\ save'.env = envelope'
         /\ envelope'.id = w /\ envelope'.explicit = explicit /\ window' = FALSE
         /\ count'.fail = count.fail
         /\ UNCHANGED <<live, store, made, gen, flush, disk, reached, active>>
<1>. USE DEF clock, shell, files, list
<1>1. live \in SUBSET Sess /\ count \in CountRecs BY DEF SwTypes, MemoryTypes
<1>2. /\ Stamped(w, explicit) \in Envelopes
      /\ Stamped(w, explicit).id = w /\ Stamped(w, explicit).explicit = explicit BY <1>1, SwStamped
<1>3. /\ save.pc = "idle" /\ envelope' = Stamped(w, explicit) /\ window' = FALSE
      /\ save' = Starting("collect", 0, Stamped(w, explicit)) /\ Counts("save", MaxSave)
      /\ UNCHANGED <<live, store, made, gen, flushed, signal, flush, disk, reached,
                     entries, active, phase>> BY DEF Save
<1>4. SaveTypes' /\ save'.pc = "collect" /\ save'.env = envelope'
  BY <1>2, <1>3 DEF SaveTypes, SaveLocals, Starting
<1>5. count' \in CountRecs /\ count'.fail = count.fail BY <1>1, <1>3, SwCounted
<1>6. MemoryTypes' BY <1>2, <1>3, <1>5 DEF SwTypes, MemoryTypes
<1> QED BY <1>2, <1>3, <1>4, <1>5, <1>6

LEMMA SwSaveCollect ==
  ASSUME SwTypes, SaveCollect
  PROVE  /\ SaveTypes' /\ save.pc = "collect" /\ save'.pc = "write" /\ save'.env = save.env
         /\ save'.art = store BY DEF SwTypes, SaveTypes, MemoryTypes, SaveLocals, SaveCollect

LEMMA SwSaveWrite ==
  ASSUME SwTypes, SaveWrite
  PROVE  /\ SaveTypes' /\ FileTypes' /\ save.pc = "write" /\ save'.pc = "idle"
         /\ save.env \in Envelopes /\ [sess |-> save.sess, art |-> save.art] \in Contents
         /\ disk' = [disk EXCEPT ![FlushDest(save.env)] = [sess |-> save.sess, art |-> save.art]]
         /\ \A w \in Ids : HasFile(w) => HasFile(w)'
<1>1. save \in SaveLocals /\ save.pc = "write" /\ save.env \in Envelopes
  BY DEF SwTypes, SaveTypes, SaveWrite
<1>2. [sess |-> save.sess, art |-> save.art] \in Contents /\ save.art \in SUBSET Artifacts
  BY <1>1 DEF SaveLocals, Contents
<1>3. /\ disk' = [disk EXCEPT ![FlushDest(save.env)] = [sess |-> save.sess, art |-> save.art]]
      /\ reached' = reached \cup save.art /\ save' = Idle BY DEF SaveWrite
<1>4. SaveTypes' /\ save'.pc = "idle" BY <1>3, SwIdle DEF SaveTypes
<1>5. disk' \in [Dests -> Contents \cup {None}] /\ \A w \in Ids : HasFile(w) => HasFile(w)'
  BY <1>1, <1>2, <1>3, SwFilesStay
<1>6. FileTypes' BY <1>2, <1>3, <1>5 DEF FileTypes, SwTypes
<1> QED BY <1>1, <1>2, <1>3, <1>4, <1>5, <1>6

\* A transition that goes on keeps what it is.
LEMMA SwGoes ==
  ASSUME SwTypes, NEW pc \in SwPcs, sw # None, Go(pc)
  PROVE  /\ sw' \in Transitions /\ sw'.pc = pc /\ sw'.op = sw.op /\ sw'.to = sw.to
         /\ sw'.content = sw.content /\ sw \in Transitions
         /\ sw' # None /\ UNCHANGED <<switches, agentLoads, owner>>
BY SwitchAssumption DEF SwTypes, StepTypes, Transitions, Go

LEMMA SwBegins ==
  ASSUME SwTypes, NEW op \in {"switch", "open", "new", "agent"}, NEW w \in Ids,
         NEW c \in Contents, NEW pc \in SwPcs, switches < MaxSwitch,
         sw' = [pc |-> pc, op |-> op, to |-> w, content |-> c],
         switches' = switches + 1
  PROVE  /\ sw' \in Transitions /\ sw' # None /\ sw'.pc = pc /\ sw'.op = op /\ sw'.to = w
         /\ sw'.content = c /\ switches' \in 0 .. MaxSwitch
BY SwitchAssumption DEF SwTypes, StepTypes, Transitions

LEMMA SwNothing == Nothing \in Contents /\ Nothing.art = {} BY DEF Nothing, Contents

LEMMA SwAfterSave == \A op : AfterSave(op) \in SwPcs /\ (AfterSave(op) = "load" => op = "open")
BY DEF AfterSave, SwPcs

LEMMA SwFileRead ==
  ASSUME SwTypes, NEW w \in Ids, HasFile(w)
  PROVE  Candidate(w) \in Dests /\ Candidate(w)[1] = w /\ disk[Candidate(w)] \in Contents
<1>1. <<w, "auto">> \in Dests /\ <<w, "explicit">> \in Dests BY DEF Dests
<1> QED BY <1>1 DEF HasFile, Candidate, SwTypes, FileTypes

LEMMA SwTypesInit == SwInit => SwTypes
<1> SUFFICES ASSUME SwInit PROVE SwTypes OBVIOUS
<1>1. MemoryTypes
  <2>1. envelope \in Envelopes /\ active \in Ids /\ 0 <= MaxMut
    BY AutosaveAssumption DEF SwInit, Init, Envelopes
  <2>2. entries \in EntryLists BY DEF SwInit, Init, EntryLists
  <2>3. count \in CountRecs BY DEF SwInit, Init, CountRecs
  <2>4. /\ live \in SUBSET Sess /\ store \in SUBSET Artifacts
        /\ made = 0 /\ gen = 0 /\ flushed = 0 /\ signal \in BOOLEAN /\ window \in BOOLEAN
        /\ phase = "running" BY DEF SwInit, Init
  <2> QED BY <2>1, <2>2, <2>3, <2>4 DEF MemoryTypes
<1>2. FlushTypes BY SwIdle DEF SwInit, Init, FlushTypes, MemoryTypes, Enveloped
<1>3. SaveTypes BY SwIdle DEF SwInit, Init, SaveTypes
<1>4. FileTypes BY DEF SwInit, Init, FileTypes
<1>5. StepTypes
  <2>1. sw = None /\ switches \in 0 .. MaxSwitch /\ agentLoads \in BOOLEAN
    <3>1. 0 \in 0 .. MaxSwitch
      <4>1. MaxSwitch \in Nat BY SwitchAssumption
      <4> QED BY <4>1
    <3>2. sw = None /\ switches = 0 /\ agentLoads = FALSE BY DEF SwInit
    <3> QED BY <3>1, <3>2
  <2>2. owner \in [Artifacts -> Ids \cup {None}] BY DEF SwInit
  <2> QED BY <2>1, <2>2 DEF StepTypes
<1> QED BY <1>1, <1>2, <1>3, <1>4, <1>5 DEF SwTypes

\* Files that no one wrote, and locals that no one touched.
LEMMA SwFlushSame == FlushTypes /\ gen' = gen /\ flush' = flush => FlushTypes' BY DEF FlushTypes
LEMMA SwSaveSame == SaveTypes /\ save' = save => SaveTypes' BY DEF SaveTypes
LEMMA SwFilesSame == FileTypes /\ UNCHANGED <<disk, reached>> => FileTypes' BY DEF FileTypes
LEMMA SwHasSame == ASSUME disk' = disk PROVE \A w \in Ids : HasFile(w)' <=> HasFile(w)
BY DEF HasFile
LEMMA SwMemorySame ==
  ASSUME MemoryTypes, UNCHANGED <<live, store, made, gen, flushed, signal, window, phase,
                                  envelope, active, entries, count>>
  PROVE  MemoryTypes' BY DEF MemoryTypes
LEMMA SwStepSame ==
  ASSUME StepTypes, UNCHANGED swvars, \A w \in Ids : HasFile(w) => HasFile(w)'
  PROVE  StepTypes' BY DEF StepTypes, swvars, Transitions

\* A transition's own step, of which only the type of where it stands is
\* new.
LEMMA SwStepGoes ==
  ASSUME SwTypes, NEW pc \in SwPcs, sw # None, Go(pc), disk' = disk,
         pc # "saving", pc = "load" => HasFile(sw.to)
  PROVE  StepTypes'
<1>1. sw' \in Transitions /\ sw'.pc = pc /\ sw'.to = sw.to /\ sw.to \in Ids
      /\ UNCHANGED <<switches, agentLoads, owner>> BY SwGoes DEF Transitions
<1> QED BY <1>1, SwHasSame DEF SwTypes, StepTypes

LEMMA SwTypesStep == SwTypes /\ [SwNext]_allvars => SwTypes'
<1> SUFFICES ASSUME SwTypes, [SwNext]_allvars PROVE SwTypes' OBVIOUS
<1>. USE DEF clock, shell, files, list
<1>0. MemoryTypes /\ FlushTypes /\ SaveTypes /\ FileTypes /\ StepTypes BY DEF SwTypes
<1>1. ASSUME NEW op \in {"switch", "open", "new"}, NEW w \in Ids, StartClean(op, w)
      PROVE  SwTypes'
  <2>1. UNCHANGED vars /\ UNCHANGED <<agentLoads, owner>> /\ switches < MaxSwitch
        /\ (op = "open" => HasFile(w)) /\ switches' = switches + 1
        /\ sw' = [pc |-> AfterSave(op), op |-> op, to |-> w, content |-> Nothing]
    BY <1>1 DEF StartClean
  <2>2. /\ sw' \in Transitions /\ sw'.pc = AfterSave(op) /\ sw'.to = w
        /\ switches' \in 0 .. MaxSwitch BY <2>1, SwBegins, SwNothing, SwAfterSave
  <2>3. (HasFile(w)' <=> HasFile(w)) /\ AfterSave(op) # "saving"
    BY <2>1, SwHasSame DEF vars, AfterSave
  <2>4. StepTypes' BY <1>0, <2>1, <2>2, <2>3, SwAfterSave DEF StepTypes
  <2> QED BY <1>0, <2>1, <2>4, SwFlushSame, SwSaveSame, SwFilesSame, SwMemorySame DEF SwTypes, vars
<1>2. ASSUME NEW op \in {"switch", "open", "new"}, NEW w \in Ids, StartDirty(op, w)
      PROVE  SwTypes'
  <2>1. UNCHANGED <<agentLoads, owner>> /\ switches < MaxSwitch
        /\ switches' = switches + 1 /\ Save(active, IsExplicit(active))
        /\ (op = "open" => HasFile(w))
        /\ sw' = [pc |-> "saving", op |-> op, to |-> w, content |-> Nothing] BY <1>2 DEF StartDirty
  <2>2. /\ sw' \in Transitions /\ sw'.pc = "saving" /\ sw'.op = op /\ sw'.to = w
        /\ switches' \in 0 .. MaxSwitch BY <2>1, SwBegins, SwNothing DEF SwPcs
  <2>3. active \in Ids /\ IsExplicit(active) \in BOOLEAN BY <1>0 DEF MemoryTypes, IsExplicit
  <2>4. SaveTypes' /\ MemoryTypes' /\ UNCHANGED <<gen, flush, disk, reached>> BY <2>1, <2>3, SwSave
  <2>5. StepTypes' BY <1>0, <2>1, <2>2, <2>4, SwHasSame DEF StepTypes
  <2> QED BY <1>0, <2>4, <2>5, SwFlushSame, SwFilesSame DEF SwTypes
<1>3. ASSUME NEW pc \in SwPcs, sw # None, Go(pc), pc # "saving", pc = "load" => HasFile(sw.to),
             UNCHANGED <<gen, flush, save, disk, reached>>, MemoryTypes'
      PROVE  SwTypes' BY <1>0, <1>3, SwStepGoes, SwFlushSame, SwSaveSame, SwFilesSame DEF SwTypes
<1>4. CASE SaveReturns
  <2>1. sw # None /\ Go(AfterSave(sw.op)) /\ UNCHANGED vars /\ AfterSave(sw.op) \in SwPcs
    BY <1>4, SwAfterSave DEF SaveReturns
  <2>2. sw.op = "open" => HasFile(sw.to) BY <1>0, <1>4 DEF SaveReturns, StepTypes
  <2>3. AfterSave(sw.op) # "saving" /\ MemoryTypes' BY <1>0, <2>1, SwMemorySame DEF AfterSave, vars
  <2> QED BY <1>3, <2>1, <2>2, <2>3, SwAfterSave DEF vars
<1>5. CASE Begins
  <2>1. MemoryTypes' BY <1>0, <1>5 DEF Begins, MemoryTypes
  <2> QED BY <1>3, <1>5, <2>1 DEF Begins, SwPcs
<1>6. ASSUME NEW s \in Sess, Closes(s) \/ Opens(s) PROVE SwTypes'
  <2>1. MemoryTypes' /\ UNCHANGED swvars /\ UNCHANGED <<gen, flush, save, disk, reached>>
    BY <1>0, <1>6 DEF Closes, Opens, MemoryTypes
  <2> QED BY <1>0, <2>1, SwHasSame, SwStepSame, SwFlushSame, SwSaveSame, SwFilesSame DEF SwTypes
<1>7. CASE EmptiesAnalyses
  <2>1. MemoryTypes' BY <1>0, <1>7 DEF EmptiesAnalyses, MemoryTypes
  <2> QED BY <1>3, <1>7, <2>1 DEF EmptiesAnalyses, SwPcs
<1>8. CASE Activates
  <2>1. sw # None /\ sw.to \in Ids BY <1>0, <1>8 DEF Activates, StepTypes, Transitions
  <2>2. MemoryTypes' BY <1>0, <1>8, <2>1 DEF Activates, MemoryTypes
  <2> QED BY <1>3, <1>8, <2>1, <2>2 DEF Activates, SwPcs
<1>9. CASE Loads
  <2>1. sw \in Transitions /\ sw.to \in Ids /\ HasFile(sw.to)
    BY <1>0, <1>9 DEF Loads, StepTypes, Transitions
  <2>2. disk[Candidate(sw.to)] \in Contents BY <2>1, SwFileRead
  <2>3. sw' \in Transitions /\ sw'.pc \notin {"load", "saving"} /\ UNCHANGED <<switches, agentLoads, owner>>
        /\ UNCHANGED vars BY <1>9, <2>1, <2>2 DEF Loads, Transitions, SwPcs
  <2>4. StepTypes' BY <1>0, <2>3 DEF StepTypes
  <2> QED BY <1>0, <2>3, <2>4, SwFlushSame, SwSaveSame, SwFilesSame, SwMemorySame DEF SwTypes, vars
<1>10. CASE LoadFails
  <2>1. MemoryTypes' BY <1>0, <1>10, SwCounted DEF LoadFails, MemoryTypes
  <2>2. StepTypes' BY <1>0, <1>10 DEF LoadFails, StepTypes
  <2> QED BY <1>0, <1>10, <2>1, <2>2, SwFlushSame, SwSaveSame, SwFilesSame DEF SwTypes, LoadFails
<1>11. CASE RestoresAnalyses
  <2>1. sw.content.art \in SUBSET Artifacts /\ sw # None
    BY <1>0, <1>11 DEF RestoresAnalyses, StepTypes, Transitions, Contents
  <2>2. MemoryTypes' BY <1>0, <1>11, <2>1 DEF RestoresAnalyses, MemoryTypes
  <2> QED BY <1>3, <1>11, <2>2 DEF RestoresAnalyses, SwPcs
<1>12. CASE AllOpen
  <2>1. MemoryTypes' BY <1>0, <1>12, SwMemorySame DEF AllOpen, vars
  <2> QED BY <1>3, <1>12, <2>1 DEF AllOpen, SwPcs, vars
<1>13. CASE PushesEnvelope
  <2>1. sw.to \in Ids /\ IsExplicit(sw.to) \in BOOLEAN /\ live \in SUBSET Sess
    BY <1>0, <1>13 DEF PushesEnvelope, StepTypes, Transitions, IsExplicit, MemoryTypes
  <2>2. envelope' \in Envelopes BY <1>13, <2>1, SwStamped DEF PushesEnvelope
  <2>3. MemoryTypes' BY <1>0, <1>13, <2>2 DEF PushesEnvelope, MemoryTypes
  <2>4. StepTypes' BY <1>0, <1>13 DEF PushesEnvelope, StepTypes
  <2> QED BY <1>0, <1>13, <2>3, <2>4, SwFlushSame, SwSaveSame, SwFilesSame DEF SwTypes, PushesEnvelope
<1>14. ASSUME NEW w \in Ids, AgentStarts(w) PROVE SwTypes'
  <2>1. /\ switches < MaxSwitch /\ switches' = switches + 1 /\ HasFile(w)
        /\ sw' = [pc |-> "open", op |-> "agent", to |-> w, content |-> disk[Candidate(w)]]
        /\ agentLoads' = TRUE /\ owner' = owner BY <1>14 DEF AgentStarts
  <2>2. disk[Candidate(w)] \in Contents BY <2>1, SwFileRead
  <2>3. sw' \in Transitions /\ sw'.pc = "open" /\ switches' \in 0 .. MaxSwitch
    BY <2>1, <2>2, SwBegins DEF SwPcs
  <2>4. StepTypes' BY <1>0, <2>1, <2>3 DEF StepTypes
  <2>5. MemoryTypes' BY <1>0, <1>14 DEF AgentStarts, MemoryTypes
  <2> QED BY <1>0, <1>14, <2>4, <2>5, SwFlushSame, SwSaveSame, SwFilesSame DEF SwTypes, AgentStarts
<1>15. CASE AgentReturns
  <2>1. StepTypes' BY <1>0, <1>15 DEF AgentReturns, StepTypes
  <2> QED BY <1>0, <1>15, <2>1, SwFlushSame, SwSaveSame, SwFilesSame, SwMemorySame DEF SwTypes,
       AgentReturns, vars
<1>16. CASE Makes
  <2>1. MemoryTypes' BY <1>0, <1>16, AutosaveAssumption DEF Makes, Mutate, MemoryTypes, Artifacts
  <2>2. StepTypes'
    <3>1. owner' \in [Artifacts -> Ids \cup {None}] BY <1>0, <1>16 DEF Makes, StepTypes, MemoryTypes
    <3>2. UNCHANGED <<sw, switches, agentLoads, disk>> BY <1>16 DEF Makes, Mutate
    <3> QED BY <1>0, <3>1, <3>2, SwHasSame DEF StepTypes, Transitions
  <2> QED BY <1>0, <1>16, <2>1, <2>2, SwFlushSame, SwSaveSame, SwFilesSame DEF SwTypes, Makes, Mutate
<1>17. CASE Saves
  <2>1. PICK explicit \in BOOLEAN : Save(active, explicit) BY <1>17 DEF Saves
  <2>2. active \in Ids BY <1>0 DEF MemoryTypes
  <2>3. SaveTypes' /\ MemoryTypes' /\ UNCHANGED <<gen, flush, disk, reached>> BY <2>1, <2>2, SwSave
  <2>4. UNCHANGED swvars BY <1>17 DEF Saves
  <2> QED BY <1>0, <2>3, <2>4, SwHasSame, SwStepSame, SwFlushSame, SwFilesSame DEF SwTypes
<1>18. CASE Lapses
  <2>1. MemoryTypes' BY <1>0, <1>18 DEF Lapses, WindowLapses, MemoryTypes
  <2> QED BY <1>0, <1>18, <2>1, SwHasSame, SwStepSame, SwFlushSame, SwSaveSame, SwFilesSame DEF
       SwTypes, Lapses, WindowLapses
<1>19. CASE ScheduleAutosave /\ UNCHANGED swvars
  <2>1. MemoryTypes' BY <1>0, <1>19 DEF ScheduleAutosave, MemoryTypes
  <2>2. FlushTypes'
    <3>1. flush' = flush /\ gen' = gen + 1 /\ gen \in Nat
      BY <1>0, <1>19 DEF ScheduleAutosave, MemoryTypes
    <3>2. \A f \in Flushers : flush[f].seen \in Nat BY <1>0 DEF FlushTypes, FlushLocals
    <3> QED BY <1>0, <3>1, <3>2 DEF FlushTypes
  <2> QED BY <1>0, <1>19, <2>1, <2>2, SwHasSame, SwStepSame, SwSaveSame, SwFilesSame DEF SwTypes,
       ScheduleAutosave
<1>20. CASE SaveCollect /\ UNCHANGED swvars
  <2>1. SaveTypes' BY <1>20, SwSaveCollect
  <2> QED BY <1>0, <1>20, <2>1, SwHasSame, SwStepSame, SwFlushSame, SwFilesSame, SwMemorySame DEF
       SwTypes, SaveCollect
<1>21. CASE SaveWrite /\ UNCHANGED swvars
  <2>1. SaveTypes' /\ FileTypes' /\ \A w \in Ids : HasFile(w) => HasFile(w)' BY <1>21, SwSaveWrite
  <2> QED BY <1>0, <1>21, <2>1, SwStepSame, SwFlushSame, SwMemorySame DEF SwTypes, SaveWrite
<1>22. CASE Debounced /\ UNCHANGED swvars
  <2>1. MemoryTypes' BY <1>0, <1>22 DEF Debounced, MemoryTypes
  <2>2. /\ Starting("gate", gen, None) \in FlushLocals
        /\ Starting("gate", gen, None).pc = "gate" /\ Starting("gate", gen, None).seen = gen
    BY <1>0 DEF Starting, FlushLocals, FlushPcs, MemoryTypes
  <2>3. FlushTypes'
    <3>1. /\ flush' = [flush EXCEPT !["scheduler"] = Starting("gate", gen, None)]
          /\ gen' = gen /\ gen \in Nat /\ "scheduler" \in Flushers
      BY <1>0, <1>22 DEF Debounced, MemoryTypes, Flushers
    <3>2. Starting("gate", gen, None).seen <= gen BY <2>2, <3>1
    <3>3. Starting("gate", gen, None).pc \notin Enveloped BY <2>2 DEF Enveloped
    <3> QED BY <2>2, <3>1, <3>2, <3>3, SwFlushes
  <2> QED BY <1>0, <1>22, <2>1, <2>3, SwHasSame, SwStepSame, SwSaveSame, SwFilesSame DEF SwTypes,
       Debounced
<1>23. ASSUME NEW f \in Flushers, Flush(f), UNCHANGED swvars PROVE SwTypes'
  <2>1. /\ FlushTypes' /\ FileTypes' /\ FlushFrame
        /\ flushed' \in Nat /\ flushed' <= gen /\ entries' \in EntryLists
        /\ \A w \in Ids : HasFile(w) => HasFile(w)' BY <1>23, SwFlushStep
  <2>2. MemoryTypes' BY <1>0, <2>1 DEF MemoryTypes, FlushFrame
  <2> QED BY <1>0, <1>23, <2>1, <2>2, SwStepSame, SwSaveSame DEF SwTypes, FlushFrame
<1>24. CASE UNCHANGED allvars
  BY <1>0, <1>24, SwHasSame, SwStepSame, SwFlushSame, SwSaveSame, SwFilesSame, SwMemorySame DEF
    SwTypes, allvars, vars
<1> QED BY <1>1, <1>2, <1>4, <1>5, <1>6, <1>7, <1>8, <1>9, <1>10, <1>11, <1>12, <1>13, <1>14,
     <1>15, <1>16, <1>17, <1>18, <1>19, <1>20, <1>21, <1>22, <1>23, <1>24
     DEF SwNext, Transition

----------------------------------------
\* Under an armed window no file changes.

LEMMA SwWindowInit == SwInit => WindowInv BY SwIdle DEF SwInit, Init, WindowInv, Flushers

LEMMA SwWindowStep ==
  ASSUME Settled, SwTypes, WindowInv, [SwNext]_allvars
  PROVE  WindowInv'
<1>. USE DEF clock, shell, files, list
<1>0. "scheduler" \in Flushers /\ "exit" \in Flushers /\ "scheduler" # "exit" BY DEF Flushers
<1>1. ASSUME NEW op \in {"switch", "open", "new"}, NEW w \in Ids, StartClean(op, w)
      PROVE  WindowInv' BY <1>1 DEF StartClean, WindowInv, vars
<1>2. ASSUME NEW op \in {"switch", "open", "new"}, NEW w \in Ids, StartDirty(op, w)
      PROVE  WindowInv'
  <2>1. active \in Ids /\ IsExplicit(active) \in BOOLEAN BY DEF SwTypes, MemoryTypes, IsExplicit
  <2>2. window' = FALSE /\ flush' = flush BY <1>2, <2>1, SwSave DEF StartDirty
  <2>3. sw'.pc = "saving" BY <1>2 DEF StartDirty
  <2> QED BY <2>2, <2>3 DEF WindowInv
<1>3. ASSUME NEW pc \in SwPcs, sw # None, Go(pc), sw.pc # "saving" \/ save.pc = "idle",
             UNCHANGED <<flush, save>>,
             window' = window \/ (window' = TRUE /\ NoFlush)
      PROVE  WindowInv'
  <2>1. sw'.op = sw.op BY <1>3, SwGoes
  <2>2. window' => \A f \in Flushers : flush[f].pc \in {"idle", "gate"}
    BY <1>3 DEF WindowInv, NoFlush
  <2> QED BY <1>3, <2>1, <2>2 DEF WindowInv
<1>4. CASE SaveReturns BY <1>3, <1>4, SwAfterSave DEF SaveReturns, vars
<1>5. CASE Begins BY <1>3, <1>5 DEF Begins, SwPcs
<1>6. ASSUME NEW s \in Sess, Closes(s) \/ Opens(s) PROVE WindowInv'
  BY <1>6 DEF Closes, Opens, WindowInv, swvars
<1>7. CASE EmptiesAnalyses BY <1>3, <1>7 DEF EmptiesAnalyses, SwPcs
<1>8. CASE Activates BY <1>3, <1>8 DEF Activates, SwPcs
<1>9. CASE Loads
  <2>1. sw # None /\ sw.pc = "load" /\ UNCHANGED <<flush, save, window>> BY <1>9 DEF Loads, vars
  <2>2. sw'.op = sw.op BY <1>9, <2>1 DEF Loads, SwTypes, StepTypes, Transitions
  <2> QED BY <2>1, <2>2 DEF WindowInv
<1>10. CASE LoadFails BY <1>10 DEF LoadFails, WindowInv
<1>11. CASE RestoresAnalyses BY <1>3, <1>11 DEF RestoresAnalyses, SwPcs
<1>12. CASE AllOpen BY <1>3, <1>12 DEF AllOpen, SwPcs, vars
<1>13. CASE PushesEnvelope BY <1>13 DEF PushesEnvelope, WindowInv
<1>14. ASSUME NEW w \in Ids, AgentStarts(w) PROVE WindowInv'
  <2>1. sw'.op = "agent" /\ UNCHANGED <<flush, save>> BY <1>14 DEF AgentStarts
  <2>2. \A f \in Flushers : flush[f].pc \in {"idle", "gate"}
    BY <1>14 DEF AgentStarts, Quiet, NoFlush
  <2> QED BY <2>1, <2>2 DEF WindowInv
<1>15. CASE AgentReturns BY <1>15 DEF AgentReturns, WindowInv, vars
<1>16. CASE Makes BY <1>16 DEF Makes, Mutate, WindowInv
<1>17. CASE Saves
  <2>1. PICK explicit \in BOOLEAN : Save(active, explicit) BY <1>17 DEF Saves
  <2>2. active \in Ids BY DEF SwTypes, MemoryTypes
  <2>3. window' = FALSE /\ flush' = flush BY <2>1, <2>2, SwSave
  <2>4. sw = None /\ sw' = sw BY <1>17 DEF Saves, swvars
  <2> QED BY <2>3, <2>4 DEF WindowInv
<1>18. CASE Lapses BY <1>18 DEF Lapses, WindowLapses, WindowInv, swvars
<1>19. CASE ScheduleAutosave /\ UNCHANGED swvars BY <1>19 DEF ScheduleAutosave, WindowInv, swvars
<1>20. CASE SaveCollect /\ UNCHANGED swvars BY <1>20 DEF SaveCollect, WindowInv, swvars
<1>21. CASE SaveWrite /\ UNCHANGED swvars
  <2>1. save'.pc = "idle" /\ UNCHANGED <<window, flush, sw>>
    BY <1>21, SwSaveWrite DEF SaveWrite, swvars
  <2> QED BY <2>1 DEF WindowInv
<1>22. CASE Debounced /\ UNCHANGED swvars
  <2>1. UNCHANGED <<window, save, sw>> BY <1>22 DEF Debounced, swvars
  <2>2. flush' = [flush EXCEPT !["scheduler"] = Starting("gate", gen, None)]
        /\ Starting("gate", gen, None).pc = "gate" BY <1>22 DEF Debounced, Starting
  <2>3. flush'["scheduler"].pc = "gate" /\ \A f \in Flushers \ {"scheduler"} : flush'[f] = flush[f]
    BY <1>0, <2>2 DEF SwTypes, FlushTypes
  <2> QED BY <1>0, <2>1, <2>3 DEF WindowInv
<1>23. ASSUME NEW f \in Flushers, Flush(f), UNCHANGED swvars PROVE WindowInv'
  <2>1. FlushMoves(f) /\ FlushFrame /\ \A g \in Flushers \ {f} : flush'[g] = flush[g]
    BY <1>23, SwFlushStep
  <2>2. window => flush'[f].pc \in {"idle", "gate"} BY <2>1 DEF FlushMoves, WindowInv
  <2>3. f # "exit"
    BY <1>0, <1>23 DEF WindowInv, Flush, Gate, CloneEnvelope, Collect, Recheck, TakeArtifacts,
      WriteFile, RecordSave, FlushDone
  <2> QED BY <1>0, <1>23, <2>1, <2>2, <2>3 DEF WindowInv, FlushFrame, swvars
<1>24. CASE UNCHANGED allvars BY <1>24 DEF allvars, vars, swvars, WindowInv
<1> QED BY <1>1, <1>2, <1>4, <1>5, <1>6, <1>7, <1>8, <1>9, <1>10, <1>11, <1>12, <1>13, <1>14,
     <1>15, <1>16, <1>17, <1>18, <1>19, <1>20, <1>21, <1>22, <1>23, <1>24
     DEF SwNext, Transition

\* Only a save and a flush write a file.
LEMMA SwWrites ==
  ASSUME SwTypes, [SwNext]_allvars
  PROVE  \/ disk' = disk
         \/ SaveWrite /\ UNCHANGED swvars
         \/ \E f \in Flushers : WriteFile(f) /\ UNCHANGED swvars
<1>. USE DEF clock, shell, files, list
<1>1. CASE Transition
  BY <1>1 DEF Transition, StartClean, StartDirty, Save, SaveReturns, Begins, EmptiesAnalyses,
    Activates, Loads, LoadFails, RestoresAnalyses, AllOpen, PushesEnvelope, AgentReturns, Closes,
    Opens, AgentStarts, vars
<1>2. CASE Makes \/ Saves \/ Lapses \/ ScheduleAutosave \/ SaveCollect \/ Debounced
  BY <1>2 DEF Makes, Mutate, Saves, Save, Lapses, WindowLapses, ScheduleAutosave, SaveCollect,
    Debounced
<1>3. ASSUME NEW f \in Flushers, Flush(f) PROVE disk' = disk \/ WriteFile(f)
  BY <1>3 DEF Flush, Gate, CloneEnvelope, Collect, Recheck, TakeArtifacts, RecordSave, FlushDone,
    Local
<1>4. CASE UNCHANGED allvars BY <1>4 DEF allvars, vars
<1> QED BY <1>1, <1>2, <1>3, <1>4 DEF SwNext

LEMMA SwWindowKeepsFiles ==
  ASSUME SwTypes, WindowInv, [SwNext]_allvars, sw # None, sw.op # "agent", window
  PROVE  disk' = disk
<1>1. ~SaveWrite BY DEF WindowInv, SaveWrite
<1>2. \A f \in Flushers : ~WriteFile(f) BY DEF WindowInv, WriteFile
<1> QED BY <1>1, <1>2, SwWrites

----------------------------------------
\* Everything in its place.

LEMMA SwCandidate ==
  ASSUME SwTypes, NEW w \in Ids
  PROVE  /\ HasFile(w) => Candidate(w) \in Files(w)
         /\ (\E d \in Files(w) : TRUE) => HasFile(w)
         /\ \A d \in Files(w) : d = <<w, "auto">> \/ d = <<w, "explicit">>
<1>1. \A d \in Dests : d[1] = w => d = <<w, "auto">> \/ d = <<w, "explicit">> BY DEF Dests
<1>2. /\ <<w, "auto">> \in Dests /\ <<w, "explicit">> \in Dests
      /\ <<w, "auto">>[1] = w /\ <<w, "explicit">>[1] = w BY DEF Dests
<1> QED BY <1>1, <1>2 DEF Files, HasFile, Candidate

LEMMA SwPlacesInit == SwInit => PlacesInv
<1> SUFFICES ASSUME SwInit PROVE PlacesInv OBVIOUS
<1>1. /\ sw = None /\ store = {} /\ active = First /\ save.pc = "idle"
      /\ envelope.id = First /\ envelope.explicit = FALSE
      /\ \A f \in Flushers : flush[f].pc = "idle"
      /\ \A d \in Dests : disk[d] = None
      /\ \A m \in Artifacts : owner[m] = None
      /\ First \in Ids /\ None \notin Ids /\ <<First, "explicit">> \in Dests
  BY SwIdle, AutosaveAssumption DEF SwInit, Init, Dests
<1>2. WritersAtHome BY <1>1 DEF WritersAtHome, Torn, Named, Shut
<1>3. NoneForeign BY <1>1 DEF NoneForeign
<1>4. InMemory /\ InFiles /\ WritersKeep
  BY <1>1 DEF InMemory, InFiles, WritersKeep, Torn, Restored, Loaded, Owned
<1> QED BY <1>2, <1>3, <1>4 DEF PlacesInv

\* Before the transition starts, a settled workspace has everything in its
\* files.
LEMMA SwAllFiled ==
  ASSUME SwTypes, PlacesInv, Quiet, sw = None, NEW m \in Artifacts, Owned(m)
  PROVE  Filed(m)
<1>1. owner[m] \in Ids BY DEF SwTypes, StepTypes, Owned
<1>2. CASE owner[m] # envelope.id BY <1>2 DEF PlacesInv, InFiles
<1>3. CASE owner[m] = envelope.id
  <2>1. m \in store BY <1>3 DEF PlacesInv, InMemory, Torn
  <2>2. PICK d \in Dests : disk[d] # None /\ m \in disk[d].art BY <2>1 DEF Quiet, OnDisk
  <2>3. d[1] = owner[m] BY <2>2 DEF PlacesInv, NoneForeign, Of, Owned
  <2>4. d \in Files(owner[m]) BY <2>2, <2>3 DEF Files
  <2> QED BY <2>2, <2>4 DEF PlacesInv, InFiles
<1> QED BY <1>2, <1>3

\* A snapshot that has all that the files of its workspace had, and nothing
\* of another, replaces one of them.
LEMMA SwReplaces ==
  ASSUME SwTypes, PlacesInv, NEW c \in Contents,
         NEW env \in Envelopes, env.id = envelope.id, env.explicit = envelope.explicit,
         disk' = [disk EXCEPT ![FlushDest(env)] = c],
         UNCHANGED <<envelope, made, owner, sw>>,
         \A m \in c.art : m <= made /\ Of(m, env.id),
         \A m \in Artifacts : owner[m] = env.id =>
            \A d \in Files(env.id) : m \in disk[d].art => m \in c.art
  PROVE  /\ InFiles'
         /\ ~envelope'.explicit => disk'[<<envelope'.id, "explicit">>] = None
         /\ \A d \in Dests : disk'[d] # None => \A m \in disk'[d].art : m <= made' /\ Of(m, d[1])'
         /\ FlushDest(env) \in Dests /\ disk'[FlushDest(env)] = c /\ FlushDest(env)[1] = env.id
         /\ \A d \in Dests : d # FlushDest(env) => disk'[d] = disk[d]
<1> DEFINE to == FlushDest(env)
           h == env.id
<1>1. /\ to \in Dests /\ disk'[to] = c /\ c # None
      /\ \A d \in Dests : d # to => disk'[d] = disk[d] BY SwFilesStay, SwDests, NoneAssumption
<1>2. to[1] = h /\ to = (IF env.explicit THEN <<h, "explicit">> ELSE <<h, "auto">>) /\ h \in Ids
  BY DEF FlushDest, Envelopes
<1>3. ~envelope.explicit => disk[<<envelope.id, "explicit">>] = None BY DEF PlacesInv, WritersAtHome
<1>4. <<h, "explicit">> \in Dests /\ <<h, "auto">> \in Dests /\ env.explicit \in BOOLEAN
      /\ <<h, "explicit">> # <<h, "auto">> BY <1>2 DEF Dests, Envelopes
<1>5. ~envelope'.explicit => disk'[<<envelope'.id, "explicit">>] = None BY <1>1, <1>2, <1>3, <1>4
<1>6. \A d \in Dests : disk'[d] # None => \A m \in disk'[d].art : m <= made' /\ Of(m, d[1])'
  BY <1>1, <1>2 DEF PlacesInv, NoneForeign, Of
<1>7. Candidate(h)' = to /\ HasFile(h)' BY <1>1, <1>2, <1>3, <1>4 DEF Candidate, HasFile
<1>8. ASSUME NEW m \in Artifacts, Owned(m)'
      PROVE  /\ Filed(m)' \/ (sw' = None /\ owner'[m] = envelope'.id)
             /\ \A d \in Files(owner[m])' : m \in disk'[d].art => Filed(m)'
  <2>1. Owned(m) /\ owner[m] \in Ids /\ owner'[m] = owner[m] BY <1>8 DEF Owned, SwTypes, StepTypes
  <2>2. /\ Filed(m) \/ (sw = None /\ owner[m] = envelope.id)
        /\ \A d \in Files(owner[m]) : m \in disk[d].art => Filed(m) BY <2>1 DEF PlacesInv, InFiles
  <2>3. CASE owner[m] # h
    <3>1. \A d \in Dests : d[1] = owner[m] => disk'[d] = disk[d] BY <1>1, <1>2, <2>3
    <3>2. /\ <<owner[m], "auto">> \in Dests /\ <<owner[m], "explicit">> \in Dests
          /\ <<owner[m], "auto">>[1] = owner[m] /\ <<owner[m], "explicit">>[1] = owner[m]
      BY <2>1 DEF Dests
    <3>3. disk'[<<owner[m], "auto">>] = disk[<<owner[m], "auto">>]
          /\ disk'[<<owner[m], "explicit">>] = disk[<<owner[m], "explicit">>] BY <3>1, <3>2
    <3>4. Filed(m)' <=> Filed(m) BY <2>1, <3>3 DEF Filed, HasFile, Candidate
    <3>5. \A d \in Files(owner[m])' : d \in Files(owner[m]) /\ disk'[d] = disk[d]
      BY <2>1, <3>1 DEF Files
    <3> QED BY <2>1, <2>2, <3>4, <3>5
  <2>4. CASE owner[m] = h
    <3>1. Filed(m)' <=> m \in c.art BY <1>1, <1>7, <2>1, <2>4 DEF Filed
    <3>2. \A d \in Files(h) : m \in disk[d].art => m \in c.art BY <2>4
    <3>3. Filed(m) => m \in c.art BY <1>2, <2>4, <3>2, SwCandidate DEF Filed
    <3>4. \A d \in Files(h)' : m \in disk'[d].art => m \in c.art BY <1>1, <3>2 DEF Files
    <3> QED BY <2>1, <2>2, <2>4, <3>1, <3>3, <3>4
  <2> QED BY <2>3, <2>4
<1>9. InFiles' BY <1>8 DEF InFiles
<1> QED BY <1>1, <1>2, <1>5, <1>6, <1>9

\* Nothing that the invariant speaks of changes.
LEMMA SwPlacesSame ==
  ASSUME PlacesInv,
         UNCHANGED <<active, envelope, window, save, flush, disk, store, made, owner, sw>>
  PROVE  PlacesInv'
<1>1. WritersAtHome' BY DEF PlacesInv, WritersAtHome, Torn, Named, Shut
<1>2. NoneForeign' BY DEF PlacesInv, NoneForeign, Of, Home, Torn
<1>3. InMemory' BY DEF PlacesInv, InMemory, Torn, Restored, Loaded
<1>4. InFiles' BY DEF PlacesInv, InFiles, Owned, Filed, HasFile, Candidate, Files
<1>5. WritersKeep' BY DEF PlacesInv, WritersKeep, Files
<1> QED BY <1>1, <1>2, <1>3, <1>4, <1>5 DEF PlacesInv

\* Where a transition stands decides what is in memory.
SwFlags == Torn' = Torn /\ Named' = Named /\ Loaded' = Loaded /\ Restored' = Restored
           /\ Shut' = Shut /\ Home' = Home

LEMMA SwFlagsSame == UNCHANGED <<sw, envelope>> => SwFlags
BY DEF SwFlags, Torn, Named, Loaded, Restored, Shut, Home

\* Who writes is at home, and at home is the workspace in memory.
LEMMA SwAtHome ==
  ASSUME SwTypes, WindowInv, PlacesInv
  PROVE  /\ ~window => ~Torn /\ Home = envelope.id
         /\ save.pc # "idle" => ~Torn /\ Home = envelope.id
         /\ \A f \in Flushers : flush[f].pc \notin {"idle", "gate"} =>
              ~window /\ ~Torn /\ Home = envelope.id
BY DEF WindowInv, PlacesInv, WritersAtHome, Shut, Home, Torn

LEMMA SwPlacesFlush ==
  ASSUME SwTypes, WindowInv, PlacesInv, NEW f \in Flushers, Flush(f), UNCHANGED swvars
  PROVE  PlacesInv'
<1>1. /\ FlushMoves(f) /\ FlushTypes' /\ FlushFrame /\ sw' = sw /\ owner' = owner
      /\ \A g \in Flushers \ {f} : flush'[g] = flush[g] BY SwFlushStep DEF swvars
<1>2. SwFlags /\ UNCHANGED <<active, envelope, window, save, store, made, owner, sw>>
  BY <1>1, SwFlagsSame DEF FlushFrame
<1>3. \A g \in Flushers \ {f} : flush[g].pc = "idle" /\ flush'[g].pc = "idle"
  <2>1. f # "exit"
    BY DEF WindowInv, Flush, Gate, CloneEnvelope, Collect, Recheck, TakeArtifacts, WriteFile,
      RecordSave, FlushDone
  <2> QED BY <1>1, <2>1 DEF Flushers, WindowInv
<1>4. \A g \in Flushers : flush'[g].pc \in {"collect", "recheck", "artifacts", "write"} =>
         flush'[g].env.id = envelope.id /\ flush'[g].env.explicit = envelope.explicit
  BY <1>1, <1>3 DEF FlushMoves, PlacesInv, WritersAtHome
<1>5. CASE disk' = disk
  <2>1. WritersAtHome' BY <1>2, <1>4, <1>5 DEF PlacesInv, WritersAtHome, SwFlags
  <2>2. flush'[f].pc = "write" => /\ flush'[f].art = store /\ flush'[f].env.id = Home
                                  /\ Home = envelope.id /\ ~Torn
    BY <1>1, <1>4, <1>5, SwAtHome DEF FlushMoves
  <2>3. NoneForeign'
    <3>1. \A g \in Flushers : flush'[g].pc = "write" =>
            \A m \in flush'[g].art : m <= made /\ Of(m, flush'[g].env.id)
      BY <1>3, <2>2 DEF PlacesInv, NoneForeign
    <3> QED BY <1>2, <1>5, <3>1 DEF PlacesInv, NoneForeign, Of, SwFlags
  <2>4. InMemory' BY <1>2 DEF PlacesInv, InMemory, SwFlags
  <2>5. InFiles' BY <1>2, <1>5 DEF PlacesInv, InFiles, Owned, Filed, HasFile, Candidate, Files
  <2>6. WritersKeep'
    <3>1. ASSUME NEW m \in Artifacts, owner[m] = envelope.id, NEW g \in Flushers,
                 flush'[g].pc = "write"
          PROVE  m \in flush'[g].art BY <1>3, <2>2, <3>1 DEF PlacesInv, InMemory
    <3> QED BY <1>2, <3>1 DEF PlacesInv, WritersKeep
  <2> QED BY <2>1, <2>3, <2>4, <2>5, <2>6 DEF PlacesInv
<1>6. CASE disk' # disk
  <2> DEFINE env == flush[f].env
             c == [sess |-> flush[f].sess, art |-> flush[f].art]
  <2>1. /\ flush[f].pc = "write" /\ flush'[f].pc = "record"
        /\ disk' = [disk EXCEPT ![FlushDest(env)] = c] BY <1>1, <1>6 DEF FlushMoves
  <2>2. /\ env \in Envelopes /\ env.id = envelope.id /\ env.explicit = envelope.explicit
        /\ c \in Contents /\ c.art = flush[f].art
    <3>1. flush[f] \in FlushLocals /\ env \in Envelopes BY <2>1 DEF SwTypes, FlushTypes, Enveloped
    <3> QED BY <2>1, <3>1 DEF PlacesInv, WritersAtHome, FlushLocals, Contents
  <2>3. \A m \in c.art : m <= made /\ Of(m, env.id) BY <2>1, <2>2 DEF PlacesInv, NoneForeign
  <2>4. \A m \in Artifacts : owner[m] = env.id =>
            \A d \in Files(env.id) : m \in disk[d].art => m \in c.art
    BY <2>1, <2>2 DEF PlacesInv, WritersKeep
  <2> HIDE DEF env, c
  <2>5. /\ InFiles'
        /\ ~envelope'.explicit => disk'[<<envelope'.id, "explicit">>] = None
        /\ \A d \in Dests : disk'[d] # None =>
             \A m \in disk'[d].art : m <= made' /\ Of(m, d[1])'
    BY <1>2, <2>1, <2>2, <2>3, <2>4, SwReplaces
  <2>6. WritersAtHome' BY <1>2, <1>4, <2>5 DEF PlacesInv, WritersAtHome, SwFlags
  <2>7. \A g \in Flushers : flush'[g].pc # "write" BY <1>3, <2>1
  <2>8. NoneForeign' BY <1>2, <2>5, <2>7 DEF PlacesInv, NoneForeign, Of, SwFlags
  <2>9. InMemory' BY <1>2 DEF PlacesInv, InMemory, SwFlags
  <2>10. WritersKeep' BY <1>2, <2>7 DEF PlacesInv, WritersKeep
  <2> QED BY <2>5, <2>6, <2>8, <2>9, <2>10 DEF PlacesInv
<1> QED BY <1>5, <1>6

LEMMA SwPlacesMakes ==
  ASSUME SwTypes, WindowInv, PlacesInv, Makes
  PROVE  PlacesInv'
<1> DEFINE n == made + 1
           who == IF sw = None /\ save.pc = "idle" THEN active ELSE None
<1>1. /\ made' = n /\ store' = store \cup {n} /\ owner' = [owner EXCEPT ![n] = who]
      /\ UNCHANGED <<active, envelope, window, save, flush, disk, sw>> /\ made < MaxMut
  BY DEF Makes, Mutate, shell, files, list
<1>2. made \in Nat /\ MaxMut \in Nat /\ n \in Artifacts /\ n \in Nat /\ n > made
  BY <1>1, AutosaveAssumption DEF SwTypes, MemoryTypes, Artifacts
<1>3. owner'[n] = who /\ \A m \in Artifacts : m <= made => m # n /\ owner'[m] = owner[m]
  BY <1>1, <1>2 DEF SwTypes, StepTypes
<1>4. \A m \in Artifacts : m # n => owner'[m] = owner[m] BY <1>1, <1>2 DEF SwTypes, StepTypes
<1>5. SwFlags BY <1>1, SwFlagsSame
<1>6. who # None => sw = None /\ save.pc = "idle" /\ who = envelope.id /\ who = Home
  BY DEF PlacesInv, WritersAtHome, Named, Torn, Home
<1>7. None \notin Ids /\ envelope.id \in Ids /\ (sw # None => sw.to \in Ids)
  BY AutosaveAssumption DEF SwTypes, MemoryTypes, StepTypes, Transitions, Envelopes
<1>8. /\ store \subseteq Artifacts
      /\ \A d \in Dests : disk[d] # None => disk[d].art \subseteq Artifacts
      /\ \A f \in Flushers : flush[f].art \subseteq Artifacts
      /\ save.art \subseteq Artifacts
      /\ sw # None => sw.content.art \subseteq Artifacts
  BY DEF SwTypes, MemoryTypes, FileTypes, FlushTypes, FlushLocals, SaveTypes, SaveLocals, StepTypes,
    Transitions, Contents
<1>9. \A w, m : m \in Artifacts /\ m <= made => (Of(m, w)' <=> Of(m, w)) /\ m <= made'
  BY <1>1, <1>2, <1>3 DEF Of, Artifacts
<1> HIDE DEF n, who
<1>10. WritersAtHome' BY <1>1, <1>5 DEF PlacesInv, WritersAtHome, SwFlags
<1>11. NoneForeign'
  <2>1. \A m \in store' : m <= made' /\ Of(m, Home)'
    <3>1. n <= made' /\ owner'[n] \in {Home, None} BY <1>1, <1>2, <1>3, <1>6
    <3>3. \A m \in store : m <= made' /\ owner'[m] \in {Home, None}
      BY <1>8, <1>9, <1>3 DEF PlacesInv, NoneForeign, Of
    <3> QED BY <1>1, <1>5, <3>1, <3>3 DEF Of, SwFlags
  <2>2. \A d \in Dests : disk'[d] # None => \A m \in disk'[d].art : m <= made' /\ Of(m, d[1])'
    BY <1>1, <1>8, <1>9, <1>3 DEF PlacesInv, NoneForeign, Of
  <2>3. sw' # None => \A m \in sw'.content.art : m <= made' /\ Of(m, sw.to)'
    BY <1>1, <1>8, <1>9, <1>3 DEF PlacesInv, NoneForeign, Of
  <2>4. \A f \in Flushers : flush'[f].pc = "write" =>
          \A m \in flush'[f].art : m <= made' /\ Of(m, flush[f].env.id)'
    BY <1>1, <1>8, <1>9, <1>3 DEF PlacesInv, NoneForeign, Of
  <2>5. save'.pc = "write" => \A m \in save'.art : m <= made' /\ Of(m, save.env.id)'
    BY <1>1, <1>8, <1>9, <1>3 DEF PlacesInv, NoneForeign, Of
  <2>6. \A m \in Artifacts : m > made' => owner'[m] = None
    BY <1>1, <1>2, <1>4 DEF PlacesInv, NoneForeign, Artifacts, n
  <2> QED BY <1>1, <2>1, <2>2, <2>3, <2>4, <2>5, <2>6 DEF NoneForeign
<1>12. InMemory'
  <2>1. n \in store' /\ store \subseteq store' BY <1>1
  <2>2. sw # None => owner'[n] # sw.to BY <1>3, <1>6, <1>7
  <2> QED BY <1>1, <1>4, <1>5, <2>1, <2>2 DEF PlacesInv, InMemory, SwFlags, Restored, Loaded
<1>13. ASSUME NEW m \in Artifacts, m # n
       PROVE  /\ Owned(m)' <=> Owned(m)
              /\ Filed(m)' <=> Filed(m)
              /\ Files(owner[m])' = Files(owner[m])
  BY <1>1, <1>4, <1>13 DEF Owned, Filed, HasFile, Candidate, Files
<1>14. \A d \in Dests : disk[d] # None => n \notin disk[d].art BY <1>2 DEF PlacesInv, NoneForeign
<1>15. InFiles'
  <2>1. ASSUME NEW m \in Artifacts, Owned(m)'
        PROVE  /\ Filed(m)' \/ (sw' = None /\ owner'[m] = envelope'.id)
               /\ \A d \in Files(owner[m])' : m \in disk'[d].art => Filed(m)'
    <3>1. CASE m = n BY <1>1, <1>3, <1>6, <1>14, <2>1, <3>1 DEF Owned, Files
    <3>2. CASE m # n BY <1>1, <1>4, <1>13, <2>1, <3>2 DEF PlacesInv, InFiles
    <3> QED BY <3>1, <3>2
  <2> QED BY <2>1 DEF InFiles
<1>16. WritersKeep'
  <2>1. Files(envelope.id)' = Files(envelope.id) BY <1>1 DEF Files
  <2>2. owner'[n] = envelope.id => save.pc = "idle" BY <1>3, <1>6, <1>7
  <2>3. \A d \in Files(envelope.id) : n \notin disk[d].art BY <1>14 DEF Files
  <2> QED BY <1>1, <1>4, <2>1, <2>2, <2>3 DEF PlacesInv, WritersKeep
<1> QED BY <1>10, <1>11, <1>12, <1>15, <1>16 DEF PlacesInv

\* A save of the active workspace begins.
LEMMA SwPlacesSave ==
  ASSUME SwTypes, WindowInv, PlacesInv, NoFlush, sw = None, NEW explicit \in BOOLEAN,
         IsExplicit(active) => explicit, Save(active, explicit), owner' = owner,
         \/ sw' = sw
         \/ /\ sw' # None /\ sw'.pc = "saving" /\ sw'.op # "agent" /\ sw'.content = Nothing
            /\ \A m \in Artifacts : Owned(m) => Filed(m)
            /\ sw'.op = "new" => \A m \in Artifacts : owner[m] # sw'.to
  PROVE  PlacesInv'
<1>1. active \in Ids /\ active = envelope.id
  BY DEF SwTypes, MemoryTypes, PlacesInv, WritersAtHome, Named, Torn
<1>2. /\ save'.pc = "collect" /\ save'.env = envelope'
      /\ envelope'.id = envelope.id /\ envelope'.explicit = explicit /\ window' = FALSE
      /\ UNCHANGED <<store, made, flush, disk, active>> BY <1>1, SwSave
<1>3. ~Torn /\ ~Torn' /\ ~Named' /\ ~Shut' /\ ~Loaded' /\ ~Restored'
      /\ Home = envelope.id /\ Home' = envelope.id
  BY <1>2 DEF Torn, Named, Shut, Loaded, Restored, Home
<1>4. \A f \in Flushers : flush'[f].pc = "idle" BY <1>2 DEF NoFlush
<1>5. <<envelope.id, "explicit">> \in Dests BY <1>1 DEF Dests
<1>6. WritersAtHome' BY <1>1, <1>2, <1>3, <1>4, <1>5 DEF WritersAtHome, IsExplicit
<1>7. NoneForeign' BY <1>2, <1>3, <1>4, SwNothing DEF PlacesInv, NoneForeign, Of
<1>8. InMemory' BY <1>2, <1>3 DEF PlacesInv, InMemory
<1>9. InFiles'
  <2>1. \A m \in Artifacts : /\ Owned(m)' <=> Owned(m)
                             /\ Filed(m)' <=> Filed(m)
                             /\ Files(owner[m])' = Files(owner[m])
    BY <1>2 DEF Owned, Filed, HasFile, Candidate, Files
  <2> QED BY <1>2, <2>1 DEF PlacesInv, InFiles
<1>10. WritersKeep' BY <1>2, <1>4 DEF WritersKeep
<1> QED BY <1>6, <1>7, <1>8, <1>9, <1>10 DEF PlacesInv

LEMMA SwPlacesCollect ==
  ASSUME SwTypes, WindowInv, PlacesInv, SaveCollect, UNCHANGED swvars
  PROVE  PlacesInv'
<1>1. /\ save.pc = "collect" /\ save'.pc = "write" /\ save'.env = save.env /\ save'.art = store
      /\ UNCHANGED <<active, envelope, window, flush, disk, store, made, owner, sw>>
  BY SwSaveCollect DEF SaveCollect, swvars, shell, files, list
<1>2. SwFlags /\ ~Torn /\ Home = envelope.id /\ save.env.id = envelope.id
  BY <1>1, SwFlagsSame, SwAtHome DEF PlacesInv, WritersAtHome
<1>3. WritersAtHome' BY <1>1, <1>2 DEF PlacesInv, WritersAtHome, SwFlags
<1>4. NoneForeign' BY <1>1, <1>2 DEF PlacesInv, NoneForeign, Of, SwFlags
<1>5. InMemory' BY <1>1, <1>2 DEF PlacesInv, InMemory, SwFlags
<1>6. InFiles' BY <1>1 DEF PlacesInv, InFiles, Owned, Filed, HasFile, Candidate, Files
<1>7. WritersKeep' BY <1>1, <1>2 DEF PlacesInv, WritersKeep, InMemory, Files
<1> QED BY <1>3, <1>4, <1>5, <1>6, <1>7 DEF PlacesInv

LEMMA SwPlacesWrite ==
  ASSUME SwTypes, WindowInv, PlacesInv, SaveWrite, UNCHANGED swvars
  PROVE  PlacesInv'
<1> DEFINE c == [sess |-> save.sess, art |-> save.art]
           env == save.env
<1>1. /\ save.pc = "write" /\ save'.pc = "idle" /\ env \in Envelopes /\ c \in Contents
      /\ disk' = [disk EXCEPT ![FlushDest(env)] = c] /\ c.art = save.art
      /\ UNCHANGED <<active, envelope, window, flush, store, made, owner, sw>>
  BY SwSaveWrite DEF SaveWrite, swvars, shell, list
<1>2. SwFlags /\ ~Torn /\ env.id = envelope.id /\ env.explicit = envelope.explicit
  BY <1>1, SwFlagsSame, SwAtHome DEF PlacesInv, WritersAtHome
<1>3. \A m \in c.art : m <= made /\ Of(m, env.id) BY <1>1 DEF PlacesInv, NoneForeign
<1>4. \A m \in Artifacts : owner[m] = env.id => m \in c.art BY <1>1, <1>2 DEF PlacesInv, WritersKeep
<1> HIDE DEF c, env
<1>5. /\ InFiles'
      /\ ~envelope'.explicit => disk'[<<envelope'.id, "explicit">>] = None
      /\ \A d \in Dests : disk'[d] # None =>
           \A m \in disk'[d].art : m <= made' /\ Of(m, d[1])'
      /\ disk'[FlushDest(env)] = c
      /\ \A d \in Dests : d # FlushDest(env) => disk'[d] = disk[d]
  BY <1>1, <1>2, <1>3, <1>4, SwReplaces
<1>6. WritersAtHome' BY <1>1, <1>2, <1>5 DEF PlacesInv, WritersAtHome, SwFlags
<1>7. NoneForeign' BY <1>1, <1>2, <1>5 DEF PlacesInv, NoneForeign, Of, SwFlags
<1>8. InMemory' BY <1>1, <1>2 DEF PlacesInv, InMemory, SwFlags
<1>9. WritersKeep'
  <2>1. ASSUME NEW m \in Artifacts, owner[m] = envelope.id, NEW f \in Flushers,
               flush[f].pc = "write"
        PROVE  m \in flush[f].art BY <1>1, <2>1 DEF PlacesInv, WritersKeep
  <2> QED BY <1>1, <2>1 DEF WritersKeep
<1> QED BY <1>5, <1>6, <1>7, <1>8, <1>9 DEF PlacesInv

\* A transition's step that touches neither files nor writers: what is left
\* to show is what the step makes of the memory.
LEMMA SwPlacesMoves ==
  ASSUME SwTypes, WindowInv, PlacesInv, sw' # None, sw'.op # "agent", sw'.pc # "end",
         UNCHANGED <<envelope, save, flush, disk, made, owner>>,
         Shut' => window', active' = IF Named' THEN sw'.to ELSE envelope.id,
         \A m \in store' : m <= made /\ Of(m, Home'),
         \A m \in sw'.content.art : m <= made /\ Of(m, sw'.to),
         \A m \in Artifacts :
           /\ Owned(m) => Filed(m)
           /\ owner[m] = envelope.id => Torn' \/ m \in store'
           /\ Restored' /\ owner[m] = sw'.to => m \in store'
           /\ Loaded' /\ owner[m] = sw'.to => m \in sw'.content.art
           /\ sw'.op = "new" => owner[m] # sw'.to
  PROVE  PlacesInv'
<1>1. WritersAtHome' BY DEF PlacesInv, WritersAtHome
<1>2. NoneForeign' BY DEF PlacesInv, NoneForeign, Of
<1>3. InMemory' BY DEF InMemory
<1>4. InFiles'
  <2>1. \A m \in Artifacts : /\ Owned(m)' <=> Owned(m)
                             /\ Filed(m)' <=> Filed(m) BY DEF Owned, Filed, HasFile, Candidate
  <2> QED BY <2>1 DEF InFiles
<1>5. WritersKeep' BY DEF PlacesInv, WritersKeep, Files
<1> QED BY <1>1, <1>2, <1>3, <1>4, <1>5 DEF PlacesInv

\* What the invariant says of a transition in flight.
LEMMA SwInFlight ==
  ASSUME SwTypes, PlacesInv, sw # None
  PROVE  /\ sw.op # "agent" /\ sw.pc # "end" /\ (Shut => window)
         /\ active = IF Named THEN sw.to ELSE envelope.id
         /\ \A m \in store : m <= made /\ Of(m, Home)
         /\ \A m \in sw.content.art : m <= made /\ Of(m, sw.to)
         /\ \A m \in Artifacts :
              /\ Owned(m) => Filed(m)
              /\ owner[m] = envelope.id => Torn \/ m \in store
              /\ Restored /\ owner[m] = sw.to => m \in store
              /\ Loaded /\ owner[m] = sw.to => m \in sw.content.art
              /\ sw.op = "new" => owner[m] # sw.to
BY DEF PlacesInv, WritersAtHome, NoneForeign, InMemory, InFiles

LEMMA SwPlacesTransition ==
  ASSUME Settled, SwTypes, WindowInv, PlacesInv, Transition, ~agentLoads', count'.fail = 0
  PROVE  PlacesInv'
<1>. USE DEF clock, shell, files, list
<1>1. ASSUME NEW op \in {"switch", "open", "new"}, NEW w \in Ids, StartClean(op, w)
      PROVE  PlacesInv'
  <2>1. /\ UNCHANGED vars /\ owner' = owner /\ sw = None /\ Quiet /\ AfterSave(op) \in SwPcs
        /\ sw' = [pc |-> AfterSave(op), op |-> op, to |-> w, content |-> Nothing]
        /\ op = "new" => ~HasFile(w)
        /\ switches < MaxSwitch /\ switches' = switches + 1 BY <1>1, SwAfterSave DEF StartClean
  <2>2. /\ sw' # None /\ sw'.pc = AfterSave(op) /\ sw'.op = op /\ sw'.to = w
        /\ sw'.content = Nothing BY <2>1, SwBegins, SwNothing
  <2>3. \A m \in Artifacts : Owned(m) => Filed(m) BY <2>1, SwAllFiled
  <2>4. ~Torn /\ ~Torn' /\ ~Named' /\ ~Shut' /\ ~Loaded' /\ ~Restored' /\ ~Named
        /\ Home' = envelope.id /\ Home = envelope.id
    BY <2>1, <2>2 DEF Torn, Named, Shut, Loaded, Restored, Home, AfterSave, vars
  <2>5. \A m \in Artifacts : op = "new" => owner[m] # w
    BY <2>1, <2>3, AutosaveAssumption DEF Filed, Owned
  <2>6. /\ active = envelope.id
        /\ \A m \in store : m <= made /\ Of(m, Home)
        /\ \A m \in Artifacts : owner[m] = envelope.id => m \in store
    BY <2>4 DEF PlacesInv, WritersAtHome, NoneForeign, InMemory
  <2>7. AfterSave(op) # "end" /\ op # "agent" BY DEF AfterSave
  <2> QED BY <2>1, <2>2, <2>3, <2>4, <2>5, <2>6, <2>7, SwNothing, SwPlacesMoves DEF vars
<1>2. ASSUME NEW op \in {"switch", "open", "new"}, NEW w \in Ids, StartDirty(op, w)
      PROVE  PlacesInv'
  <2>1. /\ owner' = owner /\ sw = None /\ Quiet /\ Save(active, IsExplicit(active))
        /\ sw' = [pc |-> "saving", op |-> op, to |-> w, content |-> Nothing]
        /\ op = "new" => ~HasFile(w)
        /\ switches < MaxSwitch /\ switches' = switches + 1 BY <1>2 DEF StartDirty
  <2>2. /\ sw' # None /\ sw'.pc = "saving" /\ sw'.op = op /\ sw'.to = w
        /\ sw'.content = Nothing BY <2>1, SwBegins, SwNothing DEF SwPcs
  <2>3. \A m \in Artifacts : Owned(m) => Filed(m) BY <2>1, SwAllFiled
  <2>4. \A m \in Artifacts : op = "new" => owner[m] # w
    BY <2>1, <2>3, AutosaveAssumption DEF Filed, Owned
  <2>5. NoFlush /\ IsExplicit(active) \in BOOLEAN /\ op # "agent" BY <2>1 DEF Quiet, IsExplicit
  <2> QED BY <2>1, <2>2, <2>3, <2>4, <2>5, SwPlacesSave
<1>3. CASE SaveReturns
  <2>1. sw # None /\ sw.pc = "saving" /\ Go(AfterSave(sw.op)) /\ UNCHANGED vars
    BY <1>3 DEF SaveReturns
  <2>2. /\ sw'.pc = AfterSave(sw.op) /\ sw'.op = sw.op /\ sw'.to = sw.to
        /\ sw'.content = sw.content /\ sw' # None /\ owner' = owner BY <2>1, SwGoes, SwAfterSave
  <2>3. ~Torn /\ ~Torn' /\ ~Named /\ ~Named' /\ ~Shut' /\ ~Loaded' /\ ~Restored'
        /\ Home' = Home BY <2>1, <2>2 DEF Torn, Named, Shut, Loaded, Restored, Home, AfterSave, vars
  <2>4. AfterSave(sw.op) # "end" BY DEF AfterSave
  <2> QED BY <2>1, <2>2, <2>3, <2>4, SwInFlight, SwPlacesMoves DEF vars
<1>4. CASE Begins
  <2>1. sw # None /\ sw.pc = "begin" /\ Go("close") /\ window' = TRUE
        /\ UNCHANGED <<store, made, envelope, flush, save, disk, active>> BY <1>4 DEF Begins
  <2>2. /\ sw'.pc = "close" /\ sw'.op = sw.op /\ sw'.to = sw.to
        /\ sw'.content = sw.content /\ sw' # None /\ owner' = owner BY <2>1, SwGoes DEF SwPcs
  <2>3. ~Torn /\ ~Torn' /\ ~Named /\ ~Named' /\ (Loaded' => Loaded) /\ ~Restored'
        /\ Home' = Home BY <2>1, <2>2 DEF Torn, Named, Loaded, Restored, Home
  <2> QED BY <2>1, <2>2, <2>3, SwInFlight, SwPlacesMoves
<1>5. ASSUME NEW s \in Sess, Closes(s) \/ Opens(s) PROVE PlacesInv'
  BY <1>5, SwPlacesSame DEF Closes, Opens, swvars
<1>6. CASE EmptiesAnalyses
  <2>1. sw # None /\ sw.pc = "close" /\ Go("activate") /\ store' = {}
        /\ UNCHANGED <<made, envelope, window, flush, save, disk, active>>
    BY <1>6 DEF EmptiesAnalyses
  <2>2. /\ sw'.pc = "activate" /\ sw'.op = sw.op /\ sw'.to = sw.to
        /\ sw'.content = sw.content /\ sw' # None /\ owner' = owner BY <2>1, SwGoes DEF SwPcs
  <2>3. Torn' /\ ~Named /\ ~Named' /\ (Loaded' => Loaded) /\ ~Restored' /\ Shut
    BY <2>1, <2>2 DEF Torn, Named, Loaded, Restored, Shut
  <2> QED BY <2>1, <2>2, <2>3, SwInFlight, SwPlacesMoves
<1>7. CASE Activates
  <2> DEFINE pc == IF sw.op = "open" THEN "analyses"
                   ELSE IF sw.op = "switch" /\ HasFile(sw.to) THEN "load" ELSE "push"
  <2>1. sw # None /\ sw.pc = "activate" /\ Go(pc) /\ active' = sw.to
        /\ UNCHANGED <<store, made, envelope, window, flush, save, disk>> BY <1>7 DEF Activates
  <2>2. /\ sw'.pc = pc /\ sw'.op = sw.op /\ sw'.to = sw.to
        /\ sw'.content = sw.content /\ sw' # None /\ owner' = owner
        /\ sw.op \in {"switch", "open", "new", "agent"} /\ sw.to \in Ids
    BY <2>1, SwGoes DEF SwPcs, Transitions
  <2>3. Torn /\ Torn' /\ Named' /\ (Loaded' => Loaded) /\ Shut /\ Home' = Home
    BY <2>1, <2>2 DEF Torn, Named, Loaded, Shut, Home
  <2>4. Restored' => /\ sw.op = "switch" /\ ~HasFile(sw.to)
                     \/ sw.op = "new" BY <2>2, <2>1, SwInFlight DEF Restored
  <2>5. \A m \in Artifacts : Restored' => owner[m] # sw.to
    BY <2>1, <2>2, <2>4, SwInFlight, AutosaveAssumption DEF Owned, Filed
  <2> QED BY <2>1, <2>2, <2>3, <2>5, SwInFlight, SwPlacesMoves
<1>8. CASE Loads
  <2>1. /\ sw # None /\ sw.pc = "load" /\ UNCHANGED vars /\ owner' = owner
        /\ sw' = [sw EXCEPT !.pc = IF sw.op = "open" THEN "begin" ELSE "analyses",
                            !.content = disk[Candidate(sw.to)]] BY <1>8 DEF Loads
  <2>2. sw \in Transitions /\ sw.to \in Ids /\ HasFile(sw.to)
    BY <2>1 DEF SwTypes, StepTypes, Transitions
  <2>3. Candidate(sw.to) \in Dests /\ Candidate(sw.to)[1] = sw.to
        /\ disk[Candidate(sw.to)] \in Contents BY <2>2, SwFileRead
  <2>4. /\ sw' \in Transitions /\ sw'.op = sw.op /\ sw'.to = sw.to
        /\ sw'.content = disk[Candidate(sw.to)]
        /\ sw'.pc = IF sw.op = "open" THEN "begin" ELSE "analyses"
    BY <2>1, <2>2, <2>3 DEF Transitions, SwPcs
  <2>5. sw' # None BY <2>4, SwitchAssumption
  <2>6. /\ Torn' = Torn /\ Named' = Named /\ ~Restored' /\ Home' = Home /\ (Shut' => Shut)
    BY <2>1, <2>4, <2>5 DEF Torn, Named, Restored, Home, Shut, vars
  <2>7. \A m \in sw'.content.art : m <= made /\ Of(m, sw'.to)
    BY <2>3, <2>4, NoneAssumption DEF PlacesInv, NoneForeign
  <2>8. \A m \in Artifacts : owner[m] = sw'.to => m \in sw'.content.art
    BY <2>1, <2>2, <2>4, SwInFlight, AutosaveAssumption DEF Owned, Filed
  <2> QED BY <2>1, <2>4, <2>5, <2>6, <2>7, <2>8, SwInFlight, SwPlacesMoves DEF vars
<1>9. CASE LoadFails BY <1>9, SwCounted DEF LoadFails, SwTypes, MemoryTypes
<1>10. CASE RestoresAnalyses
  <2> DEFINE pc == IF sw.op = "agent" THEN "end" ELSE "open"
  <2>1. sw # None /\ sw.pc = "analyses" /\ Go(pc) /\ store' = sw.content.art
        /\ UNCHANGED <<made, envelope, window, flush, save, disk, active>>
    BY <1>10 DEF RestoresAnalyses
  <2>2. /\ sw'.pc = "open" /\ sw'.op = sw.op /\ sw'.to = sw.to
        /\ sw'.content = sw.content /\ sw' # None /\ owner' = owner
    BY <2>1, SwGoes, SwInFlight DEF SwPcs
  <2>3. Torn' /\ Named /\ Named' /\ Loaded /\ ~Loaded' /\ Shut /\ Home' = sw.to
    BY <2>1, <2>2 DEF Torn, Named, Loaded, Shut, Home
  <2> QED BY <2>1, <2>2, <2>3, SwInFlight, SwPlacesMoves
<1>11. CASE AllOpen
  <2> DEFINE pc == IF sw.op = "agent" THEN "analyses" ELSE "push"
  <2>1. sw # None /\ sw.pc = "open" /\ Go(pc) /\ UNCHANGED vars BY <1>11 DEF AllOpen
  <2>2. /\ sw'.pc = "push" /\ sw'.op = sw.op /\ sw'.to = sw.to
        /\ sw'.content = sw.content /\ sw' # None /\ owner' = owner
    BY <2>1, SwGoes, SwInFlight DEF SwPcs
  <2>3. Torn' /\ Named /\ Named' /\ Restored /\ ~Loaded' /\ Shut /\ Home' = Home
    BY <2>1, <2>2 DEF Torn, Named, Loaded, Restored, Shut, Home, vars
  <2> QED BY <2>1, <2>2, <2>3, SwInFlight, SwPlacesMoves DEF vars
<1>12. CASE PushesEnvelope
  <2>1. /\ sw # None /\ sw.pc = "push" /\ sw' = None /\ owner' = owner
        /\ envelope' = Stamped(sw.to, IsExplicit(sw.to))
        /\ UNCHANGED <<store, made, flush, save, disk, active>> BY <1>12 DEF PushesEnvelope
  <2>2. /\ sw.to \in Ids /\ IsExplicit(sw.to) \in BOOLEAN /\ live \in SUBSET Sess
        /\ <<sw.to, "explicit">> \in Dests
    BY <2>1 DEF SwTypes, StepTypes, Transitions, IsExplicit, MemoryTypes, Dests
  <2>3. envelope'.id = sw.to /\ envelope'.explicit = IsExplicit(sw.to) BY <2>1, <2>2, SwStamped
  <2>4. Named /\ Restored /\ window /\ Home = sw.to /\ active = sw.to
        /\ ~Torn' /\ ~Named' /\ ~Loaded' /\ ~Restored' /\ ~Shut' /\ Home' = sw.to
    BY <2>1, <2>3, SwInFlight DEF Named, Restored, Torn, Loaded, Shut, Home
  <2>5. save.pc = "idle" /\ \A f \in Flushers : flush[f].pc \in {"idle", "gate"}
    BY <2>1, <2>4, SwInFlight DEF WindowInv
  <2>6. WritersAtHome' BY <2>1, <2>2, <2>3, <2>4, <2>5 DEF WritersAtHome, IsExplicit
  <2>7. NoneForeign' BY <2>1, <2>4, <2>5 DEF PlacesInv, NoneForeign, Of
  <2>8. InMemory' BY <2>1, <2>3, <2>4, SwInFlight DEF InMemory
  <2>9. InFiles'
    <3>1. \A m \in Artifacts : /\ Owned(m)' <=> Owned(m)
                               /\ Filed(m)' <=> Filed(m)
      BY <2>1 DEF Owned, Filed, HasFile, Candidate
    <3> QED BY <2>1, <3>1, SwInFlight DEF InFiles
  <2>10. WritersKeep' BY <2>1, <2>5 DEF WritersKeep
  <2> QED BY <2>6, <2>7, <2>8, <2>9, <2>10 DEF PlacesInv
<1>13. ASSUME NEW w \in Ids, AgentStarts(w) PROVE PlacesInv' BY <1>13 DEF AgentStarts
<1>14. CASE AgentReturns BY <1>14, SwInFlight DEF AgentReturns
<1> QED BY <1>1, <1>2, <1>3, <1>4, <1>5, <1>6, <1>7, <1>8, <1>9, <1>10, <1>11, <1>12, <1>13, <1>14
     DEF Transition

\* An agent that has opened a workspace, and a file that could not be read,
\* stay in the history.
LEMMA SwStillUsual ==
  ASSUME SwTypes, [SwNext]_allvars, Usual'
  PROVE  Usual
<1>. USE DEF clock, shell, files, list
<1>1. count \in CountRecs BY DEF SwTypes, MemoryTypes
<1>2. ~agentLoads
  BY DEF Usual, SwNext, Transition, StartClean, StartDirty, Save, SaveReturns, Begins,
    EmptiesAnalyses, Activates, Loads, LoadFails, RestoresAnalyses, AllOpen, PushesEnvelope,
    AgentReturns, Closes, Opens, AgentStarts, Makes, Saves, Lapses, Go, swvars, allvars
<1>3. CASE count' = count BY <1>2, <1>3 DEF Usual
<1>4. ASSUME NEW w, NEW explicit, Save(w, explicit) PROVE Usual
  BY <1>1, <1>2, <1>4, SwCounted DEF Save, Usual
<1>5. CASE LoadFails BY <1>1, <1>5, SwCounted DEF LoadFails, Usual
<1>6. CASE Transition BY <1>3, <1>4, <1>5, <1>6 DEF Transition, StartClean, StartDirty, SaveReturns,
     Begins, EmptiesAnalyses, Activates, Loads, RestoresAnalyses, AllOpen, PushesEnvelope,
     AgentReturns, Closes, Opens, AgentStarts, vars
<1>7. CASE Makes \/ Saves \/ Lapses \/ ScheduleAutosave \/ SaveCollect \/ SaveWrite \/ Debounced
  BY <1>3, <1>4, <1>7 DEF Makes, Mutate, Saves, Lapses, WindowLapses, ScheduleAutosave, SaveCollect,
    SaveWrite, Debounced
<1>8. ASSUME NEW f \in Flushers, Flush(f) PROVE Usual
  BY <1>3, <1>8 DEF Flush, Gate, CloneEnvelope, Collect, Recheck, TakeArtifacts, WriteFile,
    RecordSave, FlushDone, Local
<1>9. CASE UNCHANGED allvars BY <1>3, <1>9 DEF allvars, vars
<1> QED BY <1>6, <1>7, <1>8, <1>9 DEF SwNext

LEMMA SwPlacesStep ==
  ASSUME Settled, ~SlowSwitch, SwTypes, WindowInv, PlacesInv, [SwNext]_allvars, Usual'
  PROVE  PlacesInv'
<1>. USE DEF clock, shell, files, list
<1>1. CASE Transition BY <1>1, SwPlacesTransition DEF Usual
<1>2. CASE Makes BY <1>2, SwPlacesMakes
<1>3. CASE Saves
  <2>1. PICK explicit \in BOOLEAN : (IsExplicit(active) => explicit) /\ Save(active, explicit)
    BY <1>3 DEF Saves
  <2>2. sw = None /\ NoFlush /\ sw' = sw /\ owner' = owner BY <1>3 DEF Saves, swvars
  <2> QED BY <2>1, <2>2, SwPlacesSave
<1>4. CASE Lapses
  <2>1. sw = None /\ window' = FALSE
        /\ UNCHANGED <<active, envelope, save, flush, disk, store, made, owner, sw>>
    BY <1>4 DEF Lapses, WindowLapses, swvars
  <2>2. WritersAtHome' BY <2>1 DEF PlacesInv, WritersAtHome, Shut, Torn, Named
  <2>3. NoneForeign' /\ InMemory' /\ InFiles' /\ WritersKeep'
    <3>1. SwFlags BY <2>1, SwFlagsSame
    <3>2. NoneForeign' BY <2>1, <3>1 DEF PlacesInv, NoneForeign, Of, SwFlags
    <3>3. InMemory' BY <2>1, <3>1 DEF PlacesInv, InMemory, SwFlags
    <3>4. InFiles' /\ WritersKeep'
      BY <2>1 DEF PlacesInv, InFiles, WritersKeep, Owned, Filed, HasFile, Candidate, Files
    <3> QED BY <3>2, <3>3, <3>4
  <2> QED BY <2>2, <2>3 DEF PlacesInv
<1>5. CASE ScheduleAutosave /\ UNCHANGED swvars BY <1>5, SwPlacesSame DEF ScheduleAutosave, swvars
<1>6. CASE SaveCollect /\ UNCHANGED swvars BY <1>6, SwPlacesCollect
<1>7. CASE SaveWrite /\ UNCHANGED swvars BY <1>7, SwPlacesWrite
<1>8. CASE Debounced /\ UNCHANGED swvars
  <2>1. UNCHANGED <<active, envelope, window, save, disk, store, made, owner, sw>>
    BY <1>8 DEF Debounced, swvars
  <2>2. \A f \in Flushers : flush'[f] = flush[f] \/ flush'[f].pc = "gate"
    BY <1>8 DEF Debounced, Starting, SwTypes, FlushTypes
  <2>3. SwFlags BY <2>1, SwFlagsSame
  <2>4. WritersAtHome' BY <2>1, <2>2, <2>3 DEF PlacesInv, WritersAtHome, SwFlags
  <2>5. NoneForeign' BY <2>1, <2>2, <2>3 DEF PlacesInv, NoneForeign, Of, SwFlags
  <2>6. InMemory' BY <2>1, <2>3 DEF PlacesInv, InMemory, SwFlags
  <2>7. InFiles' BY <2>1 DEF PlacesInv, InFiles, Owned, Filed, HasFile, Candidate, Files
  <2>8. WritersKeep' BY <2>1, <2>2 DEF PlacesInv, WritersKeep, Files
  <2> QED BY <2>4, <2>5, <2>6, <2>7, <2>8 DEF PlacesInv
<1>9. ASSUME NEW f \in Flushers, Flush(f), UNCHANGED swvars PROVE PlacesInv' BY <1>9, SwPlacesFlush
<1>10. CASE UNCHANGED allvars BY <1>10, SwPlacesSame DEF allvars, vars, swvars
<1> QED BY <1>1, <1>2, <1>3, <1>4, <1>5, <1>6, <1>7, <1>8, <1>9, <1>10 DEF SwNext

----------------------------------------
\* What follows.

LEMMA SwPlaced ==
  ASSUME SwTypes, Usual => PlacesInv
  PROVE  ArtifactsPlaced
<1>1. SUFFICES ASSUME Usual, PlacesInv PROVE NoForeignArtifact /\ NothingLost
  BY DEF ArtifactsPlaced, NoForeignArtifact, NothingLost, Usual
<1>2. NoForeignArtifact BY <1>1 DEF PlacesInv, NoneForeign, NoForeignArtifact, Of
<1>3. ASSUME NEW m \in 1 .. gen, Owned(m) PROVE m \in store \cup OnDisk
  <2>1. m \in Artifacts /\ owner[m] \in Ids
    BY <1>3, AutosaveAssumption DEF SwTypes, MemoryTypes, StepTypes, Artifacts, Owned
  <2>2. CASE Filed(m)
    <3>1. Candidate(owner[m]) \in Dests /\ disk[Candidate(owner[m])] # None
      BY <2>1, <2>2, SwFileRead, NoneAssumption DEF Filed
    <3> QED BY <2>2, <3>1 DEF OnDisk, Filed
  <2>3. CASE ~Filed(m) BY <1>1, <1>3, <2>1, <2>3 DEF PlacesInv, InFiles, InMemory, Torn
  <2> QED BY <2>2, <2>3
<1> QED BY <1>2, <1>3 DEF NothingLost

\* A file that is written keeps what its workspace made.
FileGrows(d) ==
  disk[d] # None /\ ~agentLoads /\ count.fail = 0 =>
    \A m \in disk[d].art : Owned(m) => m \in disk'[d].art

LEMMA SwGrows ==
  ASSUME SwTypes, WindowInv, Usual => PlacesInv, [SwNext]_allvars, NEW d \in Dests
  PROVE  FileGrows(d)
<1>1. SUFFICES ASSUME Usual, PlacesInv, disk[d] # None, disk' # disk,
                      NEW m \in disk[d].art, Owned(m)
               PROVE  m \in disk'[d].art BY DEF FileGrows, Usual
<1>2. m \in Artifacts /\ owner[m] = d[1]
  BY <1>1 DEF SwTypes, FileTypes, Contents, PlacesInv, NoneForeign, Of, Owned
<1>3. CASE SaveWrite
  <2>1. /\ save.pc = "write" /\ save.env \in Envelopes
        /\ [sess |-> save.sess, art |-> save.art] \in Contents
        /\ disk' = [disk EXCEPT ![FlushDest(save.env)] = [sess |-> save.sess, art |-> save.art]]
    BY <1>3, SwSaveWrite
  <2>2. disk'[FlushDest(save.env)] = [sess |-> save.sess, art |-> save.art]
        /\ (d # FlushDest(save.env) => disk'[d] = disk[d]) BY <2>1, SwFilesStay
  <2>3. CASE d = FlushDest(save.env)
    <3>1. d[1] = envelope.id BY <1>1, <2>1, <2>3 DEF FlushDest, PlacesInv, WritersAtHome
    <3> QED BY <1>1, <1>2, <2>1, <2>2, <2>3, <3>1 DEF PlacesInv, WritersKeep
  <2> QED BY <2>2, <2>3
<1>4. ASSUME NEW f \in Flushers, WriteFile(f) PROVE m \in disk'[d].art
  <2> DEFINE env == flush[f].env
             c == [sess |-> flush[f].sess, art |-> flush[f].art]
  <2>1. flush[f].pc = "write" /\ disk' = [disk EXCEPT ![FlushDest(env)] = c] BY <1>4 DEF WriteFile
  <2>2. flush[f] \in FlushLocals /\ env \in Envelopes BY <2>1 DEF SwTypes, FlushTypes, Enveloped
  <2>3. c \in Contents BY <2>2 DEF FlushLocals, Contents
  <2>4. disk'[FlushDest(env)] = c /\ (d # FlushDest(env) => disk'[d] = disk[d])
    <3> HIDE DEF env, c
    <3> QED BY <2>1, <2>2, <2>3, SwFilesStay
  <2>5. CASE d = FlushDest(env)
    <3>1. d[1] = envelope.id BY <1>1, <2>1, <2>5 DEF FlushDest, PlacesInv, WritersAtHome
    <3>2. d \in Files(envelope.id) BY <1>1, <3>1 DEF Files
    <3> QED BY <1>1, <1>2, <2>1, <2>4, <2>5, <3>1, <3>2 DEF PlacesInv, WritersKeep
  <2> QED BY <2>4, <2>5
<1> QED BY <1>1, <1>3, <1>4, SwWrites

\* Nobody deletes or renames a workspace meanwhile.
SwNoEdits == edits = [c \in Editors |-> None] /\ undone = {}

LEMMA SwEditsStay == SwNoEdits /\ [SwNext]_allvars => SwNoEdits'
<1> SUFFICES ASSUME [SwNext]_allvars PROVE UNCHANGED <<edits, undone>> BY DEF SwNoEdits
<1>1. CASE Transition
  BY <1>1 DEF Transition, StartClean, StartDirty, Save, SaveReturns, Begins, EmptiesAnalyses,
    Activates, Loads, LoadFails, RestoresAnalyses, AllOpen, PushesEnvelope, AgentReturns, Closes,
    Opens, AgentStarts, vars
<1>2. CASE Makes \/ Saves \/ Lapses BY <1>2 DEF Makes, Mutate, Saves, Save, Lapses, WindowLapses
<1>3. CASE ScheduleAutosave \/ SaveCollect \/ SaveWrite \/ Debounced
  BY <1>3 DEF ScheduleAutosave, SaveCollect, SaveWrite, Debounced
<1>4. CASE \E f \in Flushers : Flush(f)
  BY <1>4 DEF Flush, Gate, CloneEnvelope, Collect, Recheck, TakeArtifacts, WriteFile, RecordSave,
    FlushDone, Local
<1>5. CASE UNCHANGED allvars BY <1>5 DEF allvars, vars
<1> QED BY <1>1, <1>2, <1>3, <1>4, <1>5 DEF SwNext

\* The desktop's transitions keep their types: workspaceStore.ts over
\* services/workspace.rs, for any workspaces, sessions and bounds, settled
\* or not.
THEOREM SwitchTypeCorrect == SwSpec => []SwTypeOK
<1>1. SwInit => SwTypes BY SwTypesInit
<1>2. SwTypes /\ [SwNext]_allvars => SwTypes' BY SwTypesStep
<1>4. SwInit => SwNoEdits BY DEF SwInit, Init, SwNoEdits
<1>3. SwTypes /\ SwNoEdits => SwTypeOK
  <2> SUFFICES ASSUME SwTypes, SwNoEdits PROVE SwTypeOK OBVIOUS
  <2>1. /\ live \subseteq Sess /\ store \subseteq Artifacts /\ reached \subseteq Artifacts
        /\ signal \in BOOLEAN /\ window \in BOOLEAN /\ envelope \in Envelopes \cup {None}
        /\ disk \in [Dests -> Contents \cup {None}]
        /\ entries \in EntryLists /\ active \in Ids \cup {None}
        /\ phase \in {"running", "exiting", "gone"} BY DEF SwTypes, MemoryTypes, FileTypes
  <2>2. made \in 0 .. MaxMut /\ gen \in 0 .. made /\ flushed \in 0 .. gen
    BY AutosaveAssumption DEF SwTypes, MemoryTypes
  <2>3. DOMAIN flush = Flushers BY DEF SwTypes, FlushTypes
  <2>4. ASSUME NEW f \in Flushers
        PROVE  /\ flush[f].pc \in FlushPcs /\ flush[f].seen \in 0 .. gen
               /\ flush[f].env \in Envelopes \cup {None}
               /\ flush[f].sess \subseteq Sess /\ flush[f].art \subseteq Artifacts
    <3>1. flush[f] \in FlushLocals /\ flush[f].seen <= gen /\ gen \in Nat
      BY DEF SwTypes, FlushTypes, MemoryTypes
    <3> QED BY <3>1 DEF FlushLocals
  <2>5. save.pc \in {"idle", "collect", "write"} /\ save.env \in Envelopes \cup {None}
    BY DEF SwTypes, SaveTypes, SaveLocals
  <2>6. TypeOK BY <2>1, <2>2, <2>3, <2>4, <2>5 DEF TypeOK, SwNoEdits
  <2> QED BY <2>6 DEF SwTypeOK, SwTypes, StepTypes
<1> QED BY <1>1, <1>2, <1>3, <1>4, SwEditsStay, PTL DEF SwSpec

\* However artifacts, saves, flushes and transitions interleave, as long
\* as a transition starts settled and ends within the window, every
\* artifact of a workspace is in memory or in its files and in no other's
\* (switchWorkspace, openWorkspace and newWorkspace of workspaceStore.ts,
\* flush of autosave.rs).
THEOREM SwitchPlacesArtifacts ==
  ASSUME Settled, ~SlowSwitch
  PROVE  SwSpec => []ArtifactsPlaced
<1> DEFINE Inv == SwTypes /\ WindowInv /\ (Usual => PlacesInv)
<1>1. SwInit => Inv BY SwTypesInit, SwWindowInit, SwPlacesInit
<1>2. Inv /\ [SwNext]_allvars => Inv' BY SwTypesStep, SwWindowStep, SwStillUsual, SwPlacesStep
<1>3. Inv => ArtifactsPlaced BY SwPlaced
<1> QED BY <1>1, <1>2, <1>3, PTL DEF SwSpec

\* Under the same conditions no transition, save or flush takes an
\* artifact of a workspace out of its files, and no file is written while
\* the window of a transition is armed.
THEOREM SwitchKeepsFiles ==
  ASSUME Settled, ~SlowSwitch
  PROVE  SwSpec => FilesKept
<1> DEFINE Inv == SwTypes /\ WindowInv /\ (Usual => PlacesInv)
           Grow == \A d \in Dests : FileGrows(d)
           Untouched == sw # None /\ sw.op # "agent" /\ window =>
             \A k \in {"auto", "explicit"} : disk'[<<envelope.id, k>>] = disk[<<envelope.id, k>>]
<1>1. SwInit => Inv BY SwTypesInit, SwWindowInit, SwPlacesInit
<1>2. Inv /\ [SwNext]_allvars => Inv' BY SwTypesStep, SwWindowStep, SwStillUsual, SwPlacesStep
<1>3. Inv /\ [SwNext]_allvars => [Grow]_allvars BY SwGrows
<1>4. Inv /\ [SwNext]_allvars => [Untouched]_allvars BY SwWindowKeepsFiles
<1>5. [][Grow]_allvars => FilesOnlyGrow BY PTL DEF FilesOnlyGrow, FileGrows
<1>6. [][Untouched]_allvars => OutgoingFileUntouched BY PTL DEF OutgoingFileUntouched
<1>7. SwSpec => [][Grow]_allvars BY <1>1, <1>2, <1>3, PTL DEF SwSpec
<1>8. SwSpec => [][Untouched]_allvars BY <1>1, <1>2, <1>4, PTL DEF SwSpec
<1> QED BY <1>5, <1>6, <1>7, <1>8 DEF FilesKept

----------------------------------------
\* What the window shows of a live capture (Capture).

CapMessages == [ev : {"batch", "update", "stopped"}, total : Nat]
CapEntries == [shown : BOOLEAN, live : BOOLEAN, total : Nat, count : Nat]
CapStarted == [pc : {"none", "stops", "asked", "answered", "over"}, id : 0..CapMax]
CapStatuses == [phase : {"idle", "starting", "streaming", "stopped", "error"},
                id : 0..CapMax, total : Nat]
CapCounts == [id : CapIds, total : Nat]
CapCallTypes ==
  /\ capTask \in [CapIds -> {"none", "runs", "cancelled", "ended"}]
  /\ capOpen \in [CapIds -> BOOLEAN] /\ capNews \subseteq CapIds
  /\ capStart \in [CapIds -> CapStarted] /\ capStop \in [CapIds -> {"no", "sent", "answered"}]
  /\ capClose \in [CapIds -> {"no", "stops", "sent", "answered"}]
  /\ capCurrent \in 0..CapMax /\ capActive \in BOOLEAN /\ capStarting \in BOOLEAN
CapStatusTypes == capStatus \in CapStatuses
CapWireTypes ==
  /\ capTotal \in [CapIds -> 0..CapLines] /\ capChan \in [CapIds -> Seq(CapMessages)]
  /\ \A n \in CapIds : \A j \in DOMAIN capChan[n] : capChan[n][j].total <= capTotal[n]
CapUpdateTypes ==
  /\ capUpdates \in Seq(CapCounts)
  /\ \A j \in DOMAIN capUpdates : capUpdates[j].total <= capTotal[capUpdates[j].id]
CapEntryTypes ==
  /\ capEntry \in [CapIds -> CapEntries]
  /\ \A n \in CapIds : capEntry[n].total <= capTotal[n] /\ capEntry[n].count <= capTotal[n]
CapTypes ==
  CapCallTypes /\ CapStatusTypes /\ CapWireTypes /\ CapUpdateTypes /\ CapEntryTypes

CapInFlight(k) == capStart[k].pc \in {"stops", "asked", "answered"}
CapShows(n) == capStatus.phase = "streaming" /\ capStatus.id = n

\* A capture the window has not heard of yet.
CapUnseen(n) ==
  capTask[n] = "none" \/ \E k \in CapIds : capStart[k].pc = "answered" /\ capStart[k].id = n

\* One start at a time, in order; so a capture is left for it to begin.
CapStartInv ==
  /\ \A k \in CapIds : CapInFlight(k) => capStarting
  /\ \A j, k \in CapIds : CapInFlight(j) /\ CapInFlight(k) => j = k
  /\ \A j, k \in CapIds : j < k /\ capStart[k].pc # "none" => capStart[j].pc # "none"
  /\ \E b \in 0..CapMax : \A n \in CapIds : capTask[n] = "none" <=> n > b
  /\ \A n \in CapIds : capTask[n] # "none" => capStart[n].pc \in {"answered", "over"}
  /\ \A k \in CapIds :
       /\ capStart[k].pc = "answered" =>
            capStart[k].id = 0 \/ (capStart[k].id \in CapIds /\ capTask[capStart[k].id] # "none")
       /\ capStart[k].pc = "stops" => capStart[k].id \in CapIds /\ capStop[capStart[k].id] # "no"

\* The window knows nothing of what it has not heard of.
CapUnseenInv ==
  \A n \in CapIds :
    /\ capTask[n] = "none" =>
         ~capOpen[n] /\ capTotal[n] = 0 /\ capChan[n] = <<>> /\ n \notin capNews
    /\ CapUnseen(n) =>
         /\ capEntry[n] = CapNoEntry /\ capStop[n] = "no" /\ capClose[n] = "no"
         /\ capCurrent # n /\ ~CapShows(n)

\* Who can still be stopped, and by whom.
CapGuardInv ==
  /\ capActive <=> capCurrent # 0
  /\ capStarting => capCurrent = 0
  /\ \A n \in CapIds :
       /\ capStop[n] # "no" => capCurrent # n
       /\ capStop[n] = "answered" => capTask[n] # "runs"
       /\ capTask[n] = "runs" => capCurrent = n \/ capStop[n] = "sent" \/ CapUnseen(n)
  /\ CapLate \/ \A n \in CapIds :
       /\ capCurrent = n => CapShows(n)
       /\ CapShows(n) => capCurrent = n \/ capStop[n] # "no"

\* The sessions and the tabs.
CapShownInv ==
  \A n \in CapIds :
    /\ capOpen[n] => capEntry[n].shown \/ CapUnseen(n)
    /\ capClose[n] = "answered" \/ n \in capNews => ~capOpen[n]
    /\ capEntry[n].shown /\ ~capOpen[n] =>
         \/ n \in capNews \/ capClose[n] = "answered"
         \/ {<<"batch after close", n>>, <<"closed early", n>>} \cap capGhost # {}
    /\ capEntry[n].live => capEntry[n].shown /\ (capCurrent = n \/ capStop[n] # "no")
    /\ capEntry[n].shown /\ capCurrent = n => capEntry[n].live

\* A batch is followed by its update, the end by nothing, and the last of
\* each kind has the total.
CapHas(chan, ev) == \E j \in DOMAIN chan : chan[j].ev = ev
CapShape(chan, total) ==
  \A j \in DOMAIN chan :
    /\ chan[j].ev = "stopped" => j = Len(chan)
    /\ chan[j].ev = "batch" => j + 1 \in DOMAIN chan /\ chan[j + 1].ev = "update"
    /\ chan[j].ev # "stopped" =>
         chan[j].total = total \/ \E i \in DOMAIN chan : i > j /\ chan[i].ev = chan[j].ev
CapChanInv ==
  \A n \in CapIds :
    /\ CapShape(capChan[n], capTotal[n])
    /\ capTask[n] = "ended" => capChan[n] = <<>> \/ CapHas(capChan[n], "stopped")
    /\ CapHas(capChan[n], "stopped") => capTask[n] = "ended"
    /\ capCurrent = n /\ capTask[n] = "ended" =>
         capChan[n] # <<>> \/ <<"ended early", n>> \in capGhost

\* What the tab is short of is on its way.
CapCountInv ==
  /\ \A i, j \in DOMAIN capUpdates : capUpdates[i].id = capUpdates[j].id
  /\ \A i \in DOMAIN capUpdates : capCurrent # 0 => capUpdates[i].id = capCurrent
  /\ CapLate \/ \A n \in CapIds : <<"tail", n>> \notin capGhost =>
       /\ CapUnseen(n) /\ capTotal[n] # 0 =>
            CapHas(capChan[n], "batch") /\ CapHas(capChan[n], "update")
       /\ capEntry[n].shown =>
            /\ CapHas(capChan[n], "batch") \/ capEntry[n].total = capTotal[n]
            /\ \/ CapHas(capChan[n], "update")
               \/ IF capUpdates # <<>> /\ capUpdates[1].id = n
                  THEN capUpdates[Len(capUpdates)].total = capTotal[n]
                  ELSE capEntry[n].count = capTotal[n]

CapInv ==
  /\ CapTypes /\ CapStartInv /\ CapUnseenInv /\ CapGuardInv
  /\ CapShownInv /\ CapChanInv /\ CapCountInv

----------------------------------------
\* The channel, as a message is taken from it, and as some are put in.

LEMMA CapMessage == \A m \in CapMessages :
    m.ev \in {"batch", "update", "stopped"} /\ m.total \in Nat BY DEF CapMessages

LEMMA CapTail ==
  ASSUME NEW s \in Seq(CapMessages), s # <<>>, NEW total \in Nat
  PROVE  /\ Tail(s) \in Seq(CapMessages) /\ Head(s) \in CapMessages
         /\ Len(s) \in Nat \ {0} /\ Len(Tail(s)) = Len(s) - 1 /\ Head(s) = s[1]
         /\ DOMAIN s = 1..Len(s) /\ DOMAIN Tail(s) = 1..(Len(s) - 1)
         /\ \A j \in DOMAIN Tail(s) : j + 1 \in DOMAIN s /\ Tail(s)[j] = s[j + 1]
  <1>1. Tail(s) \in Seq(CapMessages) /\ Head(s) \in CapMessages OBVIOUS
  <1>2. Len(s) \in Nat \ {0} /\ Len(Tail(s)) = Len(s) - 1 /\ Head(s) = s[1] OBVIOUS
  <1>3. DOMAIN s = 1..Len(s) /\ DOMAIN Tail(s) = 1..(Len(s) - 1) BY <1>1, <1>2
  <1>4. \A j \in DOMAIN Tail(s) : j + 1 \in DOMAIN s /\ Tail(s)[j] = s[j + 1] BY <1>2, <1>3
  <1> QED BY <1>1, <1>2, <1>3, <1>4

LEMMA CapTailShape ==
  ASSUME NEW s \in Seq(CapMessages), s # <<>>, NEW total \in Nat, CapShape(s, total)
  PROVE  /\ CapShape(Tail(s), total)
         /\ Head(s).ev = "stopped" => Tail(s) = <<>>
         /\ Head(s).ev = "batch" => CapHas(Tail(s), "update")
         /\ \A ev : CapHas(Tail(s), ev) => CapHas(s, ev)
         /\ \A ev : CapHas(s, ev) => Head(s).ev = ev \/ CapHas(Tail(s), ev)
         /\ Head(s).ev # "stopped" /\ ~CapHas(Tail(s), Head(s).ev) => Head(s).total = total
  <1> USE CapTail
  <1>1. CapShape(Tail(s), total)
    <2> SUFFICES ASSUME NEW j \in DOMAIN Tail(s)
                 PROVE  /\ Tail(s)[j].ev = "stopped" => j = Len(Tail(s))
                        /\ Tail(s)[j].ev = "batch" =>
                             j + 1 \in DOMAIN Tail(s) /\ Tail(s)[j + 1].ev = "update"
                        /\ Tail(s)[j].ev # "stopped" =>
                             \/ Tail(s)[j].total = total
                             \/ \E i \in DOMAIN Tail(s) : i > j /\ Tail(s)[i].ev = Tail(s)[j].ev
      BY DEF CapShape
    <2>1. j + 1 \in DOMAIN s /\ Tail(s)[j] = s[j + 1] /\ j \in Nat OBVIOUS
    <2>2. Tail(s)[j].ev = "stopped" => j = Len(Tail(s)) BY <2>1 DEF CapShape
    <2>3. Tail(s)[j].ev = "batch" => j + 1 \in DOMAIN Tail(s) /\ Tail(s)[j + 1].ev = "update"
      BY <2>1 DEF CapShape
    <2>4. ASSUME NEW i \in DOMAIN s, i > j + 1
          PROVE  i - 1 \in DOMAIN Tail(s) /\ i - 1 > j /\ Tail(s)[i - 1] = s[i] BY <2>1, <2>4
    <2>5. Tail(s)[j].ev # "stopped" =>
            \/ Tail(s)[j].total = total
            \/ \E i \in DOMAIN Tail(s) : i > j /\ Tail(s)[i].ev = Tail(s)[j].ev
      BY <2>1, <2>4 DEF CapShape
    <2> QED BY <2>2, <2>3, <2>5
  <1>2. Head(s).ev = "stopped" => Tail(s) = <<>> BY DEF CapShape
  <1>3. Head(s).ev = "batch" => CapHas(Tail(s), "update")
    <2> SUFFICES ASSUME Head(s).ev = "batch" PROVE CapHas(Tail(s), "update") OBVIOUS
    <2>1. 2 \in DOMAIN s /\ s[2].ev = "update" BY DEF CapShape
    <2>2. 1 \in DOMAIN Tail(s) /\ Tail(s)[1] = s[2] BY <2>1
    <2> QED BY <2>1, <2>2 DEF CapHas
  <1>4. \A ev : CapHas(Tail(s), ev) => CapHas(s, ev) BY DEF CapHas
  <1>5. ASSUME NEW i \in DOMAIN s, i # 1
        PROVE  i - 1 \in DOMAIN Tail(s) /\ Tail(s)[i - 1] = s[i] BY <1>5
  <1>6. \A ev : CapHas(s, ev) => Head(s).ev = ev \/ CapHas(Tail(s), ev) BY <1>5 DEF CapHas
  <1>7. Head(s).ev # "stopped" /\ ~CapHas(Tail(s), Head(s).ev) => Head(s).total = total
    <2> SUFFICES ASSUME Head(s).ev # "stopped", ~CapHas(Tail(s), Head(s).ev)
                 PROVE  Head(s).total = total
      OBVIOUS
    <2>1. 1 \in DOMAIN s /\ Head(s) = s[1] OBVIOUS
    <2>2. ASSUME NEW i \in DOMAIN s, i # 1 PROVE s[i].ev # s[1].ev
      <3>1. i - 1 \in DOMAIN Tail(s) /\ Tail(s)[i - 1] = s[i] BY <1>5, <2>2
      <3> QED BY <2>1, <3>1 DEF CapHas
    <2>3. \A i \in DOMAIN s : i > 1 => i # 1 OBVIOUS
    <2> QED BY <2>1, <2>2, <2>3 DEF CapShape
  <1> QED BY <1>1, <1>2, <1>3, <1>4, <1>6, <1>7

LEMMA CapMore ==
  ASSUME NEW s \in Seq(CapMessages), NEW total \in Nat, CapShape(s, total), ~CapHas(s, "stopped"),
         \A j \in DOMAIN s : s[j].total <= total,
         NEW more, more = s \o <<[ev |-> "batch", total |-> total + 1],
                                 [ev |-> "update", total |-> total + 1]>>
  PROVE  /\ more \in Seq(CapMessages) /\ more # <<>> /\ CapShape(more, total + 1)
         /\ CapHas(more, "batch") /\ CapHas(more, "update") /\ ~CapHas(more, "stopped")
         /\ \A j \in DOMAIN more : more[j].total <= total + 1
  <1> DEFINE b == [ev |-> "batch", total |-> total + 1]
             u == [ev |-> "update", total |-> total + 1]
  <1>1. <<b, u>> \in Seq(CapMessages) BY DEF CapMessages
  <1>2. more \in Seq(CapMessages) /\ Len(more) = Len(s) + 2 /\ Len(s) \in Nat BY <1>1
  <1>3. \A j \in DOMAIN s : j \in 1..Len(s) /\ more[j] = s[j] BY <1>1
  <1>4. more[Len(s) + 1] = b /\ more[Len(s) + 2] = u BY <1>1, <1>2
  <1>5. DOMAIN more = 1..(Len(s) + 2) /\ DOMAIN s = 1..Len(s) BY <1>2
  <1>6. \A j \in DOMAIN more : j \in DOMAIN s \/ j = Len(s) + 1 \/ j = Len(s) + 2 BY <1>2, <1>5
  <1>7. Len(s) + 1 \in DOMAIN more /\ Len(s) + 2 \in DOMAIN more BY <1>2, <1>5
  <1> HIDE DEF b, u
  <1>8. b.ev = "batch" /\ u.ev = "update" /\ b.total = total + 1 /\ u.total = total + 1 BY DEF b, u
  <1>9. CapHas(more, "batch") /\ CapHas(more, "update") /\ more # <<>>
    <2>1. more[Len(s) + 1].ev = "batch" /\ more[Len(s) + 2].ev = "update" BY <1>4, <1>8
    <2>2. more # <<>> BY <1>2
    <2> QED BY <1>7, <2>1, <2>2 DEF CapHas
  <1>10. \A j \in DOMAIN s : s[j].ev # "stopped" BY DEF CapHas
  <1>11. ~CapHas(more, "stopped") BY <1>3, <1>4, <1>6, <1>8, <1>10 DEF CapHas
  <1>12. \A j \in DOMAIN more : more[j].total <= total + 1
    <2> TAKE j \in DOMAIN more
    <2>1. CASE j \in DOMAIN s
      <3>1. s[j] \in CapMessages BY <2>1
      <3> QED BY <1>3, <2>1, <3>1, CapMessage
    <2>2. CASE j = Len(s) + 1 \/ j = Len(s) + 2 BY <1>4, <1>8, <2>2
    <2> QED BY <1>6, <2>1, <2>2
  <1>13. CapShape(more, total + 1)
    <2> SUFFICES ASSUME NEW j \in DOMAIN more
                 PROVE  /\ more[j].ev # "stopped"
                        /\ more[j].ev = "batch" => j + 1 \in DOMAIN more /\ more[j + 1].ev = "update"
                        /\ \/ more[j].total = total + 1
                           \/ \E i \in DOMAIN more : i > j /\ more[i].ev = more[j].ev
      BY DEF CapShape
    <2>1. more[j].ev # "stopped" BY <1>11 DEF CapHas
    <2>2. CASE j \in DOMAIN s
      <3>1. s[j] \in CapMessages /\ more[j] = s[j] /\ j \in 1..Len(s) BY <1>3, <2>2
      <3>2. more[j].ev = "batch" => j + 1 \in DOMAIN more /\ more[j + 1].ev = "update"
        BY <1>3, <1>5, <2>2, <3>1 DEF CapShape
      <3>3. more[j].ev = "batch" \/ more[j].ev = "update" BY <2>1, <3>1, CapMessage
      <3>4. Len(s) + 1 > j /\ Len(s) + 2 > j BY <1>2, <3>1
      <3> QED BY <1>4, <1>7, <1>8, <2>1, <3>2, <3>3, <3>4
    <2>3. CASE j = Len(s) + 1
      <3>1. j + 1 = Len(s) + 2 BY <1>2, <2>3
      <3> QED BY <1>4, <1>7, <1>8, <2>3, <3>1
    <2>4. CASE j = Len(s) + 2 BY <1>4, <1>8, <2>4
    <2> QED BY <1>6, <2>2, <2>3, <2>4
  <1> QED BY <1>2, <1>9, <1>11, <1>12, <1>13

LEMMA CapLast ==
  ASSUME NEW s \in Seq(CapMessages), NEW total \in Nat, CapShape(s, total), ~CapHas(s, "stopped"),
         \A j \in DOMAIN s : s[j].total <= total,
         NEW more, more = Append(s, [ev |-> "stopped", total |-> 0])
  PROVE  /\ more \in Seq(CapMessages) /\ more # <<>> /\ CapShape(more, total)
         /\ CapHas(more, "stopped")
         /\ \A ev : CapHas(s, ev) => CapHas(more, ev)
         /\ \A j \in DOMAIN more : more[j].total <= total
  <1> DEFINE e == [ev |-> "stopped", total |-> 0]
  <1>1. e \in CapMessages BY DEF CapMessages
  <1>2. more \in Seq(CapMessages) /\ Len(more) = Len(s) + 1 /\ Len(s) \in Nat BY <1>1
  <1>3. \A j \in DOMAIN s : j \in 1..Len(s) /\ more[j] = s[j] BY <1>1
  <1>4. more[Len(s) + 1] = e BY <1>1
  <1>5. DOMAIN more = 1..(Len(s) + 1) /\ DOMAIN s = 1..Len(s) BY <1>2
  <1>6. \A j \in DOMAIN more : j \in DOMAIN s \/ j = Len(s) + 1 BY <1>2, <1>5
  <1>7. Len(s) + 1 \in DOMAIN more /\ \A j \in DOMAIN s : j \in DOMAIN more BY <1>2, <1>5
  <1> HIDE DEF e
  <1>8. e.ev = "stopped" /\ e.total = 0 BY DEF e
  <1>9. CapHas(more, "stopped") /\ more # <<>> /\ \A ev : CapHas(s, ev) => CapHas(more, ev)
    BY <1>2, <1>3, <1>4, <1>7, <1>8 DEF CapHas
  <1>10. \A j \in DOMAIN s : s[j].ev # "stopped" BY DEF CapHas
  <1>11. \A j \in DOMAIN more : more[j].total <= total BY <1>3, <1>4, <1>6, <1>8
  <1>12. CapShape(more, total)
    <2> SUFFICES ASSUME NEW j \in DOMAIN more
                 PROVE  /\ more[j].ev = "stopped" => j = Len(more)
                        /\ more[j].ev = "batch" => j + 1 \in DOMAIN more /\ more[j + 1].ev = "update"
                        /\ more[j].ev # "stopped" =>
                             \/ more[j].total = total
                             \/ \E i \in DOMAIN more : i > j /\ more[i].ev = more[j].ev
      BY DEF CapShape
    <2>1. CASE j \in DOMAIN s
      <3>1. more[j] = s[j] /\ s[j].ev # "stopped" BY <1>3, <1>10, <2>1
      <3>2. more[j].ev = "batch" => j + 1 \in DOMAIN more /\ more[j + 1].ev = "update"
        BY <1>3, <1>7, <2>1, <3>1 DEF CapShape
      <3>3. more[j].total = total \/ \E i \in DOMAIN more : i > j /\ more[i].ev = more[j].ev
        BY <1>3, <1>7, <2>1, <3>1 DEF CapShape
      <3> QED BY <3>1, <3>2, <3>3
    <2>2. CASE j = Len(s) + 1 BY <1>2, <1>4, <1>8, <2>2
    <2> QED BY <1>6, <2>1, <2>2
  <1> QED BY <1>2, <1>9, <1>11, <1>12

----------------------------------------
LEMMA CapInitially == CapInit => CapInv
  <1> SUFFICES ASSUME CapInit PROVE CapInv OBVIOUS
  <1> USE CapAssumption
  <1>1. CapTypes
    <2>1. CapCallTypes /\ CapStatusTypes
      <3>1. CapStatusTypes BY DEF CapInit, CapStatusTypes, CapStatus, CapStatuses
      <3>2. [pc |-> "none", id |-> 0] \in CapStarted BY DEF CapStarted
      <3>4. capStart \in [CapIds -> CapStarted] BY <3>2 DEF CapInit
      <3>5. capTask \in [CapIds -> {"none", "runs", "cancelled", "ended"}] /\ capOpen \in [CapIds -> BOOLEAN]
        BY DEF CapInit
      <3>6. /\ capStop \in [CapIds -> {"no", "sent", "answered"}]
            /\ capClose \in [CapIds -> {"no", "stops", "sent", "answered"}] BY DEF CapInit
      <3>7. capActive \in BOOLEAN /\ capStarting \in BOOLEAN BY DEF CapInit
      <3>8. capNews \subseteq CapIds BY DEF CapInit
      <3>9. capCurrent \in 0..CapMax BY DEF CapInit
      <3>3. CapCallTypes BY <3>4, <3>5, <3>6, <3>7, <3>8, <3>9 DEF CapCallTypes
      <3> QED BY <3>1, <3>3
    <2>2. CapWireTypes
      <3>1. \A n \in CapIds : DOMAIN capChan[n] = {} BY DEF CapInit
      <3> QED BY <3>1 DEF CapInit, CapWireTypes
    <2>3. CapUpdateTypes BY DEF CapInit, CapUpdateTypes
    <2>4. CapEntryTypes
      <3>1. CapNoEntry \in CapEntries /\ CapNoEntry.total = 0 /\ CapNoEntry.count = 0
        BY DEF CapNoEntry, CapEntries
      <3> QED BY <3>1 DEF CapInit, CapEntryTypes
    <2> QED BY <2>1, <2>2, <2>3, <2>4 DEF CapTypes
  <1>2. CapStartInv
    <2>1. \A n \in CapIds : (capTask[n] = "none" <=> n > 0) BY DEF CapInit, CapIds
    <2>2. 0 \in 0..CapMax OBVIOUS
    <2>3. \A k \in CapIds : capStart[k].pc = "none" /\ capTask[k] = "none" BY DEF CapInit
    <2> QED BY <2>1, <2>2, <2>3 DEF CapStartInv, CapInFlight
  <1>3. CapUnseenInv /\ CapGuardInv /\ CapShownInv
    <2>1. /\ capStatus.phase = "idle" /\ capCurrent = 0 /\ ~capActive /\ ~capStarting
          /\ capNews = {}
          /\ \A n \in CapIds : /\ capTask[n] = "none" /\ ~capOpen[n] /\ capTotal[n] = 0
                                 /\ capChan[n] = <<>> /\ capStop[n] = "no" /\ capClose[n] = "no"
                                 /\ capEntry[n] = CapNoEntry /\ n # 0
      BY DEF CapInit, CapStatus, CapIds
    <2>2. ~CapNoEntry.shown /\ ~CapNoEntry.live BY DEF CapNoEntry
    <2>3. CapUnseenInv BY <2>1 DEF CapUnseenInv, CapShows
    <2>4. CapGuardInv
      <3>1. \A n \in CapIds : ~CapShows(n) /\ capCurrent # n BY <2>1 DEF CapShows
      <3> QED BY <2>1, <3>1 DEF CapGuardInv
    <2>5. CapShownInv BY <2>1, <2>2 DEF CapShownInv
    <2> QED BY <2>3, <2>4, <2>5
  <1>4. CapChanInv /\ CapCountInv
    BY DEF CapInit, CapChanInv, CapCountInv, CapShape, CapHas, CapIds, CapNoEntry
  <1> QED BY <1>1, <1>2, <1>3, <1>4 DEF CapInv

\* The capture that a start begins is the next one.
LEMMA CapNextOne ==
  ASSUME CapInv, NEW k \in CapIds, capStart[k].pc = "asked"
  PROVE  \E n \in CapIds :
           /\ n = CHOOSE m \in CapIds :
                    capTask[m] = "none" /\ \A j \in 1 .. m - 1 : capTask[j] # "none"
           /\ capTask[n] = "none" /\ n <= k
           /\ \A m \in CapIds : (capTask[m] = "none" <=> m >= n)
  <1> USE CapAssumption DEF CapIds
  <1> DEFINE n == CHOOSE m \in CapIds :
                    capTask[m] = "none" /\ \A j \in 1 .. m - 1 : capTask[j] # "none"
  <1>1. PICK b \in 0..CapMax : \A m \in CapIds : (capTask[m] = "none" <=> m > b)
    BY DEF CapInv, CapStartInv
  <1>2. capTask[k] = "none" BY DEF CapInv, CapStartInv
  <1>3. b + 1 \in CapIds /\ b + 1 <= k BY <1>1, <1>2
  <1>4. capTask[b + 1] = "none" /\ \A j \in 1 .. (b + 1) - 1 : capTask[j] # "none" BY <1>1, <1>3
  <1>5. n \in CapIds /\ capTask[n] = "none" /\ \A j \in 1 .. n - 1 : capTask[j] # "none"
    BY <1>3, <1>4
  <1> HIDE DEF n
  <1>6. n > b /\ ~(b + 1 \in 1 .. n - 1) BY <1>1, <1>4, <1>5
  <1>7. n = b + 1 /\ n <= k BY <1>3, <1>5, <1>6
  <1>8. \A m \in CapIds : (m > b <=> m >= n) BY <1>7
  <1>9. \A m \in CapIds : (capTask[m] = "none" <=> m >= n) BY <1>1, <1>8
  <1> QED BY <1>5, <1>7, <1>9 DEF n

\* The channel of capture n after a batch, at its end, once heard.
LEMMA CapBatchChan ==
  ASSUME CapInv, NEW n \in CapIds, CapBatch(n)
  PROVE  /\ capTotal'[n] = capTotal[n] + 1 /\ capTotal[n] \in Nat
         /\ capChan'[n] \in Seq(CapMessages) /\ capChan'[n] # <<>>
         /\ CapShape(capChan'[n], capTotal'[n])
         /\ CapHas(capChan'[n], "batch") /\ CapHas(capChan'[n], "update")
         /\ ~CapHas(capChan'[n], "stopped")
         /\ \A j \in DOMAIN capChan'[n] : capChan'[n][j].total <= capTotal'[n]
         /\ \A m \in CapIds : m # n => capChan'[m] = capChan[m] /\ capTotal'[m] = capTotal[m]
         /\ capChan' \in [CapIds -> Seq(CapMessages)] /\ capTotal' \in [CapIds -> 0..CapLines]
         /\ capTask[n] # "ended" /\ capTask[n] # "none"
  <1> USE CapAssumption
  <1>1. /\ capTotal \in [CapIds -> 0..CapLines] /\ capChan \in [CapIds -> Seq(CapMessages)]
        /\ capTask[n] \in {"runs", "cancelled"}
        /\ capTotal' = [capTotal EXCEPT ![n] = @ + 1] /\ capTotal[n] < CapLines
        /\ capChan' = [capChan EXCEPT ![n] =
                         @ \o <<[ev |-> "batch", total |-> capTotal[n] + 1],
                                [ev |-> "update", total |-> capTotal[n] + 1]>>]
    BY DEF CapBatch, CapInv, CapTypes, CapWireTypes, CapCallTypes
  <1>2. CapShape(capChan[n], capTotal[n]) /\ ~CapHas(capChan[n], "stopped")
    BY <1>1 DEF CapInv, CapChanInv
  <1>3. capTotal'[n] = capTotal[n] + 1 /\ capTotal[n] \in Nat BY <1>1
  <1>4. capChan'[n] = capChan[n] \o <<[ev |-> "batch", total |-> capTotal[n] + 1],
                                [ev |-> "update", total |-> capTotal[n] + 1]>> BY <1>1
  <1>5. \A j \in DOMAIN capChan[n] : capChan[n][j].total <= capTotal[n]
    BY DEF CapInv, CapTypes, CapWireTypes
  <1>6. capChan[n] \in Seq(CapMessages) BY <1>1
  <1>7. /\ capChan'[n] \in Seq(CapMessages) /\ capChan'[n] # <<>>
        /\ CapShape(capChan'[n], capTotal[n] + 1)
        /\ CapHas(capChan'[n], "batch") /\ CapHas(capChan'[n], "update")
        /\ ~CapHas(capChan'[n], "stopped")
        /\ \A j \in DOMAIN capChan'[n] : capChan'[n][j].total <= capTotal[n] + 1
    BY <1>2, <1>3, <1>4, <1>5, <1>6, CapMore
  <1>8. capTotal' \in [CapIds -> 0..CapLines] BY <1>1
  <1>9. \A m \in CapIds : m # n => capChan'[m] = capChan[m] /\ capTotal'[m] = capTotal[m] BY <1>1
  <1>10. capChan' \in [CapIds -> Seq(CapMessages)] BY <1>1, <1>7, <1>9
  <1> QED BY <1>1, <1>3, <1>7, <1>8, <1>9, <1>10

LEMMA CapEndsChan ==
  ASSUME CapInv, NEW n \in CapIds, CapEnds(n)
  PROVE  /\ capChan'[n] \in Seq(CapMessages) /\ capChan'[n] # <<>>
         /\ CapShape(capChan'[n], capTotal[n]) /\ CapHas(capChan'[n], "stopped")
         /\ \A ev : CapHas(capChan[n], ev) => CapHas(capChan'[n], ev)
         /\ \A j \in DOMAIN capChan'[n] : capChan'[n][j].total <= capTotal[n]
         /\ \A m \in CapIds : m # n => capChan'[m] = capChan[m]
         /\ capChan' \in [CapIds -> Seq(CapMessages)]
  <1> USE CapAssumption
  <1>1. /\ capTotal \in [CapIds -> Nat] /\ capChan \in [CapIds -> Seq(CapMessages)]
        /\ capTask[n] \in {"runs", "cancelled"}
        /\ capChan' = [capChan EXCEPT ![n] = Append(@, [ev |-> "stopped", total |-> 0])]
    BY DEF CapEnds, CapInv, CapTypes, CapWireTypes, CapCallTypes
  <1>2. CapShape(capChan[n], capTotal[n]) /\ ~CapHas(capChan[n], "stopped")
    BY <1>1 DEF CapInv, CapChanInv
  <1>3. capChan'[n] = Append(capChan[n], [ev |-> "stopped", total |-> 0]) BY <1>1
  <1>4. \A j \in DOMAIN capChan[n] : capChan[n][j].total <= capTotal[n]
    BY DEF CapInv, CapTypes, CapWireTypes
  <1>5. capChan[n] \in Seq(CapMessages) /\ capTotal[n] \in Nat BY <1>1
  <1>6. /\ capChan'[n] \in Seq(CapMessages) /\ capChan'[n] # <<>>
        /\ CapShape(capChan'[n], capTotal[n]) /\ CapHas(capChan'[n], "stopped")
        /\ \A ev : CapHas(capChan[n], ev) => CapHas(capChan'[n], ev)
        /\ \A j \in DOMAIN capChan'[n] : capChan'[n][j].total <= capTotal[n]
    BY <1>2, <1>3, <1>4, <1>5, CapLast
  <1>7. \A m \in CapIds : m # n => capChan'[m] = capChan[m] BY <1>1
  <1>8. capChan' \in [CapIds -> Seq(CapMessages)] BY <1>1, <1>6, <1>7
  <1> QED BY <1>6, <1>7, <1>8

LEMMA CapHeardChan ==
  ASSUME CapInv, NEW n \in CapIds, CapHear(n)
  PROVE  /\ capChan'[n] = Tail(capChan[n]) /\ Head(capChan[n]) \in CapMessages
         /\ Head(capChan[n]).total <= capTotal[n] /\ capTotal[n] \in Nat
         /\ capChan'[n] \in Seq(CapMessages) /\ CapShape(capChan'[n], capTotal[n])
         /\ \A j \in DOMAIN capChan'[n] : capChan'[n][j].total <= capTotal[n]
         /\ Head(capChan[n]).ev = "stopped" => capChan'[n] = <<>> /\ capTask[n] = "ended"
         /\ Head(capChan[n]).ev = "batch" => CapHas(capChan'[n], "update")
         /\ \A ev : CapHas(capChan'[n], ev) => CapHas(capChan[n], ev)
         /\ \A ev : CapHas(capChan[n], ev) => Head(capChan[n]).ev = ev \/ CapHas(capChan'[n], ev)
         /\ Head(capChan[n]).ev # "stopped" /\ ~CapHas(capChan'[n], Head(capChan[n]).ev) =>
              Head(capChan[n]).total = capTotal[n]
         /\ \A m \in CapIds : m # n => capChan'[m] = capChan[m]
         /\ capChan' \in [CapIds -> Seq(CapMessages)]
  <1> USE CapAssumption
  <1>1. /\ capTotal \in [CapIds -> Nat] /\ capChan \in [CapIds -> Seq(CapMessages)]
        /\ capChan[n] # <<>> /\ capChan' = [capChan EXCEPT ![n] = Tail(@)]
    BY DEF CapHear, CapInv, CapTypes, CapWireTypes, CapCallTypes
  <1>2. CapShape(capChan[n], capTotal[n]) /\ capChan'[n] = Tail(capChan[n])
    BY <1>1 DEF CapInv, CapChanInv
  <1>3. \A j \in DOMAIN capChan[n] : capChan[n][j].total <= capTotal[n]
    BY DEF CapInv, CapTypes, CapWireTypes
  <1>4. capChan[n] \in Seq(CapMessages) /\ capTotal[n] \in Nat /\ capChan[n] # <<>> BY <1>1
  <1> HIDE CapAssumption
  <1>5. /\ Tail(capChan[n]) \in Seq(CapMessages) /\ Head(capChan[n]) \in CapMessages
        /\ Len(capChan[n]) \in Nat \ {0} /\ Head(capChan[n]) = capChan[n][1]
        /\ DOMAIN capChan[n] = 1..Len(capChan[n])
        /\ \A j \in DOMAIN Tail(capChan[n]) :
             j + 1 \in DOMAIN capChan[n] /\ Tail(capChan[n])[j] = capChan[n][j + 1] BY <1>4, CapTail
  <1>6. /\ CapShape(Tail(capChan[n]), capTotal[n])
        /\ Head(capChan[n]).ev = "stopped" => Tail(capChan[n]) = <<>>
        /\ Head(capChan[n]).ev = "batch" => CapHas(Tail(capChan[n]), "update")
        /\ \A ev : CapHas(Tail(capChan[n]), ev) => CapHas(capChan[n], ev)
        /\ \A ev : CapHas(capChan[n], ev) =>
             Head(capChan[n]).ev = ev \/ CapHas(Tail(capChan[n]), ev)
        /\ Head(capChan[n]).ev # "stopped" /\ ~CapHas(Tail(capChan[n]), Head(capChan[n]).ev) =>
             Head(capChan[n]).total = capTotal[n] BY <1>2, <1>4, CapTailShape
  <1>7. 1 \in DOMAIN capChan[n] BY <1>5
  <1>8. Head(capChan[n]).ev = "stopped" => CapHas(capChan[n], "stopped") BY <1>5, <1>7 DEF CapHas
  <1>9. Head(capChan[n]).ev = "stopped" => capTask[n] = "ended" BY <1>8 DEF CapInv, CapChanInv
  <1>10. \A m \in CapIds : m # n => capChan'[m] = capChan[m] BY <1>1
  <1>11. capChan' \in [CapIds -> Seq(CapMessages)] BY <1>1, <1>5
  <1> QED BY <1>2, <1>3, <1>4, <1>5, <1>6, <1>7, <1>9, <1>10, <1>11

----------------------------------------
\* What the three handlers do to the entries.
LEMMA CapNoEntryIs ==
  /\ CapNoEntry \in CapEntries /\ ~CapNoEntry.shown /\ ~CapNoEntry.live
  /\ CapNoEntry.total = 0 /\ CapNoEntry.count = 0 BY DEF CapNoEntry, CapEntries

LEMMA CapShowIs ==
  ASSUME NEW e \in [CapIds -> CapEntries], NEW n \in CapIds, NEW t \in Nat
  PROVE  /\ CapShow(e, n, t) \in [CapIds -> CapEntries]
         /\ \A m \in CapIds : m # n => CapShow(e, n, t)[m] = e[m]
         /\ CapShow(e, n, t)[n].shown /\ CapShow(e, n, t)[n].total = t
         /\ CapShow(e, n, t)[n].live = (e[n].live \/ ~e[n].shown)
         /\ CapShow(e, n, t)[n].count = IF e[n].shown THEN e[n].count ELSE 0
  <1>1. CASE e[n].shown
    <2>1. CapShow(e, n, t) = [e EXCEPT ![n] = [e[n] EXCEPT !.total = t]] BY <1>1 DEF CapShow
    <2>2. e[n] \in CapEntries OBVIOUS
    <2> QED BY <1>1, <2>1, <2>2 DEF CapEntries
  <1>2. CASE ~e[n].shown
    <2> DEFINE fresh == [CapNoEntry EXCEPT !.shown = TRUE, !.live = TRUE]
    <2>1. /\ fresh \in CapEntries /\ fresh.shown = TRUE /\ fresh.live = TRUE
          /\ fresh.total = 0 /\ fresh.count = 0 BY DEF CapNoEntry, CapEntries
    <2>2. CapShow(e, n, t) = [e EXCEPT ![n] = [fresh EXCEPT !.total = t]] BY <1>2 DEF CapShow
    <2> HIDE DEF fresh
    <2>3. /\ [fresh EXCEPT !.total = t] \in CapEntries
          /\ [fresh EXCEPT !.total = t].shown = TRUE /\ [fresh EXCEPT !.total = t].live = TRUE
          /\ [fresh EXCEPT !.total = t].total = t /\ [fresh EXCEPT !.total = t].count = 0
      BY <2>1 DEF CapEntries
    <2> QED BY <1>2, <2>2, <2>3
  <1> QED BY <1>1, <1>2

LEMMA CapQuietenedIs ==
  ASSUME NEW e \in [CapIds -> CapEntries], NEW n \in CapIds
  PROVE  /\ CapQuietened(e, n) \in [CapIds -> CapEntries]
         /\ \A m \in CapIds : m # n => CapQuietened(e, n)[m] = e[m]
         /\ ~CapQuietened(e, n)[n].live /\ CapQuietened(e, n)[n].shown = e[n].shown
         /\ CapQuietened(e, n)[n].total = e[n].total /\ CapQuietened(e, n)[n].count = e[n].count
  BY DEF CapQuietened, CapEntries

LEMMA CapDroppedIs ==
  ASSUME NEW e \in [CapIds -> CapEntries], NEW n \in CapIds
  PROVE  /\ CapDropped(e, n) \in [CapIds -> CapEntries]
         /\ \A m \in CapIds : m # n => CapDropped(e, n)[m] = e[m]
         /\ CapDropped(e, n)[n] = CapNoEntry BY CapNoEntryIs DEF CapDropped

LEMMA CapStatusIs ==
  ASSUME NEW p, NEW n, NEW t
  PROVE  CapStatus(p, n, t).phase = p /\ CapStatus(p, n, t).id = n /\ CapStatus(p, n, t).total = t
  BY DEF CapStatus

\* What the window does of a message depends on its guards.
LEMMA CapHearCases ==
  ASSUME CapInv, NEW n \in CapIds, CapHear(n)
  PROVE  LET h == Head(capChan[n]) IN
         /\ UNCHANGED <<capTask, capOpen, capTotal, capNews, capStart, capStop, capClose, capStarting>>
         /\ \/ /\ ~capActive \/ capCurrent # n
               /\ h.ev # "stopped" => <<"tail", n>> \in capGhost'
               /\ capGhost \subseteq capGhost'
               /\ UNCHANGED <<capStatus, capCurrent, capActive, capUpdates, capEntry>>
            \/ /\ capActive /\ capCurrent = n
               /\ \/ h.ev = "batch" /\ CapHearBatch(n, h.total)
                  \/ h.ev = "update" /\ CapHearUpdate(n, h.total)
                  \/ h.ev = "stopped" /\ CapHearStopped(n)
  <1> DEFINE h == Head(capChan[n])
  <1>1. h \in CapMessages BY CapHeardChan
  <1>2. h.ev = "batch" \/ h.ev = "update" \/ h.ev = "stopped" BY <1>1, CapMessage
  <1>3. UNCHANGED <<capTask, capOpen, capTotal, capNews, capStart, capStop, capClose, capStarting>>
    BY DEF CapHear, capBack, capCalls
  <1>4. CASE ~capActive \/ capCurrent # n BY <1>3, <1>4 DEF CapHear
  <1>5. CASE ~(~capActive \/ capCurrent # n)
    <2>1. CASE h.ev = "batch" BY <1>3, <1>5, <2>1 DEF CapHear
    <2>2. CASE h.ev = "update" BY <1>3, <1>5, <2>2 DEF CapHear
    <2>3. CASE h.ev = "stopped" BY <1>3, <1>5, <2>3 DEF CapHear
    <2> QED BY <1>2, <2>1, <2>2, <2>3
  <1> QED BY <1>4, <1>5

\* What has been passed stays known.
LEMMA CapGhostGrows ==
  ASSUME CapInv, CapNext PROVE capGhost \subseteq capGhost'
  <1> USE DEF capHist
  <1>1. CapStops \/ CapFlush => capGhost \subseteq capGhost' BY DEF CapStops, CapFlush
  <1>2. ASSUME NEW n \in CapIds,
               \/ CapBatch(n) \/ CapEnds(n) \/ CapAgentStops(n) \/ CapAgentCloses(n)
               \/ CapStarts(n) \/ CapBegins(n) \/ CapStopTaken(n) \/ CapClosing(n)
               \/ CapClosed(n) \/ CapCloseAnswered(n) \/ CapHearClosed(n)
        PROVE  capGhost' = capGhost
    BY <1>2 DEF CapBatch, CapEnds, CapAgentStops, CapAgentCloses, CapStarts, CapBegins,
      CapStopTaken, CapClosing, CapClosed, CapCloseAnswered, CapHearClosed
  <1>3. ASSUME NEW n \in CapIds, CapAnswered(n) \/ CapStopAnswered(n)
        PROVE  capGhost \subseteq capGhost' BY <1>3 DEF CapAnswered, CapStopAnswered
  <1>4. ASSUME NEW n \in CapIds, CapHear(n) PROVE capGhost \subseteq capGhost'
    BY <1>4, CapHearCases DEF CapHearBatch, CapHearUpdate, CapHearStopped
  <1> QED BY <1>1, <1>2, <1>3, <1>4 DEF CapNext

----------------------------------------
\* Types, step by step.
LEMMA CapStatusTyped ==
  ASSUME NEW p \in {"idle", "starting", "streaming", "stopped", "error"},
         NEW n \in 0..CapMax, NEW t \in Nat
  PROVE  CapStatus(p, n, t) \in CapStatuses BY DEF CapStatus, CapStatuses

LEMMA CapStartIs ==
  ASSUME NEW k \in CapIds, CapCallTypes
  PROVE  /\ capStart[k].pc \in {"none", "stops", "asked", "answered", "over"}
         /\ capStart[k].id \in 0..CapMax
         /\ \A pc \in {"none", "stops", "asked", "answered", "over"} :
              [capStart[k] EXCEPT !.pc = pc] \in CapStarted
  <1>1. capStart[k] \in CapStarted BY DEF CapCallTypes
  <1> QED BY <1>1 DEF CapStarted

LEMMA CapStartNew ==
  ASSUME NEW pc \in {"none", "stops", "asked", "answered", "over"}, NEW n \in 0..CapMax
  PROVE  [pc |-> pc, id |-> n] \in CapStarted BY DEF CapStarted

LEMMA CapCallTypesStep ==
  ASSUME CapInv, CapNext PROVE CapCallTypes'
  <1> USE CapAssumption DEF CapCallTypes, capBack, capCalls
  <1>0. CapCallTypes BY DEF CapInv, CapTypes
  <1>i. 0 \in 0..CapMax OBVIOUS
  <1>1. CASE CapStops BY <1>0, <1>1, <1>i DEF CapStops, CapStopNow, capWires, CapIds
  <1>2. CASE CapFlush BY <1>0, <1>2 DEF CapFlush, capWires
  <1>3. ASSUME NEW n \in CapIds,
               CapBatch(n) \/ CapEnds(n) \/ CapAgentStops(n) \/ CapAgentCloses(n)
        PROVE  CapCallTypes'
    BY <1>0, <1>3 DEF CapBatch, CapEnds, CapAgentStops, CapAgentCloses, CapCancel, capSession, capWires
  <1>4. ASSUME NEW k \in CapIds, CapStarts(k) PROVE CapCallTypes'
    <2>1. CASE capCurrent # 0
      <3>1. [pc |-> "stops", id |-> capCurrent] \in CapStarted BY <1>0, CapStartNew
      <3> QED BY <1>0, <1>4, <1>i, <2>1, <3>1 DEF CapStarts, CapStopNow, capWires
    <2>2. CASE capCurrent = 0
      <3>1. [pc |-> "asked", id |-> 0] \in CapStarted BY <1>i, CapStartNew
      <3> QED BY <1>0, <1>4, <1>i, <2>2, <3>1 DEF CapStarts, capWires
    <2> QED BY <2>1, <2>2
  <1>5. ASSUME NEW k \in CapIds, CapBegins(k) PROVE CapCallTypes'
    <2>1. PICK n \in CapIds :
            n = CHOOSE m \in CapIds :
                  capTask[m] = "none" /\ \A j \in 1 .. m - 1 : capTask[j] # "none"
      BY <1>5, CapNextOne DEF CapBegins
    <2>2. n \in 0..CapMax BY DEF CapIds
    <2>3. [pc |-> "answered", id |-> n] \in CapStarted /\ [pc |-> "answered", id |-> 0] \in CapStarted
      BY <1>i, <2>2, CapStartNew
    <2>4. UNCHANGED <<capNews, capStop, capClose, capCurrent, capActive, capStarting>>
      BY <1>5 DEF CapBegins, capWires, capSession
    <2>5. \/ /\ capTask' = [capTask EXCEPT ![n] = "runs"] /\ capOpen' = [capOpen EXCEPT ![n] = TRUE]
             /\ capStart' = [capStart EXCEPT ![k] = [pc |-> "answered", id |-> n]]
          \/ /\ capTask' = capTask /\ capOpen' = capOpen
             /\ capStart' = [capStart EXCEPT ![k] = [pc |-> "answered", id |-> 0]]
      BY <1>5, <2>1 DEF CapBegins
    <2>6. capStart' \in [CapIds -> CapStarted] BY <1>0, <2>3, <2>5
    <2>7. capTask' \in [CapIds -> {"none", "runs", "cancelled", "ended"}] BY <1>0, <2>5
    <2>8. capOpen' \in [CapIds -> BOOLEAN] BY <1>0, <2>5
    <2> QED BY <1>0, <2>4, <2>6, <2>7, <2>8
  <1>6. ASSUME NEW k \in CapIds, CapAnswered(k) PROVE CapCallTypes'
    <2>1. [capStart[k] EXCEPT !.pc = "over"] \in CapStarted /\ capStart[k].id \in 0..CapMax
      BY <1>0, CapStartIs
    <2>2. /\ capStart' = [capStart EXCEPT ![k] = [capStart[k] EXCEPT !.pc = "over"]]
          /\ capCurrent' = capStart[k].id /\ capActive' \in BOOLEAN /\ capStarting' = FALSE
          /\ UNCHANGED <<capTask, capOpen, capNews, capStop, capClose>>
      BY <1>6 DEF CapAnswered, capWires
    <2> QED BY <1>0, <2>1, <2>2
  <1>7. ASSUME NEW n \in CapIds, CapStopTaken(n) PROVE CapCallTypes'
    BY <1>0, <1>7 DEF CapStopTaken, CapCancel, capSession, capWires
  <1>8. ASSUME NEW n \in CapIds, CapStopAnswered(n) PROVE CapCallTypes'
    <2> DEFINE waiting == {k \in CapIds : capStart[k] = [pc |-> "stops", id |-> n]}
    <2>1. capStart' = capStart \/
          capStart' = [k \in CapIds |-> IF k \in waiting THEN [pc |-> "asked", id |-> 0]
                                        ELSE capStart[k]] BY <1>8 DEF CapStopAnswered
    <2>2. capStart' \in [CapIds -> CapStarted]
      <3>1. [pc |-> "asked", id |-> 0] \in CapStarted BY <1>i, CapStartNew
      <3> QED BY <1>0, <2>1, <3>1
    <2>3. capActive' = capActive \/ capActive' = FALSE BY <1>8 DEF CapStopAnswered
    <2>4. UNCHANGED <<capTask, capOpen, capNews, capCurrent, capStarting>>
      BY <1>8 DEF CapStopAnswered, capWires
    <2>5. /\ capStop' = [capStop EXCEPT ![n] = "no"]
          /\ capClose' = [capClose EXCEPT ![n] = IF @ = "stops" THEN "sent" ELSE @]
      BY <1>8 DEF CapStopAnswered
    <2> QED BY <1>0, <2>2, <2>3, <2>4, <2>5
  <1>9. ASSUME NEW n \in CapIds, CapClosing(n) PROVE CapCallTypes'
    BY <1>0, <1>9, <1>i DEF CapClosing, CapStopNow, capWires
  <1>10. ASSUME NEW n \in CapIds, CapClosed(n) PROVE CapCallTypes'
    BY <1>0, <1>10 DEF CapClosed, CapCancel, capSession, capWires
  <1>11. ASSUME NEW n \in CapIds, CapCloseAnswered(n) \/ CapHearClosed(n) PROVE CapCallTypes'
    BY <1>0, <1>11 DEF CapCloseAnswered, CapHearClosed, capSession, capWires
  <1>12. ASSUME NEW n \in CapIds, CapHear(n) PROVE CapCallTypes'
    BY <1>0, <1>12, <1>i, CapHearCases DEF CapHearBatch, CapHearUpdate, CapHearStopped
  <1> QED BY <1>1, <1>2, <1>3, <1>4, <1>5, <1>6, <1>7, <1>8, <1>9, <1>10, <1>11, <1>12 DEF CapNext

LEMMA CapStatusTypesStep ==
  ASSUME CapInv, CapNext PROVE CapStatusTypes'
  <1> USE CapAssumption DEF CapStatusTypes
  <1>0. CapStatusTypes /\ CapCallTypes /\ 0 \in 0..CapMax /\ 0 \in Nat BY DEF CapInv, CapTypes
  <1>1. CASE CapStops \/ CapFlush BY <1>0, <1>1 DEF CapStops, CapFlush
  <1>2. ASSUME NEW n \in CapIds,
               \/ CapBatch(n) \/ CapEnds(n) \/ CapAgentStops(n) \/ CapAgentCloses(n)
               \/ CapBegins(n) \/ CapStopTaken(n) \/ CapClosing(n)
               \/ CapClosed(n) \/ CapCloseAnswered(n) \/ CapHearClosed(n)
        PROVE  CapStatusTypes'
    BY <1>0, <1>2 DEF CapBatch, CapEnds, CapAgentStops, CapAgentCloses, CapBegins, CapStopTaken,
      CapClosing, CapClosed, CapCloseAnswered, CapHearClosed, capSession
  <1>3. ASSUME NEW k \in CapIds, CapStarts(k) \/ CapStopAnswered(k) PROVE CapStatusTypes'
    <2>1. \/ capStatus' = capStatus \/ capStatus' = CapStatus("starting", 0, 0)
          \/ capStatus' = CapStatus("stopped", k, 0) BY <1>3 DEF CapStarts, CapStopAnswered
    <2>2. k \in 0..CapMax BY DEF CapIds
    <2> QED BY <1>0, <2>1, <2>2, CapStatusTyped
  <1>4. ASSUME NEW k \in CapIds, CapAnswered(k) PROVE CapStatusTypes'
    <2>1. capStart[k].id \in 0..CapMax BY <1>0, CapStartIs
    <2>2. \/ capStatus' = CapStatus("error", 0, 0)
          \/ capStatus' = CapStatus("streaming", capStart[k].id, 0) BY <1>4 DEF CapAnswered
    <2> QED BY <1>0, <2>1, <2>2, CapStatusTyped
  <1>5. ASSUME NEW n \in CapIds, CapHear(n) PROVE CapStatusTypes'
    <2>1. Head(capChan[n]).total \in Nat /\ n \in 0..CapMax
      BY <1>5, CapHeardChan, CapMessage DEF CapIds
    <2>2. \/ capStatus' = capStatus \/ capStatus' = CapStatus("stopped", n, 0)
          \/ capStatus' = CapStatus("streaming", n, Head(capChan[n]).total)
      BY <1>5, CapHearCases DEF CapHearBatch, CapHearUpdate, CapHearStopped
    <2> QED BY <1>0, <2>1, <2>2, CapStatusTyped
  <1> QED BY <1>1, <1>2, <1>3, <1>4, <1>5 DEF CapNext

\* Nothing but these moves the lines and the messages.
LEMMA CapWiresStay ==
  ASSUME CapNext
  PROVE  \/ UNCHANGED <<capTotal, capChan>>
         \/ \E n \in CapIds : CapBatch(n) \/ CapEnds(n) \/ CapHear(n)
  <1>1. CASE CapStops \/ CapFlush BY <1>1 DEF CapStops, CapFlush, capBack, capWires
  <1>2. ASSUME NEW n \in CapIds,
               \/ CapAgentStops(n) \/ CapAgentCloses(n) \/ CapStarts(n) \/ CapBegins(n)
               \/ CapAnswered(n)
        PROVE  UNCHANGED <<capTotal, capChan>>
    BY <1>2 DEF CapAgentStops, CapAgentCloses, CapStarts, CapBegins, CapAnswered, capBack, capWires
  <1>3. ASSUME NEW n \in CapIds,
               \/ CapStopTaken(n) \/ CapStopAnswered(n) \/ CapClosing(n) \/ CapClosed(n)
               \/ CapCloseAnswered(n) \/ CapHearClosed(n)
        PROVE  UNCHANGED <<capTotal, capChan>>
    BY <1>3 DEF CapStopTaken, CapStopAnswered, CapClosing, CapClosed, CapCloseAnswered,
      CapHearClosed, capBack, capWires
  <1> QED BY <1>1, <1>2, <1>3 DEF CapNext

LEMMA CapWireTypesStep ==
  ASSUME CapInv, CapNext PROVE CapWireTypes'
  <1>0. CapWireTypes BY DEF CapInv, CapTypes
  <1>1. CASE UNCHANGED <<capTotal, capChan>> BY <1>0, <1>1 DEF CapWireTypes
  <1>2. ASSUME NEW n \in CapIds, CapBatch(n) PROVE CapWireTypes'
    BY <1>0, <1>2, CapBatchChan DEF CapWireTypes
  <1>3. ASSUME NEW n \in CapIds, CapEnds(n) PROVE CapWireTypes'
    <2>1. capTotal' = capTotal BY <1>3 DEF CapEnds
    <2> QED BY <1>0, <1>3, <2>1, CapEndsChan DEF CapWireTypes
  <1>4. ASSUME NEW n \in CapIds, CapHear(n) PROVE CapWireTypes'
    <2>1. capTotal' = capTotal BY <1>4 DEF CapHear, capBack
    <2> QED BY <1>0, <1>4, <2>1, CapHeardChan DEF CapWireTypes
  <1> QED BY <1>1, <1>2, <1>3, <1>4, CapWiresStay

\* Lines are never taken back.
LEMMA CapTotalsGrow ==
  ASSUME CapInv, CapNext
  PROVE  \A n \in CapIds : capTotal[n] \in Nat /\ capTotal'[n] \in Nat /\ capTotal[n] <= capTotal'[n]
  <1> USE CapAssumption
  <1>0. CapWireTypes BY DEF CapInv, CapTypes
  <1>1. capTotal' = capTotal \/ \E n \in CapIds : CapBatch(n)
    BY CapWiresStay DEF CapEnds, CapHear, capBack
  <1>2. ASSUME NEW n \in CapIds, CapBatch(n), NEW m \in CapIds PROVE capTotal'[m] \in {capTotal[m], capTotal[m] + 1}
    BY <1>2, CapBatchChan
  <1> QED BY <1>0, <1>1, <1>2 DEF CapWireTypes

LEMMA CapUpdateTypesStep ==
  ASSUME CapInv, CapNext PROVE CapUpdateTypes'
  <1>0. CapUpdateTypes BY DEF CapInv, CapTypes
  <1>1. ASSUME capUpdates' = capUpdates PROVE CapUpdateTypes'
    <2> SUFFICES ASSUME NEW j \in DOMAIN capUpdates
                 PROVE  capUpdates[j].total <= capTotal'[capUpdates[j].id]
      BY <1>0, <1>1 DEF CapUpdateTypes
    <2>1. /\ capUpdates[j] \in CapCounts
          /\ capUpdates[j].total <= capTotal[capUpdates[j].id] BY <1>0 DEF CapUpdateTypes
    <2>2. capUpdates[j].id \in CapIds /\ capUpdates[j].total \in Nat BY <2>1 DEF CapCounts
    <2> QED BY <2>1, <2>2, CapTotalsGrow
  <1>2. ASSUME NEW n \in CapIds, CapHear(n), capActive, capCurrent = n,
               Head(capChan[n]).ev = "update", CapHearUpdate(n, Head(capChan[n]).total)
        PROVE  CapUpdateTypes'
    <2> DEFINE u == [id |-> n, total |-> Head(capChan[n]).total]
    <2>1. Head(capChan[n]).total \in Nat /\ Head(capChan[n]).total <= capTotal[n]
      BY <1>2, CapHeardChan, CapMessage
    <2>2. capUpdates' = Append(capUpdates, u) /\ capTotal' = capTotal
      BY <1>2 DEF CapHearUpdate, CapHear, capBack
    <2>3. u \in CapCounts /\ u.total <= capTotal[u.id] BY <2>1 DEF CapCounts
    <2> HIDE DEF u
    <2>4. capUpdates \in Seq(CapCounts) BY <1>0 DEF CapUpdateTypes
    <2>5. capUpdates' \in Seq(CapCounts) BY <2>2, <2>3, <2>4
    <2>6. \A j \in DOMAIN capUpdates' : (j \in DOMAIN capUpdates /\ capUpdates'[j] = capUpdates[j]) \/ capUpdates'[j] = u
      BY <2>2, <2>3, <2>4
    <2> QED BY <1>0, <2>2, <2>3, <2>5, <2>6 DEF CapUpdateTypes
  <1>3. CASE CapFlush BY <1>3 DEF CapFlush, CapUpdateTypes
  <1>4. ASSUME NEW n \in CapIds, CapHear(n) PROVE CapUpdateTypes'
    BY <1>1, <1>2, <1>4, CapHearCases DEF CapHearBatch, CapHearStopped
  <1>5. CASE CapStops BY <1>1, <1>5 DEF CapStops
  <1>6. ASSUME NEW n \in CapIds,
               \/ CapBatch(n) \/ CapEnds(n) \/ CapAgentStops(n) \/ CapAgentCloses(n)
               \/ CapStarts(n) \/ CapBegins(n) \/ CapAnswered(n)
        PROVE  capUpdates' = capUpdates
    BY <1>6 DEF CapBatch, CapEnds, CapAgentStops, CapAgentCloses, CapStarts, CapBegins, CapAnswered,
      capSession
  <1>7. ASSUME NEW n \in CapIds,
               \/ CapStopTaken(n) \/ CapStopAnswered(n) \/ CapClosing(n)
               \/ CapClosed(n) \/ CapCloseAnswered(n) \/ CapHearClosed(n)
        PROVE  capUpdates' = capUpdates
    BY <1>7 DEF CapStopTaken, CapStopAnswered, CapClosing, CapClosed, CapCloseAnswered,
      CapHearClosed, capSession
  <1> QED BY <1>1, <1>3, <1>4, <1>5, <1>6, <1>7 DEF CapNext

\* Only these touch the entries.
LEMMA CapEntriesStay ==
  ASSUME CapNext
  PROVE  \/ capEntry' = capEntry
         \/ CapFlush
         \/ \E n \in CapIds : \/ CapAnswered(n) \/ CapStopAnswered(n) \/ CapCloseAnswered(n)
                              \/ CapHearClosed(n) \/ CapHear(n)
  <1>1. CASE CapStops BY <1>1 DEF CapStops
  <1>2. ASSUME NEW n \in CapIds,
               \/ CapBatch(n) \/ CapEnds(n) \/ CapAgentStops(n) \/ CapAgentCloses(n)
               \/ CapStarts(n) \/ CapBegins(n) \/ CapStopTaken(n) \/ CapClosing(n) \/ CapClosed(n)
        PROVE  capEntry' = capEntry
    BY <1>2 DEF CapBatch, CapEnds, CapAgentStops, CapAgentCloses, CapStarts, CapBegins,
      CapStopTaken, CapClosing, CapClosed
  <1> QED BY <1>1, <1>2 DEF CapNext

\* The update that is flushed last is the last of the capture's.
LEMMA CapFlushed ==
  ASSUME CapInv, capUpdates # <<>>
  PROVE  /\ Len(capUpdates) \in Nat \ {0} /\ 1 \in DOMAIN capUpdates
         /\ Len(capUpdates) \in DOMAIN capUpdates
         /\ capUpdates[1].id \in CapIds /\ capUpdates[Len(capUpdates)].id = capUpdates[1].id
         /\ capUpdates[Len(capUpdates)].total \in Nat
         /\ capUpdates[Len(capUpdates)].total <= capTotal[capUpdates[1].id]
  <1>1. capUpdates \in Seq(CapCounts) BY DEF CapInv, CapTypes, CapUpdateTypes
  <1>2. /\ Len(capUpdates) \in Nat \ {0} /\ 1 \in DOMAIN capUpdates
        /\ Len(capUpdates) \in DOMAIN capUpdates BY <1>1
  <1>3. capUpdates[1] \in CapCounts /\ capUpdates[Len(capUpdates)] \in CapCounts BY <1>1, <1>2
  <1>4. capUpdates[Len(capUpdates)].id = capUpdates[1].id BY <1>2 DEF CapInv, CapCountInv
  <1>5. capUpdates[Len(capUpdates)].total <= capTotal[capUpdates[Len(capUpdates)].id]
    BY <1>2 DEF CapInv, CapTypes, CapUpdateTypes
  <1>6. capUpdates[1].id \in CapIds /\ capUpdates[Len(capUpdates)].total \in Nat
    BY <1>3 DEF CapCounts
  <1> QED BY <1>2, <1>4, <1>5, <1>6

LEMMA CapCountIs ==
  ASSUME NEW e \in [CapIds -> CapEntries], NEW n \in CapIds, NEW t \in Nat, NEW f,
         f = [e EXCEPT ![n].count = t]
  PROVE  /\ f \in [CapIds -> CapEntries] /\ \A m \in CapIds : m # n => f[m] = e[m]
         /\ f[n].shown = e[n].shown /\ f[n].live = e[n].live /\ f[n].total = e[n].total
         /\ f[n].count = t BY DEF CapEntries

LEMMA CapEntryTypesStep ==
  ASSUME CapInv, CapNext PROVE CapEntryTypes'
  <1>0. capEntry \in [CapIds -> CapEntries] BY DEF CapInv, CapTypes, CapEntryTypes
  <1>1. \A n \in CapIds : capEntry[n].total <= capTotal[n] /\ capEntry[n].count <= capTotal[n]
    BY DEF CapInv, CapTypes, CapEntryTypes
  <1>2. \A n \in CapIds : capEntry[n].total \in Nat /\ capEntry[n].count \in Nat
    BY <1>0 DEF CapEntries
  <1>3. ASSUME capEntry' \in [CapIds -> CapEntries],
               \A n \in CapIds : /\ capEntry'[n].total <= capTotal[n]
                                 /\ capEntry'[n].count <= capTotal[n]
        PROVE  CapEntryTypes'
    <2>1. \A n \in CapIds : capEntry'[n].total \in Nat /\ capEntry'[n].count \in Nat
      BY <1>3 DEF CapEntries
    <2>2. \A n \in CapIds : capEntry'[n].total <= capTotal'[n] /\ capEntry'[n].count <= capTotal'[n]
      BY <1>3, <2>1, CapTotalsGrow
    <2> QED BY <1>3, <2>2 DEF CapEntryTypes
  <1>4. CASE capEntry' = capEntry BY <1>0, <1>1, <1>3, <1>4
  <1>5. CASE CapFlush
    <2> DEFINE n == capUpdates[1].id
               t == capUpdates[Len(capUpdates)].total
    <2>1. n \in CapIds /\ t \in Nat /\ t <= capTotal[n] BY <1>5, CapFlushed DEF CapFlush
    <2>2. capEntry' = capEntry \/ capEntry' = [capEntry EXCEPT ![n].count = t] BY <1>5 DEF CapFlush
    <2> HIDE DEF n, t
    <2> QED BY <1>0, <1>1, <1>3, <1>4, <2>1, <2>2, CapCountIs
  <1>6. \A n \in CapIds : capTotal[n] \in Nat BY CapTotalsGrow
  <1>7. ASSUME NEW k \in CapIds, CapAnswered(k) PROVE CapEntryTypes'
    <2>1. capStart[k].id \in CapIds \/ capStart[k].id = 0
      BY <1>7 DEF CapAnswered, CapInv, CapStartInv
    <2>2. CASE capStart[k].id = 0 BY <1>4, <1>7, <2>2 DEF CapAnswered
    <2>3. CASE capStart[k].id # 0
      <3>1. capStart[k].id \in CapIds BY <2>1, <2>3
      <3>2. capEntry' = CapShow(capEntry, capStart[k].id, 0) BY <1>7, <2>3 DEF CapAnswered
      <3> DEFINE n == capStart[k].id
      <3> HIDE DEF n
      <3>3. n \in CapIds /\ capEntry' = CapShow(capEntry, n, 0) BY <3>1, <3>2 DEF n
      <3>4. /\ capEntry'[n].total = 0
            /\ capEntry'[n].count = IF capEntry[n].shown THEN capEntry[n].count ELSE 0
            /\ capEntry' \in [CapIds -> CapEntries]
            /\ \A m \in CapIds : m # n => capEntry'[m] = capEntry[m] BY <1>0, <3>3, CapShowIs
      <3>5. \A m \in CapIds : capEntry'[m].total <= capTotal[m] /\ capEntry'[m].count <= capTotal[m]
        BY <1>1, <1>6, <3>3, <3>4
      <3> QED BY <1>3, <3>4, <3>5
    <2> QED BY <2>2, <2>3
  <1>8. ASSUME NEW n \in CapIds, CapStopAnswered(n) PROVE CapEntryTypes'
    <2>1. capEntry' = CapQuietened(capEntry, n) BY <1>8 DEF CapStopAnswered
    <2> QED BY <1>0, <1>1, <1>3, <2>1, CapQuietenedIs
  <1>9. ASSUME NEW n \in CapIds, CapCloseAnswered(n) \/ CapHearClosed(n) PROVE CapEntryTypes'
    BY <1>0, <1>1, <1>3, <1>6, <1>9, CapDroppedIs, CapNoEntryIs DEF CapCloseAnswered, CapHearClosed
  <1>10. ASSUME NEW n \in CapIds, CapHear(n) PROVE CapEntryTypes'
    <2>1. /\ Head(capChan[n]).total \in Nat
          /\ Head(capChan[n]).total <= capTotal[n] BY <1>10, CapHeardChan, CapMessage
    <2>2. \/ capEntry' = capEntry \/ capEntry' = CapQuietened(capEntry, n)
          \/ capEntry' = CapShow(capEntry, n, Head(capChan[n]).total)
      BY <1>10, CapHearCases DEF CapHearBatch, CapHearUpdate, CapHearStopped
    <2>3. CASE capEntry' = CapQuietened(capEntry, n) BY <1>0, <1>1, <1>3, <2>3, CapQuietenedIs
    <2>4. CASE capEntry' = CapShow(capEntry, n, Head(capChan[n]).total)
      BY <1>0, <1>1, <1>3, <1>6, <2>1, <2>4, CapShowIs
    <2> QED BY <1>4, <2>2, <2>3, <2>4
  <1> QED BY <1>4, <1>5, <1>7, <1>8, <1>9, <1>10, CapEntriesStay

LEMMA CapTypesStep ==
  ASSUME CapInv, CapNext PROVE CapTypes'
  BY CapCallTypesStep, CapStatusTypesStep, CapWireTypesStep, CapUpdateTypesStep, CapEntryTypesStep
    DEF CapTypes

----------------------------------------
\* One start at a time.
LEMMA CapStartStep ==
  ASSUME CapInv, CapNext PROVE CapStartInv'
  <1> USE DEF CapInFlight
  <1>0. CapStartInv /\ CapCallTypes BY DEF CapInv, CapTypes
  <1>a. \A k \in CapIds : capStart[k].pc \in {"none", "stops", "asked", "answered", "over"}
    BY <1>0, CapStartIs
  <1>1. ASSUME UNCHANGED <<capStart, capStarting>>,
               \A n \in CapIds : (capTask'[n] = "none" <=> capTask[n] = "none"),
               \A n \in CapIds : capStop[n] # "no" => capStop'[n] # "no"
        PROVE  CapStartInv' BY <1>0, <1>1 DEF CapStartInv
  <1>2. CASE CapStops \/ CapFlush
    BY <1>0, <1>1, <1>2 DEF CapStops, CapFlush, CapStopNow, capBack, capCalls, CapCallTypes
  <1>3. ASSUME NEW n \in CapIds,
               \/ CapBatch(n) \/ CapEnds(n) \/ CapAgentStops(n) \/ CapAgentCloses(n)
               \/ CapStopTaken(n) \/ CapClosed(n) \/ CapCloseAnswered(n) \/ CapHearClosed(n)
        PROVE  CapStartInv'
    <2>1. UNCHANGED <<capStart, capStarting>>
      BY <1>3 DEF CapBatch, CapEnds, CapAgentStops, CapAgentCloses, CapStopTaken, CapClosed,
        CapCloseAnswered, CapHearClosed, capCalls, capSession
    <2>2. capStop' = capStop \/ capStop' = [capStop EXCEPT ![n] = "answered"]
      BY <1>3 DEF CapBatch, CapEnds, CapAgentStops, CapAgentCloses, CapStopTaken, CapClosed,
        CapCloseAnswered, CapHearClosed, capCalls
    <2>3. CASE CapBatch(n) \/ CapCloseAnswered(n) \/ CapHearClosed(n)
      <3>1. capTask' = capTask BY <2>3 DEF CapBatch, CapCloseAnswered, CapHearClosed, capBack
      <3> QED BY <1>0, <1>1, <2>1, <2>2, <3>1 DEF CapCallTypes
    <2>4. CASE CapEnds(n)
      <3>1. capTask[n] # "none" /\ capTask' = [capTask EXCEPT ![n] = "ended"] BY <2>4 DEF CapEnds
      <3> QED BY <1>0, <1>1, <2>1, <2>2, <3>1 DEF CapCallTypes
    <2>5. CASE CapAgentStops(n) \/ CapAgentCloses(n) \/ CapStopTaken(n) \/ CapClosed(n)
      <3>1. capTask' = [capTask EXCEPT ![n] = IF @ = "runs" THEN "cancelled" ELSE @]
        BY <2>5 DEF CapAgentStops, CapAgentCloses, CapStopTaken, CapClosed, CapCancel
      <3> QED BY <1>0, <1>1, <2>1, <2>2, <3>1 DEF CapCallTypes
    <2> QED BY <1>3, <2>3, <2>4, <2>5
  <1>4. ASSUME NEW n \in CapIds, CapClosing(n) PROVE CapStartInv'
    BY <1>0, <1>1, <1>4 DEF CapClosing, CapStopNow, capBack, CapCallTypes
  <1>5. ASSUME NEW n \in CapIds, CapHear(n) PROVE CapStartInv' BY <1>0, <1>1, <1>5, CapHearCases
  <1>6. ASSUME NEW k \in CapIds, CapStarts(k) PROVE CapStartInv'
    <2>1. \A j \in CapIds : ~CapInFlight(j) BY <1>0, <1>6 DEF CapStarts, CapMayStart, CapStartInv
    <2>2. /\ \A j \in CapIds : j # k => capStart'[j] = capStart[j]
          /\ capStart'[k].pc \in {"stops", "asked"}
          /\ capStart'[k].pc = "stops" => capStart'[k].id = capCurrent /\ capCurrent # 0
          /\ capStarting' /\ capTask' = capTask
          /\ capStart[k].pc = "none" /\ \A j \in 1 .. k - 1 : capStart[j].pc # "none"
      BY <1>0, <1>6 DEF CapStarts, capBack, CapCallTypes
    <2>3. capCurrent # 0 => capCurrent \in CapIds /\ capStop' = [capStop EXCEPT ![capCurrent] = "sent"]
      BY <1>0, <1>6, CapAssumption DEF CapStarts, CapStopNow, CapCallTypes, CapIds
    <2>4. \A j \in CapIds : j < k => capStart[j].pc # "none" BY <2>2, CapAssumption DEF CapIds
    <2>5. capStart'[k].pc = "stops" => capStart'[k].id \in CapIds /\ capStop'[capStart'[k].id] # "no"
      BY <1>0, <2>2, <2>3 DEF CapCallTypes
    <2>6. \A j \in CapIds : capStart[j].pc # "stops" /\ capStart[j].pc # "answered" BY <2>1
    <2>7. \A i, j \in CapIds : i < j /\ capStart'[j].pc # "none" => capStart'[i].pc # "none"
      BY <1>0, <2>2, <2>4 DEF CapStartInv
    <2>8. \E b \in 0..CapMax : \A n \in CapIds : capTask'[n] = "none" <=> n > b
      BY <1>0, <2>2 DEF CapStartInv
    <2>9. \A n \in CapIds : capTask'[n] # "none" => capStart'[n].pc \in {"answered", "over"}
      BY <1>0, <2>2 DEF CapStartInv
    <2> QED BY <2>1, <2>2, <2>5, <2>6, <2>7, <2>8, <2>9 DEF CapStartInv
  <1>7. ASSUME NEW k \in CapIds, CapBegins(k) PROVE CapStartInv'
    <2>1. PICK n \in CapIds :
           /\ n = CHOOSE m \in CapIds :
                    capTask[m] = "none" /\ \A j \in 1 .. m - 1 : capTask[j] # "none"
           /\ capTask[n] = "none" /\ n <= k
           /\ \A m \in CapIds : (capTask[m] = "none" <=> m >= n) BY <1>7, CapNextOne DEF CapBegins
    <2>2. /\ capStart[k].pc = "asked"
          /\ \/ /\ capTask' = [capTask EXCEPT ![n] = "runs"]
                /\ capStart' = [capStart EXCEPT ![k] = [pc |-> "answered", id |-> n]]
             \/ /\ capTask' = capTask
                /\ capStart' = [capStart EXCEPT ![k] = [pc |-> "answered", id |-> 0]]
          /\ UNCHANGED <<capStop, capStarting>> BY <1>7, <2>1 DEF CapBegins, capSession
    <2>a. capTask[n] = "none" /\ n <= k /\ \A m \in CapIds : (capTask[m] = "none" <=> m >= n)
      BY <2>1
    <2>b. \A m \in CapIds : m \in Nat BY CapAssumption DEF CapIds
    <2>3. /\ capTask[n] = "none" /\ n <= k /\ n \in CapIds /\ n \in Nat /\ k \in Nat
          /\ \A m \in CapIds : (capTask[m] = "none" <=> m >= n) /\ m \in Nat BY <2>a, <2>b
    <2>4. /\ \A j \in CapIds : j # k => capStart'[j] = capStart[j] /\ ~CapInFlight(j)
          /\ capStart'[k].pc = "answered" /\ capStart[k].pc = "asked" /\ capStarting
      BY <1>0, <2>2 DEF CapCallTypes, CapStartInv
    <2>5. \A j \in CapIds : j < k => capStart[j].pc = "over"
      BY <1>0, <1>a, <2>2, <2>4, CapAssumption DEF CapStartInv, CapIds
    <2>6. \E b \in 0..CapMax : \A m \in CapIds : capTask'[m] = "none" <=> m > b
      <3>1. CASE capTask' = capTask BY <1>0, <3>1 DEF CapStartInv
      <3>2. CASE capTask' = [capTask EXCEPT ![n] = "runs"]
        <4>1. \A m \in CapIds : (m > n <=> m >= n /\ m # n) BY <2>3
        <4>2. \A m \in CapIds : capTask'[m] = "none" <=> m > n
          BY <1>0, <2>3, <3>2, <4>1 DEF CapCallTypes
        <4>3. n \in 0..CapMax BY <2>3, CapAssumption DEF CapIds
        <4> QED BY <4>2, <4>3
      <3> QED BY <2>2, <3>1, <3>2
    <2>7. \A m \in CapIds : capTask'[m] # "none" => capStart'[m].pc \in {"answered", "over"}
      <3>1. \A m \in CapIds : capTask[m] # "none" => capStart'[m].pc \in {"answered", "over"}
        BY <1>0, <2>4 DEF CapStartInv
      <3>2. capStart'[n].pc \in {"answered", "over"}
        <4>1. CASE n = k BY <2>4, <4>1
        <4>2. CASE n # k BY <2>3, <2>4, <2>5, <4>2
        <4> QED BY <4>1, <4>2
      <3>3. \A m \in CapIds : m # n => capTask'[m] = capTask[m] BY <1>0, <2>2 DEF CapCallTypes
      <3> QED BY <3>1, <3>2, <3>3
    <2>8. /\ capStart'[k].id = 0 \/ (capStart'[k].id \in CapIds /\ capTask'[capStart'[k].id] # "none")
      BY <1>0, <2>2, <2>3 DEF CapCallTypes
    <2>9. \A i, j \in CapIds : i < j /\ capStart'[j].pc # "none" => capStart'[i].pc # "none"
      BY <1>0, <2>4 DEF CapStartInv
    <2> QED BY <1>0, <2>2, <2>4, <2>6, <2>7, <2>8, <2>9 DEF CapStartInv
  <1>8. ASSUME NEW k \in CapIds, CapAnswered(k) PROVE CapStartInv'
    <2>1. /\ \A j \in CapIds : j # k => capStart'[j] = capStart[j] /\ ~CapInFlight(j)
          /\ capStart'[k].pc = "over" /\ UNCHANGED <<capTask, capStop>>
          /\ capStart[k].pc = "answered"
      <3>1. capStart[k].pc = "answered" /\ UNCHANGED <<capTask, capStop>>
        BY <1>8 DEF CapAnswered, capBack
      <3>2. \A j \in CapIds : j # k => ~CapInFlight(j) BY <1>0, <3>1 DEF CapStartInv
      <3>3. capStart' = [capStart EXCEPT ![k] = [capStart[k] EXCEPT !.pc = "over"]]
        BY <1>8 DEF CapAnswered
      <3>4. capStart[k] \in CapStarted BY <1>0 DEF CapCallTypes
      <3>5. capStart' \in [CapIds -> CapStarted] /\ capStart'[k].pc = "over"
        BY <1>0, <3>3, <3>4 DEF CapCallTypes, CapStarted
      <3>6. \A j \in CapIds : j # k => capStart'[j] = capStart[j] BY <1>0, <3>3 DEF CapCallTypes
      <3> QED BY <3>1, <3>2, <3>5, <3>6
    <2> QED BY <1>0, <2>1 DEF CapStartInv
  <1>9. ASSUME NEW n \in CapIds, CapStopAnswered(n) PROVE CapStartInv'
    <2> DEFINE waiting == {k \in CapIds : capStart[k] = [pc |-> "stops", id |-> n]}
    <2>1. /\ \A k \in CapIds : \/ capStart'[k] = capStart[k] /\ k \notin waiting
                               \/ k \in waiting /\ capStart'[k].pc = "asked"
          /\ capStop' = [capStop EXCEPT ![n] = "no"] /\ UNCHANGED <<capTask, capStarting>>
      <3>1. capStop' = [capStop EXCEPT ![n] = "no"] /\ UNCHANGED <<capTask, capStarting>>
        BY <1>9 DEF CapStopAnswered, capBack
      <3>2. CASE waiting = {}
        <4>1. capStart' = capStart BY <1>9, <3>2 DEF CapStopAnswered
        <4> HIDE DEF waiting
        <4> QED BY <3>1, <3>2, <4>1
      <3>3. CASE waiting # {}
        <4>1. capStart' = [k \in CapIds |-> IF k \in waiting THEN [pc |-> "asked", id |-> 0]
                                            ELSE capStart[k]] BY <1>9, <3>3 DEF CapStopAnswered
        <4> HIDE DEF waiting
        <4>2. \A k \in CapIds : capStart'[k] = IF k \in waiting THEN [pc |-> "asked", id |-> 0]
                                                 ELSE capStart[k] BY <4>1
        <4> QED BY <3>1, <4>2
      <3> QED BY <3>1, <3>2, <3>3
    <2>2. \A k \in waiting : capStart[k].pc = "stops" OBVIOUS
    <2>3. \A k \in CapIds : capStart'[k].pc = "stops" =>
            capStart'[k] = capStart[k] /\ capStart[k].id # n
      <3>1. ASSUME NEW k \in CapIds, capStart[k].pc = "stops", capStart[k].id = n PROVE k \in waiting
        BY <1>0, <3>1 DEF CapCallTypes, CapStarted
      <3> QED BY <2>1, <3>1
    <2> HIDE DEF waiting
    <2> QED BY <1>0, <2>1, <2>2, <2>3 DEF CapStartInv, CapCallTypes
  <1> QED BY <1>2, <1>3, <1>4, <1>5, <1>6, <1>7, <1>8, <1>9 DEF CapNext

----------------------------------------
\* What the window has heard of stays heard of.
LEMMA CapTaskMoves ==
  ASSUME CapInv, CapNext, NEW n \in CapIds
  PROVE  \/ capTask'[n] = capTask[n] \/ (capTask[n] # "none" /\ capTask'[n] # "none")
         \/ \E k \in CapIds : CapBegins(k)
  <1>0. CapCallTypes BY DEF CapInv, CapTypes
  <1>1. CASE CapStops \/ CapFlush BY <1>1 DEF CapStops, CapFlush, capBack
  <1>2. ASSUME NEW m \in CapIds,
               \/ CapBatch(m) \/ CapCloseAnswered(m) \/ CapHearClosed(m) \/ CapStarts(m)
               \/ CapAnswered(m) \/ CapStopAnswered(m) \/ CapClosing(m) \/ CapHear(m)
        PROVE  capTask' = capTask
    BY <1>2 DEF CapBatch, CapCloseAnswered, CapHearClosed, CapStarts, CapAnswered, CapStopAnswered,
      CapClosing, CapHear, capBack
  <1>3. ASSUME NEW m \in CapIds, CapEnds(m) PROVE capTask[m] # "none" /\ capTask' = [capTask EXCEPT ![m] = "ended"]
    BY <1>3 DEF CapEnds
  <1>4. ASSUME NEW m \in CapIds,
               CapAgentStops(m) \/ CapAgentCloses(m) \/ CapStopTaken(m) \/ CapClosed(m)
        PROVE  capTask' = [capTask EXCEPT ![m] = IF @ = "runs" THEN "cancelled" ELSE @]
    BY <1>4 DEF CapAgentStops, CapAgentCloses, CapStopTaken, CapClosed, CapCancel
  <1> QED BY <1>0, <1>1, <1>2, <1>3, <1>4 DEF CapNext, CapCallTypes

LEMMA CapUnseenStays ==
  ASSUME CapInv, CapNext, NEW n \in CapIds, CapUnseen(n)'
  PROVE  CapUnseen(n)
  <1> USE DEF CapUnseen
  <1>0. CapCallTypes BY DEF CapInv, CapTypes
  <1>1. ASSUME NEW k \in CapIds, CapBegins(k) PROVE CapUnseen(n)
    <2>1. PICK m \in CapIds :
           /\ m = CHOOSE i \in CapIds :
                    capTask[i] = "none" /\ \A j \in 1 .. i - 1 : capTask[j] # "none"
           /\ capTask[m] = "none" BY <1>1, CapNextOne DEF CapBegins
    <2>2. /\ capTask[m] = "none"
          /\ \/ /\ capTask' = [capTask EXCEPT ![m] = "runs"]
                /\ capStart' = [capStart EXCEPT ![k] = [pc |-> "answered", id |-> m]]
             \/ /\ capTask' = capTask
                /\ capStart' = [capStart EXCEPT ![k] = [pc |-> "answered", id |-> 0]]
      BY <1>1, <2>1 DEF CapBegins
    <2>3. n # 0 BY CapAssumption DEF CapIds
    <2> QED BY <1>0, <2>2, <2>3 DEF CapCallTypes
  <1>2. ASSUME UNCHANGED capStart, capTask'[n] = capTask[n] \/ capTask'[n] # "none" PROVE CapUnseen(n)
    BY <1>2
  <1>3. CASE CapStops \/ CapFlush BY <1>2, <1>3 DEF CapStops, CapFlush, capBack, capCalls
  <1>4. ASSUME NEW k \in CapIds,
               \/ CapBatch(k) \/ CapEnds(k) \/ CapAgentStops(k) \/ CapAgentCloses(k)
               \/ CapStopTaken(k) \/ CapClosing(k) \/ CapClosed(k) \/ CapCloseAnswered(k)
               \/ CapHearClosed(k) \/ CapHear(k)
        PROVE  capStart' = capStart
    BY <1>4 DEF CapBatch, CapEnds, CapAgentStops, CapAgentCloses, CapStopTaken, CapClosing,
      CapClosed, CapCloseAnswered, CapHearClosed, CapHear, capCalls
  <1>5. ASSUME NEW k \in CapIds, CapStarts(k) \/ CapAnswered(k) \/ CapStopAnswered(k)
        PROVE  capTask' = capTask /\ \A j \in CapIds : capStart'[j].pc = "answered" => capStart'[j] = capStart[j]
    <2>1. capTask' = capTask BY <1>5 DEF CapStarts, CapAnswered, CapStopAnswered, capBack
    <2>2. CASE CapStarts(k) BY <1>0, <2>1, <2>2 DEF CapStarts, CapCallTypes
    <2>3. CASE CapAnswered(k)
      <3>1. capStart' = [capStart EXCEPT ![k] = [capStart[k] EXCEPT !.pc = "over"]]
        BY <2>3 DEF CapAnswered
      <3>2. capStart[k] \in CapStarted BY <1>0 DEF CapCallTypes
      <3>3. [capStart[k] EXCEPT !.pc = "over"].pc = "over" BY <3>2 DEF CapStarted
      <3> QED BY <1>0, <2>1, <3>1, <3>3 DEF CapCallTypes
    <2>4. CASE CapStopAnswered(k)
      <3> DEFINE waiting == {j \in CapIds : capStart[j] = [pc |-> "stops", id |-> k]}
      <3>1. capStart' = capStart \/
            capStart' = [j \in CapIds |-> IF j \in waiting THEN [pc |-> "asked", id |-> 0]
                                          ELSE capStart[j]] BY <2>4 DEF CapStopAnswered
      <3> HIDE DEF waiting
      <3> QED BY <2>1, <3>1
    <2> QED BY <1>5, <2>2, <2>3, <2>4
  <1> QED BY <1>1, <1>2, <1>3, <1>4, <1>5, CapTaskMoves DEF CapNext

\* Which calls of stop and of close there are, and where they stand.
LEMMA CapStopMoves ==
  ASSUME CapInv, CapNext, NEW n \in CapIds
  PROVE  \/ capStop'[n] = capStop[n]
         \/ capCurrent = n /\ capStop'[n] = "sent" /\ capCurrent' = 0
         \/ capStop[n] = "sent" /\ capStop'[n] = "answered" /\ CapStopTaken(n)
         \/ capStop'[n] = "no" /\ CapStopAnswered(n)
  <1>0. CapCallTypes BY DEF CapInv, CapTypes
  <1>1. ASSUME CapStopNow PROVE capStop'[n] = capStop[n] \/ (capCurrent = n /\ capStop'[n] = "sent" /\ capCurrent' = 0)
    BY <1>0, <1>1 DEF CapStopNow, CapCallTypes
  <1>2. CASE CapStops BY <1>1, <1>2 DEF CapStops
  <1>3. CASE CapFlush BY <1>3 DEF CapFlush, capCalls
  <1>4. ASSUME NEW m \in CapIds,
               \/ CapBatch(m) \/ CapEnds(m) \/ CapAgentStops(m) \/ CapAgentCloses(m)
               \/ CapBegins(m) \/ CapAnswered(m) \/ CapClosed(m) \/ CapCloseAnswered(m)
               \/ CapHearClosed(m) \/ CapHear(m)
        PROVE  capStop' = capStop
    BY <1>4 DEF CapBatch, CapEnds, CapAgentStops, CapAgentCloses, CapBegins, CapAnswered, CapClosed,
      CapCloseAnswered, CapHearClosed, CapHear, capCalls
  <1>5. ASSUME NEW m \in CapIds, CapStarts(m) \/ CapClosing(m)
        PROVE  CapStopNow \/ capStop' = capStop BY <1>5 DEF CapStarts, CapClosing
  <1>6. ASSUME NEW m \in CapIds, CapStopTaken(m)
        PROVE  capStop'[n] = capStop[n] \/ (m = n /\ capStop[n] = "sent" /\ capStop'[n] = "answered")
    BY <1>0, <1>6 DEF CapStopTaken, CapCallTypes
  <1>7. ASSUME NEW m \in CapIds, CapStopAnswered(m)
        PROVE  capStop'[n] = capStop[n] \/ (m = n /\ capStop'[n] = "no")
    BY <1>0, <1>7 DEF CapStopAnswered, CapCallTypes
  <1> QED BY <1>1, <1>2, <1>3, <1>4, <1>5, <1>6, <1>7 DEF CapNext

LEMMA CapCloseMoves ==
  ASSUME CapInv, CapNext, NEW n \in CapIds
  PROVE  \/ capClose'[n] = capClose[n]
         \/ capEntry[n].shown /\ capClose[n] = "no" /\ capClose'[n] # "answered"
         \/ capClose[n] = "stops" /\ capClose'[n] = "sent"
         \/ capClose[n] = "sent" /\ capClose'[n] = "answered" /\ CapClosed(n)
         \/ capClose'[n] = "no" /\ CapCloseAnswered(n)
  <1>0. CapCallTypes BY DEF CapInv, CapTypes
  <1>1. CASE CapStops \/ CapFlush BY <1>1 DEF CapStops, CapFlush, capCalls
  <1>2. ASSUME NEW m \in CapIds,
               \/ CapBatch(m) \/ CapEnds(m) \/ CapAgentStops(m) \/ CapAgentCloses(m) \/ CapStarts(m)
               \/ CapBegins(m) \/ CapAnswered(m) \/ CapStopTaken(m) \/ CapHearClosed(m) \/ CapHear(m)
        PROVE  capClose' = capClose
    BY <1>2 DEF CapBatch, CapEnds, CapAgentStops, CapAgentCloses, CapStarts, CapBegins, CapAnswered,
      CapStopTaken, CapHearClosed, CapHear, capCalls
  <1>3. ASSUME NEW m \in CapIds, CapStopAnswered(m)
        PROVE  capClose'[n] = capClose[n] \/ (capClose[n] = "stops" /\ capClose'[n] = "sent")
    BY <1>0, <1>3 DEF CapStopAnswered, CapCallTypes
  <1>4. ASSUME NEW m \in CapIds, CapClosing(m)
        PROVE  \/ capClose'[n] = capClose[n]
               \/ capEntry[n].shown /\ capClose[n] = "no" /\ capClose'[n] # "answered"
    BY <1>0, <1>4 DEF CapClosing, CapCallTypes
  <1>5. ASSUME NEW m \in CapIds, CapClosed(m)
        PROVE  capClose'[n] = capClose[n] \/ (capClose[n] = "sent" /\ capClose'[n] = "answered" /\ m = n)
    BY <1>0, <1>5 DEF CapClosed, CapCallTypes
  <1>6. ASSUME NEW m \in CapIds, CapCloseAnswered(m)
        PROVE  capClose'[n] = capClose[n] \/ (capClose'[n] = "no" /\ m = n)
    BY <1>0, <1>6 DEF CapCloseAnswered, CapCallTypes
  <1> QED BY <1>1, <1>2, <1>3, <1>4, <1>5, <1>6 DEF CapNext

\* How an entry changes.
LEMMA CapEntryMoves ==
  ASSUME CapInv, CapNext, NEW n \in CapIds
  PROVE  \/ capEntry'[n] = capEntry[n]
         \/ capEntry'[n] = CapNoEntry /\ (CapCloseAnswered(n) \/ CapHearClosed(n))
         \/ /\ ~capEntry'[n].live /\ capEntry'[n].shown = capEntry[n].shown
            /\ capEntry'[n].total = capEntry[n].total /\ capEntry'[n].count = capEntry[n].count
            /\ CapStopAnswered(n) \/ (capCurrent = n /\ capCurrent' = 0 /\ CapHear(n))
         \/ /\ capEntry'[n].shown /\ capEntry'[n].live = (capEntry[n].live \/ ~capEntry[n].shown)
            /\ capEntry'[n].count = IF capEntry[n].shown THEN capEntry[n].count ELSE 0
            /\ \/ /\ capEntry'[n].total = 0
                  /\ \E k \in CapIds : CapAnswered(k) /\ capStart[k].id = n
               \/ /\ capActive /\ capCurrent = n /\ CapHear(n) /\ Head(capChan[n]).ev = "batch"
                  /\ capEntry'[n].total = Head(capChan[n]).total
                  /\ CapHearBatch(n, Head(capChan[n]).total) /\ CapShows(n)
         \/ /\ capEntry[n].shown /\ capEntry'[n].shown /\ capEntry'[n].live = capEntry[n].live
            /\ capEntry'[n].total = capEntry[n].total
            /\ CapFlush /\ capActive /\ n = capUpdates[1].id
            /\ capEntry'[n].count = capUpdates[Len(capUpdates)].total
  <1>0. capEntry \in [CapIds -> CapEntries] /\ CapCallTypes BY DEF CapInv, CapTypes, CapEntryTypes
  <1>1. CASE CapFlush
    <2> DEFINE m == capUpdates[1].id
               t == capUpdates[Len(capUpdates)].total
    <2>1. m \in CapIds /\ t \in Nat BY <1>1, CapFlushed DEF CapFlush
    <2>2. \/ capEntry' = capEntry
          \/ capActive /\ capEntry[m].shown /\ capEntry' = [capEntry EXCEPT ![m].count = t]
      BY <1>1 DEF CapFlush
    <2>3. m = n => n = capUpdates[1].id OBVIOUS
    <2>4. t = capUpdates[Len(capUpdates)].total OBVIOUS
    <2> HIDE DEF m, t
    <2> QED BY <1>0, <1>1, <2>1, <2>2, <2>3, <2>4, CapCountIs
  <1>2. ASSUME NEW k \in CapIds, CapAnswered(k)
        PROVE  \/ capEntry'[n] = capEntry[n]
               \/ /\ capStart[k].id = n /\ capEntry'[n].shown /\ capEntry'[n].total = 0
                  /\ capEntry'[n].live = (capEntry[n].live \/ ~capEntry[n].shown)
                  /\ capEntry'[n].count = IF capEntry[n].shown THEN capEntry[n].count ELSE 0
    <2> DEFINE m == capStart[k].id
    <2>1. m \in CapIds \/ m = 0 BY <1>2 DEF CapAnswered, CapInv, CapStartInv
    <2>2. capEntry' = IF m = 0 THEN capEntry ELSE CapShow(capEntry, m, 0) BY <1>2 DEF CapAnswered
    <2>3. m = n => capStart[k].id = n OBVIOUS
    <2> HIDE DEF m
    <2> QED BY <1>0, <2>1, <2>2, <2>3, CapShowIs
  <1>3. ASSUME NEW m \in CapIds, CapStopAnswered(m)
        PROVE  \/ capEntry'[n] = capEntry[n]
               \/ /\ m = n /\ ~capEntry'[n].live /\ capEntry'[n].shown = capEntry[n].shown
                  /\ capEntry'[n].total = capEntry[n].total /\ capEntry'[n].count = capEntry[n].count
    <2>1. capEntry' = CapQuietened(capEntry, m) BY <1>3 DEF CapStopAnswered
    <2> QED BY <1>0, <2>1, CapQuietenedIs
  <1>4. ASSUME NEW m \in CapIds, CapCloseAnswered(m) \/ CapHearClosed(m)
        PROVE  capEntry'[n] = capEntry[n] \/ (m = n /\ capEntry'[n] = CapNoEntry)
    <2>1. capEntry' = CapDropped(capEntry, m) BY <1>4 DEF CapCloseAnswered, CapHearClosed
    <2> QED BY <1>0, <2>1, CapDroppedIs
  <1>5. ASSUME NEW m \in CapIds, CapHear(m)
        PROVE  \/ capEntry'[n] = capEntry[n]
               \/ /\ m = n /\ ~capEntry'[n].live /\ capEntry'[n].shown = capEntry[n].shown
                  /\ capEntry'[n].total = capEntry[n].total /\ capEntry'[n].count = capEntry[n].count
                  /\ capCurrent = n /\ capCurrent' = 0
               \/ /\ m = n /\ capActive /\ capCurrent = n /\ Head(capChan[n]).ev = "batch" /\ CapShows(n)
                  /\ CapHearBatch(n, Head(capChan[n]).total)
                  /\ capEntry'[n].shown /\ capEntry'[n].total = Head(capChan[n]).total
                  /\ capEntry'[n].live = (capEntry[n].live \/ ~capEntry[n].shown)
                  /\ capEntry'[n].count = IF capEntry[n].shown THEN capEntry[n].count ELSE 0
    <2> DEFINE t == Head(capChan[m]).total
    <2>1. t \in Nat BY <1>5, CapHeardChan, CapMessage
    <2>2. \/ capEntry' = capEntry
          \/ capEntry' = CapQuietened(capEntry, m) /\ capCurrent = m /\ capCurrent' = 0
          \/ /\ capEntry' = CapShow(capEntry, m, t) /\ capActive /\ capCurrent = m
             /\ Head(capChan[m]).ev = "batch" /\ CapHearBatch(m, t) /\ CapShows(m)
      BY <1>5, CapHearCases DEF CapHearBatch, CapHearUpdate, CapHearStopped, CapShows
    <2>3. m = n => t = Head(capChan[n]).total OBVIOUS
    <2> HIDE DEF t
    <2> QED BY <1>0, <2>1, <2>2, <2>3, CapShowIs, CapQuietenedIs
  <1> QED BY <1>1, <1>2, <1>3, <1>4, <1>5, CapEntriesStay

\* Which capture is the window's.
LEMMA CapCurrentMoves ==
  ASSUME CapInv, CapNext
  PROVE  \/ capCurrent' = capCurrent
         \/ capCurrent # 0 /\ capCurrent' = 0
         \/ \E k \in CapIds : CapAnswered(k) /\ capCurrent' = capStart[k].id
  <1>1. CASE CapStops \/ CapFlush BY <1>1 DEF CapStops, CapFlush, CapStopNow
  <1>2. ASSUME NEW m \in CapIds,
               \/ CapBatch(m) \/ CapEnds(m) \/ CapAgentStops(m) \/ CapAgentCloses(m)
               \/ CapBegins(m) \/ CapStopTaken(m) \/ CapStopAnswered(m)
               \/ CapClosed(m) \/ CapCloseAnswered(m) \/ CapHearClosed(m)
        PROVE  capCurrent' = capCurrent
    BY <1>2 DEF CapBatch, CapEnds, CapAgentStops, CapAgentCloses, CapBegins, CapStopTaken,
      CapStopAnswered, CapClosed, CapCloseAnswered, CapHearClosed, capSession
  <1>3. ASSUME NEW m \in CapIds, CapStarts(m) \/ CapClosing(m)
        PROVE  capCurrent' = capCurrent \/ (capCurrent # 0 /\ capCurrent' = 0)
    BY <1>3 DEF CapStarts, CapClosing, CapStopNow
  <1>4. ASSUME NEW m \in CapIds, CapHear(m)
        PROVE  capCurrent' = capCurrent \/ (capCurrent # 0 /\ capCurrent' = 0)
    <2>1. m # 0 BY CapAssumption DEF CapIds
    <2> QED BY <1>4, <2>1, CapHearCases DEF CapHearBatch, CapHearUpdate, CapHearStopped
  <1>5. ASSUME NEW k \in CapIds, CapAnswered(k) PROVE capCurrent' = capStart[k].id
    BY <1>5 DEF CapAnswered
  <1> QED BY <1>1, <1>2, <1>3, <1>4, <1>5 DEF CapNext

\* The sessions, and the news of them.
LEMMA CapOpenMoves ==
  ASSUME CapInv, CapNext, NEW n \in CapIds
  PROVE  /\ \/ capOpen'[n] = capOpen[n]
            \/ capOpen[n] /\ ~capOpen'[n] /\ (n \in capNews' \/ capClose'[n] = "answered")
            \/ capTask[n] = "none" /\ capTask'[n] # "none" /\ capOpen'[n] /\ CapUnseen(n)'
         /\ n \in capNews' => n \in capNews \/ (capOpen[n] /\ ~capOpen'[n])
         /\ n \in capNews => n \in capNews' \/ CapHearClosed(n)
         /\ CapClosed(n) \/ CapAgentCloses(n) => ~capOpen'[n]
  <1>0. CapCallTypes BY DEF CapInv, CapTypes
  <1>1. ASSUME CapStops \/ CapFlush PROVE capOpen' = capOpen /\ capNews' = capNews
    BY <1>1 DEF CapStops, CapFlush, capBack, capWires
  <1>2. ASSUME NEW m \in CapIds,
               \/ CapBatch(m) \/ CapEnds(m) \/ CapAgentStops(m) \/ CapStarts(m) \/ CapAnswered(m)
               \/ CapStopTaken(m)
        PROVE  capOpen' = capOpen /\ capNews' = capNews
    BY <1>2 DEF CapBatch, CapEnds, CapAgentStops, CapStarts, CapAnswered, CapStopTaken, capBack,
      capWires
  <1>3. ASSUME NEW m \in CapIds,
               CapStopAnswered(m) \/ CapClosing(m) \/ CapCloseAnswered(m) \/ CapHear(m)
        PROVE  capOpen' = capOpen /\ capNews' = capNews
    BY <1>3 DEF CapStopAnswered, CapClosing, CapCloseAnswered, CapHear, capBack, capWires
  <1>4. ASSUME NEW m \in CapIds, CapAgentCloses(m)
        PROVE  /\ capOpen[m] /\ capOpen' = [capOpen EXCEPT ![m] = FALSE]
               /\ capNews' = capNews \cup {m} BY <1>4 DEF CapAgentCloses
  <1>5. ASSUME NEW m \in CapIds, CapClosed(m)
        PROVE  /\ capOpen' = [capOpen EXCEPT ![m] = FALSE] /\ capNews' = capNews
               /\ capClose'[m] = "answered" BY <1>0, <1>5 DEF CapClosed, capWires, CapCallTypes
  <1>6. ASSUME NEW m \in CapIds, CapHearClosed(m)
        PROVE  capOpen' = capOpen /\ capNews' = capNews \ {m} BY <1>6 DEF CapHearClosed, capBack
  <1>7. ASSUME NEW k \in CapIds, CapBegins(k)
        PROVE  /\ capNews' = capNews
               /\ capOpen' = capOpen \/ \E m \in CapIds :
                    /\ capTask[m] = "none" /\ capOpen' = [capOpen EXCEPT ![m] = TRUE]
                    /\ CapUnseen(m)' /\ capTask'[m] # "none"
    <2>1. PICK m \in CapIds :
           /\ m = CHOOSE i \in CapIds :
                    capTask[i] = "none" /\ \A j \in 1 .. i - 1 : capTask[j] # "none"
           /\ capTask[m] = "none" BY <1>7, CapNextOne DEF CapBegins
    <2>2. /\ capTask[m] = "none" /\ capNews' = capNews
          /\ \/ /\ capOpen' = [capOpen EXCEPT ![m] = TRUE]
                /\ capTask' = [capTask EXCEPT ![m] = "runs"]
                /\ capStart' = [capStart EXCEPT ![k] = [pc |-> "answered", id |-> m]]
             \/ capOpen' = capOpen BY <1>7, <2>1 DEF CapBegins, capWires
    <2>3. capStart' = [capStart EXCEPT ![k] = [pc |-> "answered", id |-> m]] => CapUnseen(m)'
      BY <1>0 DEF CapCallTypes, CapUnseen
    <2>4. capTask' = [capTask EXCEPT ![m] = "runs"] => capTask'[m] # "none" BY <1>0 DEF CapCallTypes
    <2> QED BY <2>2, <2>3, <2>4
  <1>9. CASE CapClosed(n) \/ CapAgentCloses(n) BY <1>0, <1>4, <1>5, <1>9 DEF CapCallTypes
  <1>10. ASSUME NEW m \in CapIds, m # n, CapClosed(m) \/ CapAgentCloses(m)
         PROVE  capOpen'[n] = capOpen[n] /\ (n \in capNews' <=> n \in capNews)
    BY <1>0, <1>4, <1>5, <1>10 DEF CapCallTypes
  <1>11. CASE ~(CapClosed(n) \/ CapAgentCloses(n))
    BY <1>0, <1>1, <1>2, <1>3, <1>6, <1>7, <1>10, <1>11 DEF CapNext, CapCallTypes
  <1> QED BY <1>9, <1>11

\* What it shows, and what it shows no more.
LEMMA CapStatusMoves ==
  ASSUME CapInv, CapNext
  PROVE  \/ capStatus' = capStatus /\ ~(\E k \in CapIds : CapAnswered(k))
         \/ \E n \in CapIds : /\ CapHear(n) /\ capCurrent = n /\ capCurrent' = n
                              /\ CapShows(n) /\ CapShows(n)'
         \/ ~(\E n \in CapIds : CapShows(n)') /\ (capCurrent' = 0 \/ CapLate')
         \/ \E k \in CapIds : CapAnswered(k) /\ \A n \in CapIds : CapShows(n)' <=> capStart[k].id = n
  <1> USE DEF CapShows
  <1>0. CapCallTypes /\ CapGuardInv BY DEF CapInv, CapTypes
  <1>1. ASSUME ~(\E k \in CapIds : CapAnswered(k)), CapStops \/ CapFlush PROVE capStatus' = capStatus
    BY <1>1 DEF CapStops, CapFlush
  <1>2. ASSUME NEW m \in CapIds,
               \/ CapBatch(m) \/ CapEnds(m) \/ CapAgentStops(m) \/ CapAgentCloses(m)
               \/ CapBegins(m) \/ CapStopTaken(m) \/ CapClosing(m)
               \/ CapClosed(m) \/ CapCloseAnswered(m) \/ CapHearClosed(m)
        PROVE  capStatus' = capStatus
    BY <1>2 DEF CapBatch, CapEnds, CapAgentStops, CapAgentCloses, CapBegins, CapStopTaken,
      CapClosing, CapClosed, CapCloseAnswered, CapHearClosed, capSession
  <1>3. ASSUME NEW k \in CapIds, CapStarts(k)
        PROVE  /\ capStatus' = capStatus \/ capStatus' = CapStatus("starting", 0, 0)
               /\ capCurrent' = 0 BY <1>3 DEF CapStarts, CapStopNow
  <1>4. ASSUME NEW n \in CapIds, CapStopAnswered(n)
        PROVE  /\ capStatus' = CapStatus("stopped", n, 0) \/ capStatus' = CapStatus("starting", 0, 0)
               /\ capCurrent' = 0 \/ CapLate'
    <2> DEFINE waiting == {k \in CapIds : capStart[k] = [pc |-> "stops", id |-> n]}
    <2>1. capCurrent' = capCurrent BY <1>4 DEF CapStopAnswered
    <2>2. CASE waiting = {}
      <3>1. capStatus' = CapStatus("stopped", n, 0) BY <1>4, <2>2 DEF CapStopAnswered
      <3>2. capCurrent # 0 => <<"stop answered late", n>> \in capGhost'
        BY <1>4, <2>2 DEF CapStopAnswered
      <3> QED BY <2>1, <3>1, <3>2 DEF CapLate
    <2>3. CASE waiting # {}
      <3>1. capStatus' = CapStatus("starting", 0, 0) BY <1>4, <2>3 DEF CapStopAnswered
      <3>2. PICK k \in CapIds : capStart[k] = [pc |-> "stops", id |-> n] BY <2>3
      <3>3. capStart[k].pc = "stops" BY <3>2
      <3>4. capCurrent = 0 BY <3>3 DEF CapInv, CapStartInv, CapInFlight, CapGuardInv
      <3> QED BY <2>1, <3>1, <3>4
    <2> QED BY <2>2, <2>3
  <1>5. ASSUME NEW k \in CapIds, CapAnswered(k)
        PROVE  \A n \in CapIds : CapShows(n)' <=> capStart[k].id = n
    <2>1. \A n \in CapIds : n # 0 BY CapAssumption DEF CapIds
    <2>2. capStatus' = IF capStart[k].id = 0 THEN CapStatus("error", 0, 0)
                       ELSE CapStatus("streaming", capStart[k].id, 0) BY <1>5 DEF CapAnswered
    <2> QED BY <2>1, <2>2, CapStatusIs
  <1>6. ASSUME NEW n \in CapIds, CapHear(n)
        PROVE  \/ capStatus' = capStatus
               \/ capCurrent = n /\ capCurrent' = n /\ CapShows(n) /\ CapShows(n)'
               \/ capStatus' = CapStatus("stopped", n, 0) /\ capCurrent' = 0
    <2> DEFINE t == Head(capChan[n]).total
    <2>1. \/ capStatus' = capStatus
          \/ capCurrent = n /\ CapHearBatch(n, t) /\ capCurrent' = n
          \/ capStatus' = CapStatus("stopped", n, 0) /\ capCurrent' = 0
      BY <1>6, CapHearCases DEF CapHearBatch, CapHearUpdate, CapHearStopped
    <2>2. CapHearBatch(n, t) => capStatus' = capStatus \/ (CapShows(n) /\ capStatus' = CapStatus("streaming", n, t))
      BY DEF CapHearBatch
    <2>3. capStatus' = CapStatus("streaming", n, t) => CapShows(n)' BY CapStatusIs
    <2> HIDE DEF CapShows
    <2> QED BY <2>1, <2>2, <2>3
  <1>7. ASSUME NEW n, capStatus' = CapStatus("stopped", n, 0) \/ capStatus' = CapStatus("starting", 0, 0)
        PROVE  ~(\E m \in CapIds : CapShows(m)')
    <2>1. capStatus'.phase = "stopped" \/ capStatus'.phase = "starting" BY <1>7, CapStatusIs
    <2> QED BY <2>1
  <1>8. CASE \E k \in CapIds : CapAnswered(k) BY <1>5, <1>8
  <1>9. CASE ~(\E k \in CapIds : CapAnswered(k))
    <2>1. CASE CapStops \/ CapFlush BY <1>1, <1>9, <2>1
    <2>2. ASSUME NEW k \in CapIds, CapStarts(k) PROVE capStatus' = capStatus \/
                   (~(\E m \in CapIds : CapShows(m)') /\ capCurrent' = 0) BY <1>3, <1>7, <2>2
    <2>3. ASSUME NEW n \in CapIds, CapStopAnswered(n)
          PROVE ~(\E m \in CapIds : CapShows(m)') /\ (capCurrent' = 0 \/ CapLate')
      BY <1>4, <1>7, <2>3
    <2>4. ASSUME NEW n \in CapIds, CapHear(n)
          PROVE  \/ capStatus' = capStatus
                 \/ capCurrent = n /\ capCurrent' = n /\ CapShows(n) /\ CapShows(n)'
                 \/ ~(\E m \in CapIds : CapShows(m)') /\ capCurrent' = 0 BY <1>6, <1>7, <2>4
    <2> HIDE DEF CapShows
    <2> QED BY <1>2, <1>9, <2>1, <2>2, <2>3, <2>4 DEF CapNext
  <1> QED BY <1>8, <1>9

\* The capture whose start is answered is heard of, and was not before.
LEMMA CapHeardOf ==
  ASSUME CapInv, NEW k \in CapIds, CapAnswered(k), NEW n \in CapIds, capStart[k].id = n
  PROVE  CapUnseen(n) /\ ~CapUnseen(n)' /\ capTask[n] # "none" /\ capUpdates = <<>>
  <1>0. CapCallTypes /\ CapStartInv BY DEF CapInv, CapTypes
  <1>1. /\ capStart[k].pc = "answered" /\ capUpdates = <<>> /\ capTask' = capTask
        /\ capStart' = [capStart EXCEPT ![k] = [capStart[k] EXCEPT !.pc = "over"]]
    BY DEF CapAnswered, capBack
  <1>2. CapUnseen(n) BY <1>1 DEF CapUnseen
  <1>3. capTask[n] # "none"
    <2>1. n # 0 BY CapAssumption DEF CapIds
    <2> QED BY <1>0, <1>1, <2>1 DEF CapStartInv
  <1>4. capStart'[k].pc = "over" /\ \A j \in CapIds : j # k => capStart'[j] = capStart[j]
    <2>1. capStart[k] \in CapStarted BY <1>0 DEF CapCallTypes
    <2>2. [capStart[k] EXCEPT !.pc = "over"].pc = "over" BY <2>1 DEF CapStarted
    <2> QED BY <1>0, <1>1, <2>2 DEF CapCallTypes
  <1>5. \A j \in CapIds : j # k => capStart[j].pc # "answered"
    BY <1>0, <1>1 DEF CapStartInv, CapInFlight
  <1> QED BY <1>1, <1>2, <1>3, <1>4, <1>5 DEF CapUnseen

LEMMA CapUnseenStep ==
  ASSUME CapInv, CapNext PROVE CapUnseenInv'
  <1>0. CapUnseenInv /\ CapCallTypes BY DEF CapInv, CapTypes
  <1> SUFFICES ASSUME NEW n \in CapIds
               PROVE  /\ capTask'[n] = "none" =>
                           ~capOpen'[n] /\ capTotal'[n] = 0 /\ capChan'[n] = <<>> /\ n \notin capNews'
                      /\ CapUnseen(n)' =>
                           /\ capEntry'[n] = CapNoEntry /\ capStop'[n] = "no" /\ capClose'[n] = "no"
                           /\ capCurrent' # n /\ ~CapShows(n)' BY DEF CapUnseenInv
  <1>z. n # 0 /\ ~CapNoEntry.shown BY CapAssumption, CapNoEntryIs DEF CapIds
  <1>1. ASSUME capTask'[n] = "none"
        PROVE  ~capOpen'[n] /\ capTotal'[n] = 0 /\ capChan'[n] = <<>> /\ n \notin capNews'
    <2>1. capTask[n] = "none"
      <3>1. ASSUME NEW k \in CapIds, CapBegins(k) PROVE capTask[n] = "none"
        <4>1. PICK m \in CapIds :
               /\ m = CHOOSE i \in CapIds :
                        capTask[i] = "none" /\ \A j \in 1 .. i - 1 : capTask[j] # "none"
               /\ capTask[m] = "none" BY <3>1, CapNextOne DEF CapBegins
        <4>2. capTask' = [capTask EXCEPT ![m] = "runs"] \/ capTask' = capTask
          BY <3>1, <4>1 DEF CapBegins
        <4> QED BY <1>0, <1>1, <4>2 DEF CapCallTypes
      <3> QED BY <1>1, <3>1, CapTaskMoves
    <2>2. ~capOpen[n] /\ capTotal[n] = 0 /\ capChan[n] = <<>> /\ n \notin capNews
      BY <1>0, <2>1 DEF CapUnseenInv
    <2>3. ASSUME NEW m \in CapIds, CapBatch(m) \/ CapEnds(m) PROVE m # n
      BY <2>1, <2>3 DEF CapBatch, CapEnds
    <2>4. ASSUME NEW m \in CapIds, CapHear(m) PROVE m # n /\ capTotal' = capTotal
      BY <2>2, <2>4 DEF CapHear, capBack
    <2>5. capTotal'[n] = capTotal[n] /\ capChan'[n] = capChan[n]
      <3>1. ASSUME NEW m \in CapIds, CapBatch(m) PROVE capTotal'[n] = capTotal[n] /\ capChan'[n] = capChan[n]
        BY <2>3, <3>1, CapBatchChan
      <3>2. ASSUME NEW m \in CapIds, CapEnds(m) PROVE capTotal'[n] = capTotal[n] /\ capChan'[n] = capChan[n]
        <4>1. capTotal' = capTotal BY <3>2 DEF CapEnds
        <4> QED BY <2>3, <3>2, <4>1, CapEndsChan
      <3>3. ASSUME NEW m \in CapIds, CapHear(m) PROVE capTotal'[n] = capTotal[n] /\ capChan'[n] = capChan[n]
        BY <2>4, <3>3, CapHeardChan
      <3> QED BY <3>1, <3>2, <3>3, CapWiresStay
    <2>6. ~capOpen'[n] BY <1>1, <2>2, CapOpenMoves
    <2> QED BY <2>2, <2>5, <2>6, CapOpenMoves
  <1>2. ASSUME CapUnseen(n)'
        PROVE  /\ capEntry'[n] = CapNoEntry /\ capStop'[n] = "no" /\ capClose'[n] = "no"
               /\ capCurrent' # n /\ ~CapShows(n)'
    <2>1. CapUnseen(n) BY <1>2, CapUnseenStays
    <2>2. /\ capEntry[n] = CapNoEntry /\ capStop[n] = "no" /\ capClose[n] = "no"
          /\ capCurrent # n /\ ~CapShows(n) BY <1>0, <2>1 DEF CapUnseenInv
    <2>3. \A k \in CapIds : CapAnswered(k) => capStart[k].id # n BY <1>2, CapHeardOf
    <2>4. capEntry'[n] = CapNoEntry
      <3>1. ~CapStopAnswered(n) BY <2>2 DEF CapStopAnswered
      <3> QED BY <1>z, <2>2, <2>3, <3>1, CapEntryMoves
    <2>5. capStop'[n] = "no" BY <2>2, CapStopMoves
    <2>6. capClose'[n] = "no" BY <1>z, <2>2, CapCloseMoves
    <2>7. capCurrent' # n BY <1>z, <2>2, <2>3, CapCurrentMoves
    <2>8. ~CapShows(n)'
      <3>1. capStatus' = capStatus => (CapShows(n)' <=> CapShows(n)) BY DEF CapShows
      <3>2. ASSUME NEW m \in CapIds, CapShows(m), CapShows(m)', CapShows(n)' PROVE CapShows(n)
        BY <3>2 DEF CapShows
      <3> QED BY <2>2, <2>3, <3>1, <3>2, CapStatusMoves
    <2> QED BY <2>4, <2>5, <2>6, <2>7, <2>8
  <1> QED BY <1>1, <1>2

\* How a capture's task goes on.
LEMMA CapTaskGoes ==
  ASSUME CapInv, CapNext, NEW n \in CapIds
  PROVE  /\ capTask'[n] = "runs" => capTask[n] = "runs" \/ (CapUnseen(n) /\ CapUnseen(n)')
         /\ CapStopTaken(n) => capTask'[n] # "runs"
         /\ capTask[n] = "ended" => capTask'[n] = "ended"
         /\ capTask'[n] = "ended" => capTask[n] = "ended" \/ CapEnds(n)
  <1>0. CapCallTypes BY DEF CapInv, CapTypes
  <1>1. CASE CapStops \/ CapFlush
    <2>1. capTask' = capTask BY <1>1 DEF CapStops, CapFlush, capBack
    <2>2. ~CapStopTaken(n)
      BY <1>0, <1>1 DEF CapStops, CapFlush, CapStopTaken, CapStopNow, capCalls, capSession, CapCallTypes
    <2> QED BY <2>1, <2>2
  <1>2. ASSUME NEW m \in CapIds,
               \/ CapBatch(m) \/ CapCloseAnswered(m) \/ CapHearClosed(m) \/ CapStarts(m)
               \/ CapAnswered(m) \/ CapStopAnswered(m) \/ CapClosing(m) \/ CapHear(m)
        PROVE  capTask' = capTask
    BY <1>2 DEF CapBatch, CapCloseAnswered, CapHearClosed, CapStarts, CapAnswered, CapStopAnswered,
      CapClosing, CapHear, capBack
  <1>3. ASSUME NEW m \in CapIds, CapEnds(m) PROVE capTask' = [capTask EXCEPT ![m] = "ended"]
    BY <1>3 DEF CapEnds
  <1>4. ASSUME NEW m \in CapIds,
               CapAgentStops(m) \/ CapAgentCloses(m) \/ CapStopTaken(m) \/ CapClosed(m)
        PROVE  capTask' = [capTask EXCEPT ![m] = IF @ = "runs" THEN "cancelled" ELSE @]
    BY <1>4 DEF CapAgentStops, CapAgentCloses, CapStopTaken, CapClosed, CapCancel
  <1>5. ASSUME NEW k \in CapIds, CapBegins(k)
        PROVE  \/ capTask' = capTask
               \/ \E m \in CapIds : /\ capTask[m] = "none" /\ capTask' = [capTask EXCEPT ![m] = "runs"]
                                    /\ CapUnseen(m) /\ CapUnseen(m)'
    <2>1. PICK m \in CapIds :
           /\ m = CHOOSE i \in CapIds :
                    capTask[i] = "none" /\ \A j \in 1 .. i - 1 : capTask[j] # "none"
           /\ capTask[m] = "none" BY <1>5, CapNextOne DEF CapBegins
    <2>2. /\ capTask[m] = "none"
          /\ \/ /\ capTask' = [capTask EXCEPT ![m] = "runs"]
                /\ capStart' = [capStart EXCEPT ![k] = [pc |-> "answered", id |-> m]]
             \/ capTask' = capTask BY <1>5, <2>1 DEF CapBegins
    <2>3. capStart' = [capStart EXCEPT ![k] = [pc |-> "answered", id |-> m]] => CapUnseen(m)'
      BY <1>0 DEF CapCallTypes, CapUnseen
    <2>4. CapUnseen(m) BY <2>2 DEF CapUnseen
    <2> QED BY <2>2, <2>3, <2>4
  <1>6. CapStopTaken(n) => capTask'[n] # "runs" BY <1>0, <1>4 DEF CapCallTypes
  <1>7. /\ capTask'[n] = "runs" => capTask[n] = "runs" \/ (CapUnseen(n) /\ CapUnseen(n)')
        /\ capTask[n] = "ended" => capTask'[n] = "ended"
        /\ capTask'[n] = "ended" => capTask[n] = "ended" \/ CapEnds(n)
    <2>1. CASE capTask' = capTask BY <2>1
    <2>2. ASSUME NEW m \in CapIds, CapEnds(m) PROVE
            /\ capTask'[n] = "runs" => capTask[n] = "runs"
            /\ capTask[n] = "ended" => capTask'[n] = "ended"
            /\ capTask'[n] = "ended" => capTask[n] = "ended" \/ CapEnds(n)
      BY <1>0, <1>3, <2>2 DEF CapCallTypes
    <2>3. ASSUME NEW m \in CapIds,
                 CapAgentStops(m) \/ CapAgentCloses(m) \/ CapStopTaken(m) \/ CapClosed(m)
          PROVE  /\ capTask'[n] = "runs" => capTask[n] = "runs"
                 /\ capTask[n] = "ended" => capTask'[n] = "ended"
                 /\ capTask'[n] = "ended" => capTask[n] = "ended"
      BY <1>0, <1>4, <2>3 DEF CapCallTypes
    <2>4. ASSUME NEW k \in CapIds, CapBegins(k)
          PROVE  /\ capTask'[n] = "runs" => capTask[n] = "runs" \/ (CapUnseen(n) /\ CapUnseen(n)')
                 /\ capTask[n] = "ended" => capTask'[n] = "ended"
                 /\ capTask'[n] = "ended" => capTask[n] = "ended"
      <3>1. CASE capTask' = capTask BY <3>1
      <3>2. ASSUME NEW m \in CapIds, capTask[m] = "none", capTask' = [capTask EXCEPT ![m] = "runs"],
                   CapUnseen(m), CapUnseen(m)'
            PROVE  /\ capTask'[n] = "runs" => capTask[n] = "runs" \/ (CapUnseen(n) /\ CapUnseen(n)')
                   /\ capTask[n] = "ended" => capTask'[n] = "ended"
                   /\ capTask'[n] = "ended" => capTask[n] = "ended" BY <1>0, <3>2 DEF CapCallTypes
      <3> QED BY <1>5, <2>4, <3>1, <3>2
    <2> QED BY <1>1, <1>2, <2>1, <2>2, <2>3, <2>4 DEF CapNext, CapStops, CapFlush, capBack
  <1> QED BY <1>6, <1>7

\* A capture is heard of when its start is answered.
LEMMA CapSeenBy ==
  ASSUME CapInv, CapNext, NEW n \in CapIds, CapUnseen(n), ~CapUnseen(n)'
  PROVE  \E k \in CapIds : CapAnswered(k) /\ capStart[k].id = n /\ capCurrent' = n
  <1>0. CapCallTypes BY DEF CapInv, CapTypes
  <1>1. CASE \E k \in CapIds : capStart[k].pc = "answered" /\ capStart[k].id = n
    <2>1. PICK k \in CapIds : capStart[k].pc = "answered" /\ capStart[k].id = n BY <1>1
    <2>2. ~(capStart'[k].pc = "answered" /\ capStart'[k].id = n) BY DEF CapUnseen
    <2>3. capStart'[k] # capStart[k] BY <2>1, <2>2
    <2>4. ASSUME NEW j \in CapIds, CapStarts(j) \/ CapBegins(j) PROVE capStart'[k] = capStart[k]
      <3>1. capStart[j].pc # "answered" BY <2>4 DEF CapStarts, CapBegins
      <3>2. j # k BY <2>1, <3>1
      <3>3. \E x : capStart' = [capStart EXCEPT ![j] = x] BY <2>4 DEF CapStarts, CapBegins
      <3> QED BY <1>0, <3>2, <3>3 DEF CapCallTypes
    <2>5. ASSUME NEW j \in CapIds, CapStopAnswered(j) PROVE capStart'[k] = capStart[k]
      <3> DEFINE waiting == {i \in CapIds : capStart[i] = [pc |-> "stops", id |-> j]}
      <3>1. k \notin waiting BY <2>1
      <3>2. capStart' = capStart \/
            capStart' = [i \in CapIds |-> IF i \in waiting THEN [pc |-> "asked", id |-> 0]
                                          ELSE capStart[i]] BY <2>5 DEF CapStopAnswered
      <3> HIDE DEF waiting
      <3> QED BY <3>1, <3>2
    <2>6. ASSUME NEW j \in CapIds,
               \/ CapBatch(j) \/ CapEnds(j) \/ CapAgentStops(j) \/ CapAgentCloses(j)
               \/ CapStopTaken(j) \/ CapClosing(j) \/ CapClosed(j) \/ CapCloseAnswered(j)
               \/ CapHearClosed(j) \/ CapHear(j)
          PROVE  capStart' = capStart
      BY <2>6 DEF CapBatch, CapEnds, CapAgentStops, CapAgentCloses, CapStopTaken, CapClosing,
        CapClosed, CapCloseAnswered, CapHearClosed, CapHear, capCalls
    <2>7. ASSUME NEW j \in CapIds, CapAnswered(j)
          PROVE  j = k /\ capCurrent' = n
      <3>1. capStart' = [capStart EXCEPT ![j] = [capStart[j] EXCEPT !.pc = "over"]]
            /\ capCurrent' = capStart[j].id BY <2>7 DEF CapAnswered
      <3>2. j = k BY <1>0, <2>3, <3>1 DEF CapCallTypes
      <3> QED BY <2>1, <3>1, <3>2
    <2>8. CapStops \/ CapFlush => capStart' = capStart BY DEF CapStops, CapFlush, capCalls
    <2> QED BY <2>1, <2>3, <2>4, <2>5, <2>6, <2>7, <2>8 DEF CapNext
  <1>2. CASE ~(\E k \in CapIds : capStart[k].pc = "answered" /\ capStart[k].id = n)
    <2>1. capTask[n] = "none" /\ capTask'[n] # "none" BY <1>2 DEF CapUnseen
    <2>2. PICK k \in CapIds : CapBegins(k) BY <2>1, CapTaskMoves
    <2>3. PICK m \in CapIds :
           /\ m = CHOOSE i \in CapIds :
                    capTask[i] = "none" /\ \A j \in 1 .. i - 1 : capTask[j] # "none"
           /\ capTask[m] = "none" BY <2>2, CapNextOne DEF CapBegins
    <2>4. \/ /\ capTask' = [capTask EXCEPT ![m] = "runs"]
             /\ capStart' = [capStart EXCEPT ![k] = [pc |-> "answered", id |-> m]]
          \/ capTask' = capTask BY <2>2, <2>3 DEF CapBegins
    <2>5. m = n /\ capStart' = [capStart EXCEPT ![k] = [pc |-> "answered", id |-> m]]
      BY <1>0, <2>1, <2>4 DEF CapCallTypes
    <2>6. CapUnseen(n)' BY <1>0, <2>5 DEF CapCallTypes, CapUnseen
    <2> QED BY <2>6
  <1> QED BY <1>1, <1>2

\* Its capture leaves the window by a stop, or when its end is heard.
LEMMA CapLeaves ==
  ASSUME CapInv, CapNext, NEW n \in CapIds, capCurrent = n, capCurrent' # n
  PROVE  \/ capStop'[n] = "sent"
         \/ /\ CapHear(n) /\ CapHearStopped(n) /\ capTask[n] = "ended"
            /\ ~(\E m \in CapIds : CapShows(m)')
  <1>0. CapCallTypes /\ n # 0 BY CapAssumption DEF CapInv, CapTypes, CapIds
  <1>1. ASSUME CapStopNow PROVE capStop'[n] = "sent" BY <1>0, <1>1 DEF CapStopNow, CapCallTypes
  <1>2. CASE CapStops BY <1>1, <1>2 DEF CapStops
  <1>3. CASE CapFlush BY <1>3 DEF CapFlush
  <1>4. ASSUME NEW m \in CapIds,
               \/ CapBatch(m) \/ CapEnds(m) \/ CapAgentStops(m) \/ CapAgentCloses(m)
               \/ CapBegins(m) \/ CapClosed(m) \/ CapCloseAnswered(m)
               \/ CapHearClosed(m) \/ CapStopTaken(m)
        PROVE  capCurrent' = capCurrent
    BY <1>4 DEF CapBatch, CapEnds, CapAgentStops, CapAgentCloses, CapBegins, CapClosed,
      CapCloseAnswered, CapHearClosed, CapStopTaken, capSession
  <1>5. ASSUME NEW m \in CapIds, CapStopAnswered(m) PROVE capCurrent' = capCurrent
    BY <1>5 DEF CapStopAnswered
  <1>6. ASSUME NEW m \in CapIds, CapStarts(m) \/ CapClosing(m)
        PROVE  CapStopNow \/ capCurrent' = capCurrent BY <1>6 DEF CapStarts, CapClosing
  <1>7. ASSUME NEW k \in CapIds, CapAnswered(k) PROVE FALSE
    <2>1. capStart[k].pc = "answered" BY <1>7 DEF CapAnswered
    <2> QED BY <1>0, <2>1 DEF CapInv, CapStartInv, CapInFlight, CapGuardInv
  <1>8. ASSUME NEW m \in CapIds, CapHear(m)
        PROVE  /\ CapHear(n) /\ CapHearStopped(n) /\ capTask[n] = "ended"
               /\ ~(\E i \in CapIds : CapShows(i)')
    <2>1. capCurrent = m /\ Head(capChan[m]).ev = "stopped" /\ CapHearStopped(m)
      BY <1>8, CapHearCases DEF CapHearBatch, CapHearUpdate
    <2>2. capTask[m] = "ended" BY <1>8, <2>1, CapHeardChan
    <2>3. capStatus' = CapStatus("stopped", m, 0) BY <2>1 DEF CapHearStopped
    <2>4. ~(\E i \in CapIds : CapShows(i)') BY <2>3, CapStatusIs DEF CapShows
    <2> QED BY <1>8, <2>1, <2>2, <2>4
  <1> QED BY <1>1, <1>2, <1>3, <1>4, <1>5, <1>6, <1>7, <1>8 DEF CapNext

LEMMA CapActiveStep ==
  ASSUME CapInv, CapNext
  PROVE  (capActive' <=> capCurrent' # 0) /\ (capStarting' => capCurrent' = 0)
  <1>0. (capActive <=> capCurrent # 0) /\ (capStarting => capCurrent = 0) /\ CapCallTypes
    BY DEF CapInv, CapGuardInv, CapTypes
  <1>1. CASE CapStops BY <1>1 DEF CapStops, CapStopNow
  <1>2. CASE CapFlush BY <1>0, <1>2 DEF CapFlush
  <1>3. ASSUME NEW m \in CapIds,
               \/ CapBatch(m) \/ CapEnds(m) \/ CapAgentStops(m) \/ CapAgentCloses(m)
               \/ CapBegins(m) \/ CapClosed(m) \/ CapCloseAnswered(m)
               \/ CapHearClosed(m) \/ CapStopTaken(m)
        PROVE  UNCHANGED <<capCurrent, capActive, capStarting>>
    BY <1>3 DEF CapBatch, CapEnds, CapAgentStops, CapAgentCloses, CapBegins, CapClosed,
      CapCloseAnswered, CapHearClosed, CapStopTaken, capSession
  <1>4. ASSUME NEW m \in CapIds, CapStopAnswered(m)
        PROVE  (capActive' <=> capCurrent' # 0) /\ (capStarting' => capCurrent' = 0)
    <2> DEFINE waiting == {k \in CapIds : capStart[k] = [pc |-> "stops", id |-> m]}
    <2>1. capCurrent' = capCurrent /\ capStarting' = capStarting BY <1>4 DEF CapStopAnswered
    <2>2. CASE waiting = {}
      <3>1. capActive' = capActive BY <1>4, <2>2 DEF CapStopAnswered
      <3> QED BY <1>0, <2>1, <3>1
    <2>3. CASE waiting # {}
      <3>1. capActive' = FALSE BY <1>4, <2>3 DEF CapStopAnswered
      <3>2. PICK k \in CapIds : capStart[k] = [pc |-> "stops", id |-> m] BY <2>3
      <3>3. capStart[k].pc = "stops" BY <3>2
      <3>4. capCurrent = 0 BY <3>3 DEF CapInv, CapStartInv, CapInFlight, CapGuardInv
      <3> QED BY <2>1, <3>1, <3>4
    <2> QED BY <2>2, <2>3
  <1>5. ASSUME NEW m \in CapIds, CapStarts(m)
        PROVE  (capActive' <=> capCurrent' # 0) /\ (capStarting' => capCurrent' = 0)
    BY <1>0, <1>5 DEF CapStarts, CapStopNow
  <1>6. ASSUME NEW m \in CapIds, CapClosing(m)
        PROVE  (capActive' <=> capCurrent' # 0) /\ (capStarting' => capCurrent' = 0)
    BY <1>0, <1>6 DEF CapClosing, CapStopNow
  <1>7. ASSUME NEW k \in CapIds, CapAnswered(k)
        PROVE  (capActive' <=> capCurrent' # 0) /\ (capStarting' => capCurrent' = 0)
    <2>1. capCurrent' = capStart[k].id /\ (capActive' <=> capStart[k].id # 0) /\ ~capStarting'
      BY <1>7 DEF CapAnswered
    <2> QED BY <2>1
  <1>8. ASSUME NEW m \in CapIds, CapHear(m)
        PROVE  (capActive' <=> capCurrent' # 0) /\ (capStarting' => capCurrent' = 0)
    <2>1. /\ capStarting' = capStarting
          /\ \/ UNCHANGED <<capCurrent, capActive>>
             \/ ~capActive' /\ capCurrent' = 0
      BY <1>8, CapHearCases DEF CapHearBatch, CapHearUpdate, CapHearStopped
    <2> QED BY <1>0, <2>1
  <1> QED BY <1>0, <1>1, <1>2, <1>3, <1>4, <1>5, <1>6, <1>7, <1>8 DEF CapNext

\* Once a stop was answered late, it was.
LEMMA CapLateStays == ASSUME CapInv, CapNext PROVE CapLate => CapLate' BY CapGhostGrows DEF CapLate

\* A capture that the window takes for its own is one it stopped nothing of.
LEMMA CapOwns ==
  ASSUME CapInv, CapNext, NEW n \in CapIds, capCurrent' = n
  PROVE  \/ capCurrent = n /\ ~(\E k \in CapIds : CapAnswered(k))
         \/ CapUnseen(n) /\ \E k \in CapIds : CapAnswered(k) /\ capStart[k].id = n
  <1>1. n # 0 BY CapAssumption DEF CapIds
  <1>2. ASSUME NEW k \in CapIds, CapAnswered(k) PROVE capCurrent' = capStart[k].id
    BY <1>2 DEF CapAnswered
  <1>3. ASSUME NEW k \in CapIds, CapAnswered(k), capStart[k].id = n PROVE CapUnseen(n)
    BY <1>3, CapHeardOf
  <1> QED BY <1>1, <1>2, <1>3, CapCurrentMoves

LEMMA CapGuardStep ==
  ASSUME CapInv, CapNext PROVE CapGuardInv'
  <1>0. CapGuardInv /\ CapUnseenInv /\ CapCallTypes BY DEF CapInv, CapTypes
  <1>1. ASSUME NEW n \in CapIds
        PROVE  /\ capStop'[n] # "no" => capCurrent' # n
               /\ capStop'[n] = "answered" => capTask'[n] # "runs"
               /\ capTask'[n] = "runs" => capCurrent' = n \/ capStop'[n] = "sent" \/ CapUnseen(n)'
    <2>0. n # 0 BY CapAssumption DEF CapIds
    <2>1. ASSUME capCurrent' = n PROVE capStop'[n] = "no"
      <3>1. capStop[n] = "no" BY <1>0, <2>1, CapOwns DEF CapGuardInv, CapUnseenInv, CapCallTypes
      <3> QED BY <2>0, <2>1, <3>1, CapStopMoves
    <2>2. ASSUME capStop'[n] = "answered" PROVE capTask'[n] # "runs"
      <3>1. CASE capStop[n] = "answered" BY <1>0, <3>1, CapTaskGoes DEF CapGuardInv, CapUnseenInv
      <3>2. CASE capStop[n] # "answered" BY <2>2, <3>2, CapStopMoves, CapTaskGoes
      <3> QED BY <3>1, <3>2
    <2>3. ASSUME capTask'[n] = "runs", ~CapUnseen(n)'
          PROVE  capCurrent' = n \/ capStop'[n] = "sent"
      <3>1. capTask[n] = "runs" BY <2>3, CapTaskGoes
      <3>2. CASE CapUnseen(n) BY <2>3, <3>2, CapSeenBy
      <3>3. CASE capCurrent = n
        <4>1. capTask[n] # "ended" BY <3>1
        <4> QED BY <3>3, <4>1, CapLeaves
      <3>4. CASE capStop[n] = "sent"
        <4>1. ~CapStopTaken(n) BY <2>3, CapTaskGoes
        <4>2. ~CapStopAnswered(n) BY <3>4 DEF CapStopAnswered
        <4> QED BY <3>4, <4>1, <4>2, CapStopMoves
      <3> QED BY <1>0, <3>1, <3>2, <3>3, <3>4 DEF CapGuardInv
    <2> QED BY <2>1, <2>2, <2>3
  <1>2. ASSUME ~CapLate', NEW n \in CapIds
        PROVE  /\ capCurrent' = n => CapShows(n)'
               /\ CapShows(n)' => capCurrent' = n \/ capStop'[n] # "no"
    <2>0. n # 0 /\ ~CapLate BY <1>2, CapLateStays, CapAssumption DEF CapIds
    <2>1. /\ capCurrent = n => CapShows(n)
          /\ CapShows(n) => capCurrent = n \/ capStop[n] # "no" BY <1>0, <2>0 DEF CapGuardInv
    <2>2. capStatus' = capStatus => (CapShows(n)' <=> CapShows(n)) BY DEF CapShows
    <2>3. ASSUME NEW m \in CapIds, CapShows(m)', CapShows(n)' PROVE m = n BY <2>3 DEF CapShows
    <2>4. ASSUME NEW k \in CapIds, CapAnswered(k) PROVE capCurrent' = capStart[k].id
      BY <2>4 DEF CapAnswered
    <2>5. ASSUME CapStopAnswered(n) PROVE ~CapShows(n)'
      <3>1. \/ capStatus' = CapStatus("stopped", n, 0)
            \/ capStatus' = CapStatus("starting", 0, 0) BY <2>5 DEF CapStopAnswered
      <3>2. capStatus'.phase = "stopped" \/ capStatus'.phase = "starting" BY <3>1, CapStatusIs
      <3> QED BY <3>2 DEF CapShows
    <2>6. ASSUME capCurrent' = n PROVE CapShows(n)'
      <3>1. CASE capCurrent = n /\ ~(\E k \in CapIds : CapAnswered(k))
        <4>1. CASE capStatus' = capStatus BY <2>1, <2>2, <3>1, <4>1
        <4>2. ASSUME NEW m \in CapIds, capCurrent = m, CapShows(m)' PROVE CapShows(n)' BY <3>1, <4>2
        <4> QED BY <1>2, <2>0, <2>6, <3>1, <4>1, <4>2, CapStatusMoves
      <3>2. ASSUME NEW k \in CapIds, CapAnswered(k), capStart[k].id = n PROVE CapShows(n)'
        <4>1. CapUnseen(n) /\ ~CapUnseen(n)' BY <3>2, CapHeardOf
        <4>2. capStatus' = CapStatus("streaming", n, 0) BY <2>0, <3>2 DEF CapAnswered
        <4> QED BY <4>2, CapStatusIs DEF CapShows
      <3> QED BY <2>6, <3>1, <3>2, CapOwns
    <2>7. ASSUME CapShows(n)', capCurrent' # n PROVE capStop'[n] # "no"
      <3>1. capStatus' = capStatus BY <2>3, <2>4, <2>7, CapStatusMoves
      <3>2. CapShows(n) BY <2>2, <2>7, <3>1
      <3>3. CASE capCurrent = n
        <4>1. \E m \in CapIds : CapShows(m)' BY <2>7
        <4> QED BY <2>7, <3>3, <4>1, CapLeaves
      <3>4. CASE capStop[n] # "no" BY <2>5, <2>7, <3>4, CapStopMoves
      <3> QED BY <2>1, <3>2, <3>3, <3>4
    <2> QED BY <2>6, <2>7
  <1> QED BY <1>1, <1>2, CapActiveStep DEF CapGuardInv

\* What an answer to a start shows, and what takes a tab away or quietens it.
LEMMA CapTold ==
  ASSUME CapInv, NEW k \in CapIds, CapAnswered(k), NEW n \in CapIds, capStart[k].id = n
  PROVE  /\ capEntry[n] = CapNoEntry /\ ~CapUnseen(n)' /\ capUpdates = <<>> /\ capUpdates' = <<>>
         /\ capEntry'[n].shown /\ capEntry'[n].live
         /\ capEntry'[n].total = 0 /\ capEntry'[n].count = 0 /\ capCurrent' = n
         /\ UNCHANGED <<capTask, capOpen, capNews, capTotal, capChan>>
         /\ capOpen[n] \/ n \in capNews \/ <<"closed early", n>> \in capGhost'
         /\ CapHeardEarly(n) => <<"ended early", n>> \in capGhost'
  <1>0. capEntry \in [CapIds -> CapEntries] /\ n # 0
    BY CapAssumption DEF CapInv, CapTypes, CapEntryTypes, CapIds
  <1>1. CapUnseen(n) /\ ~CapUnseen(n)' /\ capUpdates = <<>> BY CapHeardOf
  <1>2. capEntry[n] = CapNoEntry BY <1>1 DEF CapInv, CapUnseenInv
  <1>3. /\ capEntry' = CapShow(capEntry, n, 0) /\ capCurrent' = n /\ capUpdates' = capUpdates
        /\ UNCHANGED <<capTask, capOpen, capNews, capTotal, capChan>>
    BY <1>0 DEF CapAnswered, capBack, capWires
  <1>4. /\ ~capOpen[n] /\ n \notin capNews => <<"closed early", n>> \in capGhost'
        /\ CapHeardEarly(n) => <<"ended early", n>> \in capGhost' BY <1>0 DEF CapAnswered
  <1>5. 0 \in Nat OBVIOUS
  <1>6. /\ capEntry'[n].shown /\ capEntry'[n].live = (capEntry[n].live \/ ~capEntry[n].shown)
        /\ capEntry'[n].total = 0 /\ capEntry'[n].count = IF capEntry[n].shown THEN capEntry[n].count ELSE 0
    BY <1>0, <1>3, <1>5, CapShowIs
  <1> QED BY <1>1, <1>2, <1>3, <1>4, <1>6, CapNoEntryIs

LEMMA CapGone ==
  ASSUME CapInv, NEW n \in CapIds
  PROVE  /\ CapCloseAnswered(n) \/ CapHearClosed(n) => ~capEntry'[n].shown /\ ~capEntry'[n].live
         /\ CapStopAnswered(n) \/ CapHearStopped(n) => ~capEntry'[n].live
  <1>0. capEntry \in [CapIds -> CapEntries] BY DEF CapInv, CapTypes, CapEntryTypes
  <1>1. CapCloseAnswered(n) \/ CapHearClosed(n) => capEntry' = CapDropped(capEntry, n)
    BY DEF CapCloseAnswered, CapHearClosed
  <1>2. CapStopAnswered(n) \/ CapHearStopped(n) => capEntry' = CapQuietened(capEntry, n)
    BY DEF CapStopAnswered, CapHearStopped
  <1> QED BY <1>0, <1>1, <1>2, CapDroppedIs, CapQuietenedIs, CapNoEntryIs

LEMMA CapShownStep ==
  ASSUME CapInv, CapNext PROVE CapShownInv'
  <1>0. CapShownInv /\ CapUnseenInv /\ CapGuardInv /\ CapCallTypes BY DEF CapInv, CapTypes
  <1> SUFFICES ASSUME NEW n \in CapIds
               PROVE  /\ capOpen'[n] => capEntry'[n].shown \/ CapUnseen(n)'
                      /\ capClose'[n] = "answered" \/ n \in capNews' => ~capOpen'[n]
                      /\ capEntry'[n].shown /\ ~capOpen'[n] =>
                           \/ n \in capNews' \/ capClose'[n] = "answered"
                           \/ {<<"batch after close", n>>, <<"closed early", n>>} \cap capGhost' # {}
                      /\ capEntry'[n].live => capEntry'[n].shown /\ (capCurrent' = n \/ capStop'[n] # "no")
                      /\ capEntry'[n].shown /\ capCurrent' = n => capEntry'[n].live
    BY DEF CapShownInv
  <1>a. /\ capOpen[n] => capEntry[n].shown \/ CapUnseen(n)
        /\ capClose[n] = "answered" \/ n \in capNews => ~capOpen[n]
        /\ capEntry[n].shown /\ ~capOpen[n] =>
             \/ n \in capNews \/ capClose[n] = "answered"
             \/ {<<"batch after close", n>>, <<"closed early", n>>} \cap capGhost # {}
        /\ capEntry[n].live => capEntry[n].shown /\ (capCurrent = n \/ capStop[n] # "no")
        /\ capEntry[n].shown /\ capCurrent = n => capEntry[n].live BY <1>0 DEF CapShownInv
  <1>b. /\ capTask[n] = "none" => CapUnseen(n) /\ n \notin capNews
        /\ CapUnseen(n) => capEntry[n] = CapNoEntry /\ capStop[n] = "no" /\ capClose[n] = "no"
    BY <1>0 DEF CapUnseenInv, CapUnseen
  <1>c. n # 0 BY CapAssumption DEF CapIds
  <1>1. ASSUME capOpen'[n], ~CapUnseen(n)' PROVE capEntry'[n].shown
    <2>1. capOpen[n] BY <1>1, CapOpenMoves
    <2>2. CASE CapUnseen(n) BY <1>1, <2>2, CapSeenBy, CapTold
    <2>3. CASE capEntry[n].shown
      <3>1. ~CapCloseAnswered(n) /\ ~CapHearClosed(n)
        BY <1>a, <2>1 DEF CapCloseAnswered, CapHearClosed
      <3> QED BY <2>3, <3>1, CapEntryMoves
    <2> QED BY <1>a, <2>1, <2>2, <2>3
  <1>2. ASSUME capClose'[n] = "answered" \/ n \in capNews' PROVE ~capOpen'[n]
    <2>1. CASE n \in capNews' BY <1>a, <1>b, <2>1, CapOpenMoves
    <2>2. CASE capClose'[n] = "answered" /\ capClose[n] = "answered"
      BY <1>a, <1>b, <2>2, CapOpenMoves
    <2>3. CASE capClose'[n] = "answered" /\ capClose[n] # "answered"
      BY <2>3, CapCloseMoves, CapOpenMoves
    <2> QED BY <1>2, <2>1, <2>2, <2>3
  <1>3. ASSUME capEntry'[n].shown, ~capOpen'[n]
        PROVE  \/ n \in capNews' \/ capClose'[n] = "answered"
               \/ <<"batch after close", n>> \in capGhost' \/ <<"closed early", n>> \in capGhost'
    <2>1. ~CapCloseAnswered(n) /\ ~CapHearClosed(n) BY <1>3, CapGone
    <2>2. CASE capEntry[n].shown
      <3>1. CASE capOpen[n] BY <1>3, <3>1, CapOpenMoves
      <3>2. CASE ~capOpen[n]
        <4>1. n \in capNews => n \in capNews' BY <2>1, CapOpenMoves
        <4>2. capClose[n] = "answered" => capClose'[n] = "answered" BY <2>1, CapCloseMoves
        <4>3. /\ <<"batch after close", n>> \in capGhost => <<"batch after close", n>> \in capGhost'
              /\ <<"closed early", n>> \in capGhost => <<"closed early", n>> \in capGhost'
          BY CapGhostGrows
        <4>4. \/ n \in capNews \/ capClose[n] = "answered"
              \/ <<"batch after close", n>> \in capGhost \/ <<"closed early", n>> \in capGhost
          BY <1>a, <2>2, <3>2
        <4> QED BY <4>1, <4>2, <4>3, <4>4
      <3> QED BY <3>1, <3>2
    <2>3. CASE ~capEntry[n].shown
      <3>1. ASSUME NEW k \in CapIds, CapAnswered(k), capStart[k].id = n
            PROVE  n \in capNews' \/ <<"closed early", n>> \in capGhost' BY <1>3, <3>1, CapTold
      <3>2. ASSUME CapHear(n), CapHearBatch(n, Head(capChan[n]).total), CapShows(n)
            PROVE  n \in capNews' \/ <<"batch after close", n>> \in capGhost'
        <4>1. capOpen' = capOpen /\ capNews' = capNews BY <3>2, CapHearCases
        <4>2. ~capOpen[n] /\ n \notin capNews => <<"batch after close", n>> \in capGhost'
          BY <3>2 DEF CapHearBatch, CapShows
        <4> QED BY <1>3, <4>1, <4>2
      <3> QED BY <1>3, <2>1, <2>3, <3>1, <3>2, CapEntryMoves
    <2> QED BY <2>2, <2>3
  <1>4. ASSUME capEntry'[n].live
        PROVE  capEntry'[n].shown /\ (capCurrent' = n \/ capStop'[n] # "no")
    <2>1. ~CapStopAnswered(n) /\ ~CapHearStopped(n) BY <1>4, CapGone
    <2>2. CASE capEntry[n].live
      <3>1. capEntry[n].shown /\ (capCurrent = n \/ capStop[n] # "no") BY <1>a, <2>2
      <3>2. capEntry'[n].shown BY <1>4, <3>1, CapEntryMoves, CapNoEntryIs
      <3>3. capCurrent = n => capCurrent' = n \/ capStop'[n] # "no" BY <2>1, CapLeaves
      <3>4. capStop[n] # "no" => capStop'[n] # "no" BY <2>1, CapStopMoves
      <3> QED BY <3>1, <3>2, <3>3, <3>4
    <2>3. CASE ~capEntry[n].live
      <3>1. ASSUME NEW k \in CapIds, CapAnswered(k), capStart[k].id = n
            PROVE  capEntry'[n].shown /\ capCurrent' = n BY <3>1, CapTold
      <3>2. ASSUME capCurrent = n, CapHearBatch(n, Head(capChan[n]).total) PROVE capCurrent' = n
        BY <3>2 DEF CapHearBatch
      <3> QED BY <1>4, <2>3, <3>1, <3>2, CapEntryMoves, CapNoEntryIs
    <2> QED BY <2>2, <2>3
  <1>5. ASSUME capEntry'[n].shown, capCurrent' = n PROVE capEntry'[n].live
    <2>1. CASE \E k \in CapIds : CapAnswered(k) /\ capStart[k].id = n BY <2>1, CapTold
    <2>2. CASE capCurrent = n /\ ~(\E k \in CapIds : CapAnswered(k))
      <3>1. ~CapStopAnswered(n) BY <1>0, <2>2 DEF CapStopAnswered, CapGuardInv
      <3>2. capEntry[n].shown => capEntry[n].live BY <1>a, <2>2
      <3> QED BY <1>5, <1>c, <2>2, <3>1, <3>2, CapEntryMoves, CapNoEntryIs
    <2> QED BY <1>5, <2>1, <2>2, CapOwns
  <1> QED BY <1>1, <1>2, <1>3, <1>4, <1>5

\* How a capture's channel changes.
LEMMA CapChanMoves ==
  ASSUME CapInv, CapNext, NEW n \in CapIds
  PROVE  \/ capChan'[n] = capChan[n] /\ capTotal'[n] = capTotal[n]
         \/ CapBatch(n)
         \/ CapEnds(n) /\ capTotal'[n] = capTotal[n] /\ capTask'[n] = "ended"
         \/ CapHear(n) /\ capTotal'[n] = capTotal[n]
  <1>0. CapCallTypes BY DEF CapInv, CapTypes
  <1>1. ASSUME NEW m \in CapIds, CapBatch(m), m # n
        PROVE  capChan'[n] = capChan[n] /\ capTotal'[n] = capTotal[n] BY <1>1, CapBatchChan
  <1>2. ASSUME NEW m \in CapIds, CapEnds(m)
        PROVE  capTotal' = capTotal /\ capTask' = [capTask EXCEPT ![m] = "ended"]
    BY <1>2 DEF CapEnds
  <1>3. ASSUME NEW m \in CapIds, CapEnds(m), m # n PROVE capChan'[n] = capChan[n]
    BY <1>3, CapEndsChan
  <1>4. ASSUME NEW m \in CapIds, CapHear(m) PROVE capTotal' = capTotal BY <1>4 DEF CapHear, capBack
  <1>5. ASSUME NEW m \in CapIds, CapHear(m), m # n PROVE capChan'[n] = capChan[n]
    BY <1>5, CapHeardChan
  <1>6. CapEnds(n) => capTask'[n] = "ended" BY <1>0, <1>2 DEF CapCallTypes
  <1> QED BY <1>1, <1>2, <1>3, <1>4, <1>5, <1>6, CapWiresStay

LEMMA CapChanStep ==
  ASSUME CapInv, CapNext PROVE CapChanInv'
  <1> SUFFICES ASSUME NEW n \in CapIds
               PROVE  /\ CapShape(capChan'[n], capTotal'[n])
                      /\ capTask'[n] = "ended" => capChan'[n] = <<>> \/ CapHas(capChan'[n], "stopped")
                      /\ CapHas(capChan'[n], "stopped") => capTask'[n] = "ended"
                      /\ capCurrent' = n /\ capTask'[n] = "ended" =>
                           capChan'[n] # <<>> \/ <<"ended early", n>> \in capGhost'
    BY DEF CapChanInv, CapShape, CapHas
  <1>a. /\ CapShape(capChan[n], capTotal[n])
        /\ capTask[n] = "ended" => capChan[n] = <<>> \/ CapHas(capChan[n], "stopped")
        /\ CapHas(capChan[n], "stopped") => capTask[n] = "ended"
        /\ capCurrent = n /\ capTask[n] = "ended" =>
             capChan[n] # <<>> \/ <<"ended early", n>> \in capGhost BY DEF CapInv, CapChanInv
  <1>b. ~CapHas(<<>>, "stopped") BY DEF CapHas
  <1>c. n # 0 /\ (capActive <=> capCurrent # 0) BY CapAssumption DEF CapIds, CapInv, CapGuardInv
  <1>d. CapBatch(n) => capTask[n] # "ended" /\ ~CapEnds(n) BY CapBatchChan, CapEndsChan
  <1>1. CapShape(capChan'[n], capTotal'[n])
    BY <1>a, CapChanMoves, CapBatchChan, CapEndsChan, CapHeardChan
  <1>2. ASSUME capTask'[n] = "ended", capChan'[n] # <<>> PROVE CapHas(capChan'[n], "stopped")
    <2>1. CASE CapEnds(n) BY <2>1, CapEndsChan
    <2>2. CASE capTask[n] = "ended"
      <3>1. CASE CapHear(n)
        <4>1. CapHas(capChan[n], "stopped") BY <1>a, <2>2, <3>1 DEF CapHear
        <4> QED BY <1>2, <3>1, <4>1, CapHeardChan
      <3> QED BY <1>2, <1>a, <1>d, <2>1, <2>2, <3>1, CapChanMoves
    <2> QED BY <1>2, <2>1, <2>2, CapTaskGoes
  <1>3. ASSUME CapHas(capChan'[n], "stopped") PROVE capTask'[n] = "ended"
    <2>1. CASE CapHear(n)
      <3>1. CapHas(capChan[n], "stopped") BY <1>3, <2>1, CapHeardChan
      <3> QED BY <1>a, <3>1, CapTaskGoes
    <2>2. ~CapBatch(n) BY <1>3, CapBatchChan
    <2> QED BY <1>3, <1>a, <2>1, <2>2, CapChanMoves, CapTaskGoes
  <1>4. ASSUME capCurrent' = n, capTask'[n] = "ended"
        PROVE  capChan'[n] # <<>> \/ <<"ended early", n>> \in capGhost'
    <2>1. CASE \E k \in CapIds : CapAnswered(k) /\ capStart[k].id = n
      <3>1. UNCHANGED <<capTask, capChan>> /\ (CapHeardEarly(n) => <<"ended early", n>> \in capGhost')
        BY <2>1, CapTold
      <3> QED BY <1>4, <3>1 DEF CapHeardEarly
    <2>2. CASE capCurrent = n
      <3>1. CASE CapEnds(n) BY <3>1, CapEndsChan
      <3>2. CASE capTask[n] = "ended" /\ ~CapEnds(n)
        <4>1. CASE capChan[n] # <<>>
          <5>1. CASE CapHear(n)
            <6>1. Head(capChan[n]).ev # "stopped"
              <7>1. ~CapHearStopped(n) BY <1>4, <1>c DEF CapHearStopped
              <7>2. Head(capChan[n]).ev \in {"batch", "update", "stopped"}
                BY <5>1, CapHeardChan, CapMessage
              <7> QED BY <1>c, <2>2, <5>1, <7>1, CapHearCases
            <6>2. CapHas(capChan'[n], "stopped") BY <1>a, <3>2, <4>1, <5>1, <6>1, CapHeardChan
            <6> QED BY <1>b, <6>2
          <5> QED BY <1>d, <3>2, <4>1, <5>1, CapChanMoves
        <4>2. CASE <<"ended early", n>> \in capGhost BY <4>2, CapGhostGrows
        <4> QED BY <1>a, <2>2, <3>2, <4>1, <4>2
      <3> QED BY <1>4, <3>1, <3>2, CapTaskGoes
    <2> QED BY <1>4, <2>1, <2>2, CapOwns
  <1> QED BY <1>1, <1>2, <1>3, <1>4

\* The updates that wait to be flushed.
LEMMA CapUpdatesMoves ==
  ASSUME CapInv, CapNext
  PROVE  \/ capUpdates' = capUpdates /\ ~CapFlush
         \/ CapFlush /\ capUpdates' = <<>> /\ capUpdates # <<>>
         \/ \E m \in CapIds : /\ CapHear(m) /\ capCurrent = m /\ capCurrent' = m /\ capEntry' = capEntry
                              /\ Head(capChan[m]).ev = "update"
                              /\ capUpdates' = Append(capUpdates, [id |-> m, total |-> Head(capChan[m]).total])
  <1>1. CASE CapFlush BY <1>1 DEF CapFlush
  <1>2. ASSUME NEW n \in CapIds, CapHear(n)
        PROVE  \/ capUpdates' = capUpdates
               \/ /\ capCurrent = n /\ capCurrent' = n /\ capEntry' = capEntry
                  /\ Head(capChan[n]).ev = "update"
                  /\ capUpdates' = Append(capUpdates, [id |-> n, total |-> Head(capChan[n]).total])
    BY <1>2, CapHearCases DEF CapHearBatch, CapHearUpdate, CapHearStopped
  <1>3. CapStops => capUpdates' = capUpdates BY DEF CapStops
  <1>4. ASSUME NEW n \in CapIds,
               \/ CapBatch(n) \/ CapEnds(n) \/ CapAgentStops(n) \/ CapAgentCloses(n)
               \/ CapStarts(n) \/ CapBegins(n) \/ CapAnswered(n)
        PROVE  capUpdates' = capUpdates
    BY <1>4 DEF CapBatch, CapEnds, CapAgentStops, CapAgentCloses, CapStarts, CapBegins, CapAnswered,
      capSession
  <1>5. ASSUME NEW n \in CapIds,
               \/ CapStopTaken(n) \/ CapStopAnswered(n) \/ CapClosing(n)
               \/ CapClosed(n) \/ CapCloseAnswered(n) \/ CapHearClosed(n)
        PROVE  capUpdates' = capUpdates
    BY <1>5 DEF CapStopTaken, CapStopAnswered, CapClosing, CapClosed, CapCloseAnswered,
      CapHearClosed, capSession
  <1> QED BY <1>1, <1>2, <1>3, <1>4, <1>5 DEF CapNext

\* All of them are of the window's capture, as is one that joins them.
LEMMA CapJoined ==
  ASSUME CapInv, NEW n \in CapIds, capCurrent = n, NEW t \in Nat, NEW more,
         more = Append(capUpdates, [id |-> n, total |-> t])
  PROVE  /\ more # <<>> /\ more[1].id = n /\ more[Len(more)].total = t
         /\ \A i \in DOMAIN more : more[i].id = n
         /\ capUpdates # <<>> => capUpdates[1].id = n
  <1> DEFINE u == [id |-> n, total |-> t]
  <1>1. capUpdates \in Seq(CapCounts) /\ u \in CapCounts
    BY DEF CapInv, CapTypes, CapUpdateTypes, CapCounts
  <1>2. u.id = n /\ u.total = t OBVIOUS
  <1>3. more = Append(capUpdates, u) OBVIOUS
  <1> HIDE DEF u
  <1>4. n # 0 BY CapAssumption DEF CapIds
  <1>5. \A i \in DOMAIN capUpdates : capUpdates[i].id = n BY <1>4 DEF CapInv, CapCountInv
  <1>6. /\ more \in Seq(CapCounts) /\ Len(more) = Len(capUpdates) + 1 /\ Len(capUpdates) \in Nat
        /\ more[Len(capUpdates) + 1] = u BY <1>1, <1>3
  <1>7. \A i \in DOMAIN more : i = Len(capUpdates) + 1 \/ (i \in DOMAIN capUpdates /\ more[i] = capUpdates[i])
    BY <1>1, <1>3
  <1>8. \A i \in DOMAIN more : more[i].id = n BY <1>2, <1>5, <1>6, <1>7
  <1>9. 1 \in DOMAIN more /\ more # <<>> BY <1>6
  <1>10. capUpdates # <<>> => 1 \in DOMAIN capUpdates BY <1>1
  <1> QED BY <1>2, <1>5, <1>6, <1>8, <1>9, <1>10

LEMMA CapIdsStep ==
  ASSUME CapInv, CapNext
  PROVE  /\ \A i, j \in DOMAIN capUpdates' : capUpdates'[i].id = capUpdates'[j].id
         /\ \A i \in DOMAIN capUpdates' : capCurrent' # 0 => capUpdates'[i].id = capCurrent'
  <1>a. /\ \A i, j \in DOMAIN capUpdates : capUpdates[i].id = capUpdates[j].id
        /\ \A i \in DOMAIN capUpdates : capCurrent # 0 => capUpdates[i].id = capCurrent
    BY DEF CapInv, CapCountInv
  <1>1. CASE capUpdates' = capUpdates
    <2>1. ASSUME NEW k \in CapIds, CapAnswered(k) PROVE DOMAIN capUpdates = {}
      <3>1. capUpdates = <<>> BY <2>1 DEF CapAnswered
      <3> QED BY <3>1
    <2> QED BY <1>1, <1>a, <2>1, CapCurrentMoves
  <1>2. CASE capUpdates' = <<>>
    <2>1. DOMAIN capUpdates' = {} BY <1>2
    <2> QED BY <2>1
  <1>3. ASSUME NEW m \in CapIds, CapHear(m), capCurrent = m, capCurrent' = m,
               capUpdates' = Append(capUpdates, [id |-> m, total |-> Head(capChan[m]).total])
        PROVE  \A i \in DOMAIN capUpdates' : capUpdates'[i].id = m
    <2>1. Head(capChan[m]).total \in Nat BY <1>3, CapHeardChan, CapMessage
    <2> QED BY <1>3, <2>1, CapJoined
  <1>4. CASE \E m \in CapIds : /\ CapHear(m) /\ capCurrent = m /\ capCurrent' = m
               /\ capUpdates' = Append(capUpdates, [id |-> m, total |-> Head(capChan[m]).total])
    BY <1>3, <1>4
  <1> QED BY <1>1, <1>2, <1>4, CapUpdatesMoves

\* The counter of n that is shown, or is about to be, is that of its lines.
CapCounted(n) ==
  IF capUpdates # <<>> /\ capUpdates[1].id = n
  THEN capUpdates[Len(capUpdates)].total = capTotal[n]
  ELSE capEntry[n].count = capTotal[n]

LEMMA CapCountStep ==
  ASSUME CapInv, CapNext PROVE CapCountInv'
  <1>0. CapCountInv /\ CapCallTypes /\ CapGuardInv BY DEF CapInv, CapTypes
  <1> SUFFICES ASSUME ~CapLate', NEW n \in CapIds, <<"tail", n>> \notin capGhost'
               PROVE  /\ CapUnseen(n)' /\ capTotal'[n] # 0 =>
                           CapHas(capChan'[n], "batch") /\ CapHas(capChan'[n], "update")
                      /\ capEntry'[n].shown =>
                           /\ CapHas(capChan'[n], "batch") \/ capEntry'[n].total = capTotal'[n]
                           /\ CapHas(capChan'[n], "update") \/ CapCounted(n)'
    BY CapIdsStep DEF CapCountInv, CapHas, CapCounted
  <1>a. ~CapLate /\ <<"tail", n>> \notin capGhost BY CapLateStays, CapGhostGrows
  <1>b. /\ CapUnseen(n) /\ capTotal[n] # 0 =>
             CapHas(capChan[n], "batch") /\ CapHas(capChan[n], "update")
        /\ capEntry[n].shown =>
             /\ CapHas(capChan[n], "batch") \/ capEntry[n].total = capTotal[n]
             /\ CapHas(capChan[n], "update") \/ CapCounted(n)
    BY <1>0, <1>a DEF CapCountInv, CapCounted
  <1>c. n # 0 /\ (capActive <=> capCurrent # 0) /\ (capCurrent = n => CapShows(n))
    BY <1>0, <1>a, CapAssumption DEF CapIds, CapGuardInv
  <1>d. ~CapHas(<<>>, "batch") /\ ~CapHas(<<>>, "update") BY DEF CapHas
  <1>e. ASSUME CapHear(n)
        PROVE  /\ Head(capChan[n]).ev \in {"batch", "update", "stopped"}
               /\ \A ev : CapHas(capChan[n], ev) => Head(capChan[n]).ev = ev \/ CapHas(capChan'[n], ev)
               /\ Head(capChan[n]).ev = "stopped" => capChan'[n] = <<>>
               /\ Head(capChan[n]).ev = "batch" => CapHas(capChan'[n], "update")
    BY <1>e, CapHeardChan, CapMessage
  <1>f. ASSUME NEW k \in CapIds, CapAnswered(k), capStart[k].id = n
        PROVE  CapUnseen(n) /\ UNCHANGED <<capTotal, capChan>> BY <1>f, CapHeardOf, CapTold
  <1>1. ASSUME CapUnseen(n)', capTotal'[n] # 0
        PROVE  CapHas(capChan'[n], "batch") /\ CapHas(capChan'[n], "update")
    <2>1. CapUnseen(n) /\ capCurrent # n BY <1>1, CapUnseenStays DEF CapInv, CapUnseenInv
    <2>2. CASE CapBatch(n) BY <2>2, CapBatchChan
    <2>3. CASE capTotal'[n] = capTotal[n] /\ (capChan'[n] = capChan[n] \/ CapEnds(n))
      BY <1>1, <1>b, <2>1, <2>3, CapEndsChan
    <2>4. CASE CapHear(n) /\ capTotal'[n] = capTotal[n]
      <3>1. Head(capChan[n]).ev = "stopped" BY <2>1, <2>4, CapHearCases
      <3> QED BY <1>1, <1>b, <1>d, <1>e, <2>1, <2>4, <3>1
    <2> QED BY <2>2, <2>3, <2>4, CapChanMoves
  <1>2. ASSUME capEntry'[n].shown
        PROVE  CapHas(capChan'[n], "batch") \/ capEntry'[n].total = capTotal'[n]
    <2>1. ASSUME NEW k \in CapIds, CapAnswered(k), capStart[k].id = n
          PROVE  CapHas(capChan'[n], "batch") \/ capEntry'[n].total = capTotal'[n]
      BY <1>b, <1>f, <2>1, CapTold
    <2>2. ASSUME CapHear(n), Head(capChan[n]).ev = "batch", capCurrent = n
          PROVE  CapHas(capChan'[n], "batch") \/ capEntry'[n].total = capTotal'[n]
      <3>1. CapHearBatch(n, Head(capChan[n]).total) /\ capTotal' = capTotal
        BY <1>c, <2>2, CapHearCases
      <3>2. capEntry' = CapShow(capEntry, n, Head(capChan[n]).total)
        BY <1>c, <2>2, <3>1 DEF CapHearBatch, CapShows
      <3>3. capEntry \in [CapIds -> CapEntries] /\ Head(capChan[n]).total \in Nat
        BY <2>2, CapHeardChan, CapMessage DEF CapInv, CapTypes, CapEntryTypes
      <3>4. capEntry'[n].total = Head(capChan[n]).total BY <3>2, <3>3, CapShowIs
      <3> QED BY <2>2, <3>1, <3>4, CapHeardChan
    <2>3. CASE /\ ~(\E k \in CapIds : CapAnswered(k) /\ capStart[k].id = n)
               /\ ~(CapHear(n) /\ Head(capChan[n]).ev = "batch" /\ capCurrent = n)
      <3>1. capEntry[n].shown /\ capEntry'[n].total = capEntry[n].total
        BY <1>2, <2>3, CapEntryMoves, CapNoEntryIs
      <3>2. CapHas(capChan[n], "batch") \/ capEntry[n].total = capTotal[n] BY <1>b, <3>1
      <3>3. CASE CapHear(n) /\ capTotal'[n] = capTotal[n]
        <4>1. Head(capChan[n]).ev # "batch"
          <5> SUFFICES ASSUME Head(capChan[n]).ev = "batch" PROVE FALSE OBVIOUS
          <5>1. Head(capChan[n]).ev # "stopped" /\ capCurrent # n BY <2>3, <3>3
          <5> QED BY <3>3, <5>1, CapHearCases
        <4> QED BY <1>e, <3>1, <3>2, <3>3, <4>1
      <3>4. CASE CapBatch(n) BY <3>4, CapBatchChan
      <3>5. CASE capTotal'[n] = capTotal[n] /\ (capChan'[n] = capChan[n] \/ CapEnds(n))
        BY <3>1, <3>2, <3>5, CapEndsChan
      <3> QED BY <3>3, <3>4, <3>5, CapChanMoves
    <2> QED BY <2>1, <2>2, <2>3
  <1>3. ASSUME capEntry'[n].shown
        PROVE  CapHas(capChan'[n], "update") \/ CapCounted(n)'
    <2>1. ASSUME NEW k \in CapIds, CapAnswered(k), capStart[k].id = n
          PROVE  CapHas(capChan'[n], "update") \/ CapCounted(n)'
      <3>1. capUpdates' = <<>> /\ capEntry'[n].count = 0 BY <2>1, CapTold
      <3> QED BY <1>b, <1>f, <2>1, <3>1 DEF CapCounted
    <2>2. CASE CapHear(n)
      <3>0. capTotal' = capTotal BY <2>2, CapHearCases
      <3>1. CASE Head(capChan[n]).ev = "batch" BY <1>e, <2>2, <3>1
      <3>2. CASE Head(capChan[n]).ev = "update"
        <4> DEFINE t == Head(capChan[n]).total
        <4>1. capCurrent = n /\ CapHearUpdate(n, t) BY <2>2, <3>2, CapHearCases
        <4>2. t \in Nat /\ (~CapHas(capChan'[n], "update") => t = capTotal[n])
          BY <2>2, <3>2, CapHeardChan, CapMessage
        <4>3. capUpdates' = Append(capUpdates, [id |-> n, total |-> t]) BY <4>1 DEF CapHearUpdate
        <4> HIDE DEF t
        <4>4. capUpdates' # <<>> /\ capUpdates'[1].id = n /\ capUpdates'[Len(capUpdates')].total = t
          BY <4>1, <4>2, <4>3, CapJoined
        <4> QED BY <3>0, <4>2, <4>4 DEF CapCounted
      <3>3. CASE Head(capChan[n]).ev = "stopped"
        <4>1. CASE capUpdates' = capUpdates /\ capEntry' = capEntry
          <5>1. CapHas(capChan[n], "update") => CapHas(capChan'[n], "update") BY <1>e, <2>2, <3>3
          <5> QED BY <1>3, <1>b, <3>0, <4>1, <5>1 DEF CapCounted
        <4>2. CASE CapHearStopped(n)
          <5>1. capUpdates = <<>> /\ capUpdates' = <<>> BY <4>2 DEF CapHearStopped
          <5>2. capEntry' = CapQuietened(capEntry, n) /\ capEntry \in [CapIds -> CapEntries]
            BY <4>2 DEF CapHearStopped, CapInv, CapTypes, CapEntryTypes
          <5>3. capEntry[n].shown /\ capEntry'[n].count = capEntry[n].count
            BY <1>3, <5>2, CapQuietenedIs
          <5>4. CapHas(capChan[n], "update") => CapHas(capChan'[n], "update") BY <1>e, <2>2, <3>3
          <5> QED BY <1>b, <3>0, <5>1, <5>3, <5>4 DEF CapCounted
        <4> QED BY <2>2, <3>3, <4>1, <4>2, CapHearCases
      <3> QED BY <1>e, <2>2, <3>1, <3>2, <3>3
    <2>3. CASE CapFlush
      <3>1. /\ capUpdates # <<>> /\ capUpdates' = <<>> /\ UNCHANGED <<capTotal, capChan>>
            /\ ~(\E k \in CapIds : CapAnswered(k) /\ capStart[k].id = n)
        BY <2>3, CapTold DEF CapFlush, capBack, capWires
      <3> DEFINE m == capUpdates[1].id
      <3>2. CASE m = n
        <4>1. capActive /\ capEntry[n].shown /\ capEntry' = [capEntry EXCEPT ![n].count = capUpdates[Len(capUpdates)].total]
          BY <2>3, <3>2 DEF CapFlush
        <4>2. capEntry \in [CapIds -> CapEntries] /\ capUpdates[Len(capUpdates)].total \in Nat
          BY <3>1, CapFlushed DEF CapInv, CapTypes, CapEntryTypes
        <4>3. capEntry'[n].count = capUpdates[Len(capUpdates)].total BY <4>1, <4>2, CapCountIs
        <4>4. CapHas(capChan[n], "update") \/ capUpdates[Len(capUpdates)].total = capTotal[n]
          BY <1>b, <3>1, <3>2, <4>1 DEF CapCounted
        <4> QED BY <3>1, <4>3, <4>4 DEF CapCounted
      <3>3. CASE m # n
        <4>1. m \in CapIds BY <3>1, CapFlushed
        <4>2. capEntry'[n] = capEntry[n]
          <5>1. capEntry' = capEntry \/ capEntry' = [capEntry EXCEPT ![m].count = capUpdates[Len(capUpdates)].total]
            BY <2>3 DEF CapFlush
          <5>2. capEntry \in [CapIds -> CapEntries] /\ capUpdates[Len(capUpdates)].total \in Nat
            BY <3>1, CapFlushed DEF CapInv, CapTypes, CapEntryTypes
          <5> HIDE DEF m
          <5> QED BY <3>3, <4>1, <5>1, <5>2, CapCountIs
        <4> QED BY <1>3, <1>b, <3>1, <3>3, <4>2 DEF CapCounted
      <3> QED BY <3>2, <3>3
    <2>4. CASE /\ ~(\E k \in CapIds : CapAnswered(k) /\ capStart[k].id = n)
               /\ ~CapHear(n) /\ ~CapFlush
      <3>1. capEntry[n].shown /\ capEntry'[n].count = capEntry[n].count
        BY <1>3, <2>4, CapEntryMoves, CapNoEntryIs
      <3>2. CASE CapBatch(n) BY <3>2, CapBatchChan
      <3>3. CASE capTotal'[n] = capTotal[n] /\ (capChan'[n] = capChan[n] \/ CapEnds(n))
        <4>1. CapHas(capChan[n], "update") => CapHas(capChan'[n], "update") BY <3>3, CapEndsChan
        <4>2. CapCounted(n) => CapCounted(n)'
          <5>1. CASE capUpdates' = capUpdates BY <3>1, <3>3, <5>1 DEF CapCounted
          <5>2. ASSUME NEW m \in CapIds, m # n, CapHear(m), capCurrent = m,
                       capUpdates' = Append(capUpdates, [id |-> m, total |-> Head(capChan[m]).total])
                PROVE  CapCounted(n) => CapCounted(n)'
            <6>1. Head(capChan[m]).total \in Nat BY <5>2, CapHeardChan, CapMessage
            <6>2. capUpdates'[1].id = m /\ (capUpdates # <<>> => capUpdates[1].id = m)
              BY <5>2, <6>1, CapJoined
            <6> QED BY <3>1, <3>3, <5>2, <6>2 DEF CapCounted
          <5> QED BY <2>4, <5>1, <5>2, CapUpdatesMoves
        <4> QED BY <1>b, <3>1, <4>1, <4>2
      <3> QED BY <2>4, <3>2, <3>3, CapChanMoves
    <2> QED BY <2>1, <2>2, <2>3, <2>4
  <1> QED BY <1>1, <1>2, <1>3

LEMMA CapStep == CapInv /\ [CapNext]_capVars => CapInv'
  <1> SUFFICES ASSUME CapInv, [CapNext]_capVars PROVE CapInv' OBVIOUS
  <1>1. CASE CapNext
    BY <1>1, CapTypesStep, CapStartStep, CapUnseenStep, CapGuardStep, CapShownStep, CapChanStep,
      CapCountStep DEF CapInv
  <1>2. CASE UNCHANGED capVars
    <2>1. UNCHANGED <<capTask, capOpen, capTotal, capChan, capNews, capStart, capStop, capClose,
                      capStatus, capCurrent, capActive, capStarting, capUpdates, capEntry, capGhost>>
      BY <1>2 DEF capVars, capBack, capWires, capCalls, capSession, capHist
    <2>2. CapTypes'
      BY <2>1 DEF CapInv, CapTypes, CapCallTypes, CapStatusTypes, CapWireTypes, CapUpdateTypes,
        CapEntryTypes
    <2>3. \A n \in CapIds : /\ CapUnseen(n)' <=> CapUnseen(n)
                            /\ CapShows(n)' <=> CapShows(n)
                            /\ CapInFlight(n)' <=> CapInFlight(n)
      BY <2>1 DEF CapUnseen, CapShows, CapInFlight
    <2>4. CapLate' <=> CapLate BY <2>1 DEF CapLate
    <2>5. CapStartInv' /\ CapUnseenInv' BY <2>1, <2>3 DEF CapInv, CapStartInv, CapUnseenInv
    <2>6. CapGuardInv' /\ CapShownInv' BY <2>1, <2>3, <2>4 DEF CapInv, CapGuardInv, CapShownInv
    <2>7. CapChanInv' BY <2>1 DEF CapInv, CapChanInv
    <2>8. CapCountInv' BY <2>1, <2>3, <2>4 DEF CapInv, CapCountInv
    <2> QED BY <2>2, <2>5, <2>6, <2>7, <2>8 DEF CapInv
  <1> QED BY <1>1, <1>2

\* Types of what the window shows of its captures and of the tasks it
\* drives (createStreamSession.ts): no tab has more lines, or a higher
\* count, than the back end's session.
THEOREM CaptureTypeCorrect == CapSpec => []CapTypeOK
  <1>1. CapInv => CapTypeOK
    BY DEF CapInv, CapTypes, CapCallTypes, CapStatusTypes, CapWireTypes, CapEntryTypes, CapStatuses,
      CapTypeOK
  <1> QED BY <1>1, CapInitially, CapStep, PTL DEF CapSpec

\* Once everything has been heard, what the window shows of its captures
\* (handleChannelEvent, start, stop of createStreamSession.ts; close of
\* actions.ts) is what there is of them: the capture that runs is the one
\* that it can stop, the tabs are the sessions, their lines and counts are
\* the back end's, except where a message is known to have passed another.
THEOREM CaptureSettles == CapSpec => []CapSettles
  <1>1. ASSUME CapInv PROVE CapSettles
    <2> SUFFICES ASSUME CapQuiet, NEW n \in CapIds
                 PROVE  /\ capTask[n] = "runs" => capCurrent = n
                        /\ capCurrent = n => capTask[n] = "runs" \/ <<"ended early", n>> \in capGhost
                        /\ CapLate \/ (capCurrent = n) = (capStatus.phase = "streaming" /\ capStatus.id = n)
                        /\ {<<"batch after close", n>>, <<"closed early", n>>} \cap capGhost = {} =>
                             capEntry[n].shown = capOpen[n]
                        /\ capEntry[n].live = (capCurrent = n /\ capEntry[n].shown)
                        /\ capEntry[n].shown /\ <<"tail", n>> \notin capGhost /\ ~CapLate =>
                             capEntry[n].total = capTotal[n] /\ capEntry[n].count = capTotal[n]
      BY DEF CapSettles
    <2>1. /\ capNews = {} /\ capUpdates = <<>> /\ ~capStarting
          /\ capChan[n] = <<>> /\ capStop[n] = "no" /\ capClose[n] = "no" /\ capTask[n] # "cancelled"
      BY DEF CapQuiet
    <2>2. CapUnseen(n) <=> capTask[n] = "none"
      BY <1>1, <2>1 DEF CapUnseen, CapInv, CapStartInv, CapInFlight
    <2>3. /\ capTask[n] \in {"none", "runs", "cancelled", "ended"} /\ capOpen[n] \in BOOLEAN
          /\ capEntry[n].shown \in BOOLEAN /\ capEntry[n].live \in BOOLEAN
      <3>1. capEntry[n] \in CapEntries BY <1>1 DEF CapInv, CapTypes, CapEntryTypes
      <3> QED BY <1>1, <3>1 DEF CapInv, CapTypes, CapCallTypes, CapEntries
    <2>4. capTask[n] = "runs" => capCurrent = n BY <1>1, <2>1, <2>2 DEF CapInv, CapGuardInv
    <2>5. capCurrent = n => capTask[n] = "runs" \/ <<"ended early", n>> \in capGhost
      BY <1>1, <2>1, <2>2, <2>3 DEF CapInv, CapUnseenInv, CapChanInv
    <2>6. CapLate \/ (capCurrent = n <=> CapShows(n)) BY <1>1, <2>1 DEF CapInv, CapGuardInv
    <2>7. {<<"batch after close", n>>, <<"closed early", n>>} \cap capGhost = {} =>
            (capEntry[n].shown <=> capOpen[n])
      <3>1. capTask[n] = "none" => ~capOpen[n] BY <1>1 DEF CapInv, CapUnseenInv
      <3> QED BY <1>1, <2>1, <2>2, <3>1 DEF CapInv, CapShownInv
    <2>8. capEntry[n].live <=> capCurrent = n /\ capEntry[n].shown
      BY <1>1, <2>1 DEF CapInv, CapShownInv
    <2>9. capEntry[n].shown /\ <<"tail", n>> \notin capGhost /\ ~CapLate =>
            capEntry[n].total = capTotal[n] /\ capEntry[n].count = capTotal[n]
      BY <1>1, <2>1 DEF CapInv, CapCountInv, CapHas
    <2>10. CapLate \/ (capCurrent = n) = (capStatus.phase = "streaming" /\ capStatus.id = n)
      BY <2>6 DEF CapShows
    <2>11. capEntry[n].live = (capCurrent = n /\ capEntry[n].shown) BY <2>3, <2>8
    <2>12. {<<"batch after close", n>>, <<"closed early", n>>} \cap capGhost = {} =>
             capEntry[n].shown = capOpen[n] BY <2>3, <2>7
    <2> QED BY <2>4, <2>5, <2>9, <2>10, <2>11, <2>12
  <1> QED BY <1>1, CapInitially, CapStep, PTL DEF CapSpec
=============================================================================
