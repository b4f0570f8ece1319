-------------------------- MODULE Autosave_proofs --------------------------
\* Proofs about the auto-save: for any sets of workspaces and sessions, any
\* number of artifacts and any interleaving of flushes, saves, deletions,
\* renames, windows and the exit of the process, an artifact whose
\* generation reads as flushed was in a file, and is in the files still
\* while the scheduler is their only writer; the exit loses nothing; no
\* flush writes an emptied workspace; the list names a missing file only
\* where a deletion is about to write it or was undone; and nothing but an
\* edit that overlapped the deletion lists a deleted workspace again.
EXTENDS Autosave, TLAPS

Locals == [pc : FlushPcs, seen : Nat, env : Envelopes \cup {None}, sess : SUBSET Sess,
           art : SUBSET Artifacts]

\* A flush has seen a generation that exists; the artifacts up to it are in
\* the snapshot it is going to write, or were in a file once it has written.
FlushInv(f) ==
  /\ flush[f].seen \in Nat /\ flush[f].seen <= gen
  /\ flush[f].pc = "write" => 1 .. flush[f].seen \subseteq flush[f].art
  /\ flush[f].pc \in {"record", "done"} => 1 .. flush[f].seen \subseteq reached

\* The store holds every artifact, and so the strengthening of
\* CleanMeansReached: all up to the flushed generation reached a file.
ReachInv ==
  /\ made \in Nat /\ gen \in Nat /\ flushed \in Nat
  /\ live \subseteq Sess /\ envelope \in Envelopes \cup {None}
  /\ gen <= made /\ flushed <= gen /\ made <= MaxMut /\ store = 1 .. made
  /\ 1 .. flushed \subseteq reached /\ flush \in [Flushers -> Locals]
  /\ \A f \in Flushers : FlushInv(f)

\* The locals of a flush that starts, or is over, have their type.
LEMMA StartLocals ==
  ASSUME NEW n \in Nat, NEW pc \in FlushPcs
  PROVE  Starting(pc, n, None) \in Locals BY DEF Starting, Locals

LEMMA IdleLocals == Idle \in Locals BY StartLocals DEF Idle, FlushPcs

LEMMA ReachInit == Init => ReachInv
<1>. SUFFICES ASSUME Init PROVE ReachInv OBVIOUS
<1>1. flush \in [Flushers -> Locals] BY IdleLocals DEF Init
<1>2. ASSUME NEW f \in Flushers PROVE FlushInv(f) BY DEF Init, FlushInv, Idle, Starting
<1>3. envelope \in Envelopes BY AutosaveAssumption DEF Init, Envelopes
<1>4. 0 <= MaxMut BY AutosaveAssumption
<1>. QED BY <1>1, <1>2, <1>3, <1>4 DEF Init, ReachInv

\* A flush that starts sees the generation as it is.
LEMMA Starts ==
  ASSUME ReachInv, NEW g \in Flushers,
         flush' = [flush EXCEPT ![g] = Starting("gate", gen, None)],
         UNCHANGED <<live, store, made, gen, flushed, envelope, reached>>
  PROVE  ReachInv'
<1>1. flush' \in [Flushers -> Locals] BY StartLocals DEF ReachInv, FlushPcs
<1>2. ASSUME NEW f \in Flushers PROVE FlushInv(f)' BY <1>1 DEF ReachInv, FlushInv, Starting
<1>. QED BY <1>1, <1>2 DEF ReachInv

\* A flush that gives up keeps no promise.
LEMMA GivesUp ==
  ASSUME ReachInv, NEW g \in Flushers, flush' = [flush EXCEPT ![g] = Idle],
         UNCHANGED <<live, store, made, gen, flushed, envelope, reached>>
  PROVE  ReachInv'
<1>1. flush' \in [Flushers -> Locals] BY IdleLocals DEF ReachInv
<1>2. ASSUME NEW f \in Flushers PROVE FlushInv(f)' BY <1>1 DEF ReachInv, FlushInv, Idle, Starting
<1>. QED BY <1>1, <1>2 DEF ReachInv

\* What a flush does keeps the invariant.
LEMMA FlushStep ==
  ASSUME ReachInv, NEW g \in Flushers, Flush(g)
  PROVE  ReachInv'
<1>. USE DEF clock, shell, files, list, Local
<1>1. CASE Gate(g)
  <2>1. CASE window BY <1>1, <2>1, GivesUp DEF Gate, ReachInv
  <2>2. CASE ~window BY SMTT(30), <1>1, <2>2 DEF Gate, ReachInv, FlushInv, Locals, FlushPcs
  <2>. QED BY <2>1, <2>2
<1>2. CASE CloneEnvelope(g)
  <2>1. CASE envelope = None BY <1>2, <2>1, GivesUp DEF CloneEnvelope, ReachInv
  <2>2. CASE envelope # None
    BY ZenonT(30), <1>2, <2>2 DEF CloneEnvelope, ReachInv, FlushInv, Locals, FlushPcs
  <2>. QED BY <2>1, <2>2
<1>3. CASE Collect(g) BY ZenonT(30), <1>3 DEF Collect, ReachInv, FlushInv, Locals, FlushPcs
<1>4. CASE Recheck(g)
  <2>1. CASE Diverges(flush[g].env.expected, live) BY <1>4, <2>1, GivesUp DEF Recheck, ReachInv
  <2>2. CASE ~Diverges(flush[g].env.expected, live)
    BY <1>4, <2>2 DEF Recheck, ReachInv, FlushInv, Locals, FlushPcs
  <2>. QED BY <2>1, <2>2
<1>5. CASE TakeArtifacts(g)
  <2>1. /\ flush' = [flush EXCEPT ![g].pc = "write", ![g].art = store]
        /\ UNCHANGED <<live, store, made, gen, flushed, envelope, reached>>
    BY <1>5 DEF TakeArtifacts
  <2>2. flush' \in [Flushers -> Locals]
    <3>1. store \in SUBSET Artifacts BY AutosaveAssumption DEF ReachInv, Artifacts
    <3>2. [flush[g] EXCEPT !.pc = "write", !.art = store] \in Locals
      BY <3>1 DEF ReachInv, Locals, FlushPcs
    <3>. QED BY <2>1, <3>2 DEF ReachInv
  <2>3. ASSUME NEW f \in Flushers PROVE FlushInv(f)'
    <3>1. CASE f # g BY <2>1, <3>1 DEF ReachInv, FlushInv
    <3>2. CASE f = g BY <2>1, <3>2 DEF ReachInv, FlushInv, Locals
    <3>. QED BY <3>1, <3>2
  <2>. QED BY <2>1, <2>2, <2>3 DEF ReachInv
<1>6. CASE WriteFile(g)
  <2>1. /\ flush' = [flush EXCEPT ![g].pc = "record"] /\ flush' \in [Flushers -> Locals]
        /\ reached' = reached \cup flush[g].art /\ flush[g].pc = "write"
        /\ UNCHANGED <<live, store, made, gen, flushed, envelope>>
    BY <1>6 DEF WriteFile, ReachInv, Locals, FlushPcs
  <2>2. ASSUME NEW f \in Flushers PROVE FlushInv(f)'
    BY <2>1, <2>2 DEF ReachInv, FlushInv, Locals, FlushPcs
  <2>. QED BY <2>1, <2>2 DEF ReachInv
<1>7. CASE RecordSave(g) BY <1>7 DEF RecordSave, ReachInv, FlushInv, Locals, FlushPcs
<1>8. CASE FlushDone(g)
  <2>1. /\ flush' = [flush EXCEPT ![g] = Idle] /\ flush' \in [Flushers -> Locals]
        /\ flushed' = flush[g].seen /\ flush[g].pc = "done"
        /\ UNCHANGED <<live, store, made, gen, envelope, reached>>
    BY <1>8, IdleLocals DEF FlushDone, ReachInv
  <2>2. ASSUME NEW f \in Flushers PROVE FlushInv(f)'
    BY <2>1, <2>2 DEF ReachInv, FlushInv, Idle, Starting
  <2>3. flush[g].seen \in Nat /\ flush[g].seen <= gen /\ 1 .. flush[g].seen \subseteq reached
    BY <2>1 DEF ReachInv, FlushInv
  <2>. QED BY <2>1, <2>2, <2>3 DEF ReachInv
<1>. QED BY <1>1, <1>2, <1>3, <1>4, <1>5, <1>6, <1>7, <1>8 DEF Flush

\* What the edits of the list leave alone, and that what a deletion takes
\* away only a deletion does.
LEMMA EditFrame ==
  ASSUME NEW c \in Editors, Edit(c)
  PROVE  /\ UNCHANGED <<store, made, gen, flushed, signal, flush, save, reached, phase>>
         /\ live' \subseteq live /\ envelope' \in {envelope, None}
         /\ window' = window \/ window' \in BOOLEAN
         /\ \/ count' = count \/ Counts("delete", MaxDelete)
            \/ Counts("rename", MaxRename) \/ Counts("fail", MaxFail)
         /\ \/ UNCHANGED <<disk, live, envelope, window>> /\ phase = "running"
            \/ edits[c] # None /\ edits[c].op = "delete"
            \/ Counts("delete", MaxDelete)
<1>. USE DEF clock, shell, files, list
<1>1. ASSUME NEW w \in Ids, NEW file \in BOOLEAN, DeleteBegin(c, w, file)
      PROVE  /\ UNCHANGED <<store, made, gen, flushed, signal, flush, save, reached, phase, live, envelope>>
             /\ Counts("delete", MaxDelete) /\ window' \in BOOLEAN BY <1>1 DEF DeleteBegin
<1>2. ASSUME NEW s \in Sess, DeleteCloses(c, s)
      PROVE  /\ UNCHANGED <<store, made, gen, flushed, signal, flush, save, reached, phase, envelope, window, count>>
             /\ live' \subseteq live /\ edits[c] # None /\ edits[c].op = "delete"
  BY <1>2 DEF DeleteCloses, Editing
<1>3. ASSUME NEW w \in Ids, RenameReads(c, w)
      PROVE  /\ UNCHANGED <<store, made, gen, flushed, signal, flush, save, reached, phase, live, envelope, window, disk>>
             /\ Counts("rename", MaxRename) /\ phase = "running" BY <1>3 DEF RenameReads
<1>4. CASE DeleteClears(c) BY <1>4 DEF DeleteClears, Editing
<1>5. CASE DeleteRemoves(c) BY <1>5 DEF DeleteRemoves, Editing
<1>6. CASE DeleteSaves(c) \/ RenameSaves(c) BY <1>6 DEF DeleteSaves, RenameSaves, WritesList, Editing
<1>7. CASE EditFails(c) BY <1>7 DEF EditFails, Editing
<1>. QED BY <1>1, <1>2, <1>3, <1>4, <1>5, <1>6, <1>7 DEF Edit

\* Every handler keeps the invariant.
LEMMA HandlerStep ==
  ASSUME ReachInv, Handlers
  PROVE  ReachInv'
<1>. USE DEF clock, shell, files, list, ReachInv, FlushInv
<1>1. CASE Mutate
  <2>1. made' = made + 1 /\ made' <= MaxMut /\ made' \in Nat BY <1>1, AutosaveAssumption DEF Mutate
  <2>2. store' = 1 .. made' BY <1>1 DEF Mutate
  <2>. QED BY <1>1, <2>1, <2>2 DEF Mutate
<1>2. CASE ScheduleAutosave BY <1>2 DEF ScheduleAutosave
<1>3. ASSUME NEW s \in Sess, OpenSession(s) \/ CloseSession(s) PROVE ReachInv'
  BY <1>3 DEF OpenSession, CloseSession
<1>4. ASSUME NEW w \in Ids, NEW explicit \in BOOLEAN, Save(w, explicit) \/ SyncEnvelope(w, explicit)
      PROVE  ReachInv' BY <1>4 DEF Save, SyncEnvelope, Stamped, Envelopes
<1>5. CASE SaveCollect BY <1>5 DEF SaveCollect
<1>6. CASE SaveWrite BY <1>6 DEF SaveWrite
<1>7. CASE BeginSwitch \/ WindowLapses BY <1>7 DEF BeginSwitch, WindowLapses
<1>8. ASSUME NEW c \in Editors, Edit(c) PROVE ReachInv' BY <1>8, EditFrame
<1>. QED BY <1>1, <1>2, <1>3, <1>4, <1>5, <1>6, <1>7, <1>8 DEF Handlers

LEMMA ReachStep == ReachInv /\ [Next]_vars => ReachInv'
<1>. SUFFICES ASSUME ReachInv, [Next]_vars PROVE ReachInv' OBVIOUS
<1>. USE DEF clock, shell, files, list
<1>1. CASE Handlers BY <1>1, HandlerStep
<1>2. CASE Debounced BY <1>2, Starts DEF Debounced, Flushers
<1>3. CASE ExitFlush
  <2>1. CASE Pending BY <1>3, <2>1, Starts DEF ExitFlush, Flushers
  <2>2. CASE ~Pending BY <1>3, <2>2 DEF ExitFlush, ReachInv, FlushInv
  <2>. QED BY <2>1, <2>2
<1>4. CASE Gone BY <1>4 DEF Gone, ReachInv, FlushInv
<1>5. ASSUME NEW f \in Flushers, Flush(f) PROVE ReachInv' BY <1>5, FlushStep
<1>6. ASSUME NEW f \in Flushers, FlushFails(f) PROVE ReachInv' BY <1>6, GivesUp DEF FlushFails
<1>7. CASE UNCHANGED vars BY <1>7 DEF vars, ReachInv, FlushInv
<1>. QED BY <1>1, <1>2, <1>3, <1>4, <1>5, <1>6, <1>7 DEF Next

\* CleanMeansReached in every reachable state: has_pending_flush is false
\* only when every artifact that was scheduled was written to some file.
THEOREM CleanReached == Spec => []CleanMeansReached
<1>1. ReachInv => CleanMeansReached BY DEF ReachInv, CleanMeansReached, Pending
<1>. QED BY <1>1, ReachInit, ReachStep, PTL DEF Spec

----------------------------------------
\* The types of what the first invariant leaves alone, and the envelope a
\* flush works with once it has taken it.
SaveLocals == [pc : {"idle", "collect", "write"}, seen : Nat, env : Envelopes \cup {None},
               sess : SUBSET Sess, art : SUBSET Artifacts]
CountRecs == [save : Nat, fail : Nat, rename : Nat, open : Nat, close : Nat, delete : Nat,
              window : Nat]
Kinds == {"save", "fail", "rename", "open", "close", "delete", "window"}
Enveloped == {"collect", "recheck", "artifacts", "write", "record", "done"}

ProcInv ==
  /\ signal \in BOOLEAN /\ window \in BOOLEAN /\ phase \in {"running", "exiting", "gone"}
  /\ count \in CountRecs

WritersInv ==
  /\ reached \subseteq Artifacts
  /\ save \in SaveLocals /\ (save.pc # "idle" => save.env \in Envelopes)
  /\ \A f \in Flushers : flush[f].pc \in Enveloped => flush[f].env \in Envelopes
  /\ disk \in [Dests -> Contents \cup {None}]

ListTypes ==
  /\ entries \in EntryLists /\ active \in Ids \cup {None}
  /\ edits \in [Editors -> Edits \cup {None}] /\ undone \subseteq Ids

RestInv == ProcInv /\ WritersInv /\ ListTypes

\* Where an envelope sends its file is one of the files.
LEMMA DestIsDest == \A env \in Envelopes : FlushDest(env) \in Dests
BY DEF Envelopes, FlushDest, Dests

LEMMA StampedEnvelope ==
  ASSUME live \subseteq Sess, NEW w \in Ids, NEW explicit \in BOOLEAN
  PROVE  Stamped(w, explicit) \in Envelopes BY DEF Stamped, Envelopes

\* One more event of a kind.
LEMMA Counted ==
  ASSUME count \in CountRecs, NEW kind \in Kinds, NEW bound, Counts(kind, bound)
  PROVE  /\ count' \in CountRecs /\ count'[kind] # 0
         /\ \A k \in Kinds \ {kind} : count'[k] = count[k] BY DEF Counts, CountRecs, Kinds

LEMMA RestInit == Init => RestInv
<1>. SUFFICES ASSUME Init PROVE RestInv OBVIOUS
<1>1. ProcInv BY DEF Init, ProcInv, CountRecs
<1>2. WritersInv BY DEF Init, WritersInv, SaveLocals, Idle, Starting, Enveloped
<1>3. ListTypes BY AutosaveAssumption DEF Init, ListTypes, EntryLists
<1>. QED BY <1>1, <1>2, <1>3 DEF RestInv

LEMMA ProcStep == ProcInv /\ [Next]_vars => ProcInv'
<1>. SUFFICES ASSUME ProcInv, [Next]_vars PROVE ProcInv' OBVIOUS
<1>. USE DEF clock, shell, files, list, ProcInv
<1>1. ASSUME NEW kind \in Kinds, NEW bound, Counts(kind, bound),
             signal' = signal, phase' = phase, window' \in BOOLEAN
      PROVE  ProcInv' BY <1>1, Counted
<1>2. CASE Handlers
  <2>1. CASE Mutate \/ ScheduleAutosave \/ SaveCollect \/ SaveWrite \/ WindowLapses
    BY <2>1 DEF Mutate, ScheduleAutosave, SaveCollect, SaveWrite, WindowLapses
  <2>2. ASSUME NEW s \in Sess, OpenSession(s) \/ CloseSession(s) PROVE ProcInv'
    BY <2>2, <1>1 DEF OpenSession, CloseSession, Kinds
  <2>3. ASSUME NEW w \in Ids, NEW explicit \in BOOLEAN, Save(w, explicit) \/ SyncEnvelope(w, explicit)
        PROVE  ProcInv' BY <2>3, <1>1 DEF Save, SyncEnvelope, Kinds
  <2>4. CASE BeginSwitch BY <2>4, <1>1 DEF BeginSwitch, Kinds
  <2>5. ASSUME NEW c \in Editors, Edit(c) PROVE ProcInv'
    <3>1. signal' = signal /\ phase' = phase /\ window' \in BOOLEAN BY <2>5, EditFrame
    <3>. QED BY <3>1, <2>5, EditFrame, <1>1 DEF Kinds
  <2>. QED BY <1>2, <2>1, <2>2, <2>3, <2>4, <2>5 DEF Handlers
<1>3. CASE Debounced \/ ExitFlush \/ Gone BY <1>3 DEF Debounced, ExitFlush, Gone
<1>4. ASSUME NEW f \in Flushers, Flush(f) PROVE ProcInv'
  BY <1>4 DEF Flush, Gate, CloneEnvelope, Collect, Recheck, TakeArtifacts, WriteFile, RecordSave,
    FlushDone, Local
<1>5. ASSUME NEW f \in Flushers, FlushFails(f) PROVE ProcInv' BY <1>5, <1>1 DEF FlushFails, Kinds
<1>6. CASE UNCHANGED vars BY <1>6 DEF vars
<1>. QED BY <1>2, <1>3, <1>4, <1>5, <1>6 DEF Next

\* A flush that starts or gives up has no envelope, and one that goes on
\* keeps the one it took.
EnvInv == \A f \in Flushers : flush[f].pc \in Enveloped => flush[f].env \in Envelopes

LEMMA EnvFlush ==
  ASSUME ReachInv, EnvInv, NEW g \in Flushers, Flush(g)
  PROVE  EnvInv'
<1>. USE DEF ReachInv, EnvInv, Locals, FlushPcs, Enveloped, Idle, Starting
<1>1. CASE Gate(g) BY <1>1 DEF Gate
<1>2. CASE CloneEnvelope(g)
  <2>1. CASE envelope = None BY <1>2, <2>1 DEF CloneEnvelope
  <2>2. CASE envelope # None BY <1>2, <2>2 DEF CloneEnvelope
  <2>. QED BY <2>1, <2>2
<1>3. CASE Collect(g) BY <1>3 DEF Collect
<1>4. CASE Recheck(g) BY <1>4 DEF Recheck
<1>5. CASE TakeArtifacts(g) BY <1>5 DEF TakeArtifacts
<1>6. CASE WriteFile(g) BY <1>6 DEF WriteFile
<1>7. CASE RecordSave(g) BY <1>7 DEF RecordSave
<1>8. CASE FlushDone(g) BY <1>8 DEF FlushDone
<1>. QED BY <1>1, <1>2, <1>3, <1>4, <1>5, <1>6, <1>7, <1>8 DEF Flush

\* The write of a snapshot keeps the files what they are.
LEMMA WrittenFiles ==
  ASSUME disk \in [Dests -> Contents \cup {None}], NEW env \in Envelopes,
         NEW s \in SUBSET Sess, NEW a \in SUBSET Artifacts,
         disk' = [disk EXCEPT ![FlushDest(env)] = [sess |-> s, art |-> a]]
  PROVE  disk' \in [Dests -> Contents \cup {None}]
<1>1. [sess |-> s, art |-> a] \in Contents BY DEF Contents
<1>. QED BY <1>1

LEMMA WritersStep == ReachInv /\ WritersInv /\ [Next]_vars => WritersInv'
<1>. SUFFICES ASSUME ReachInv, WritersInv, [Next]_vars PROVE WritersInv' OBVIOUS
<1>. USE DEF clock, shell, files, list
<1>a. ASSUME UNCHANGED <<reached, save, flush, disk>> PROVE WritersInv' BY <1>a DEF WritersInv
<1>b. ASSUME UNCHANGED <<reached, save, disk>>, EnvInv' PROVE WritersInv'
  BY <1>b DEF WritersInv, EnvInv
<1>e. EnvInv BY DEF WritersInv, EnvInv
<1>1. CASE Handlers
  <2>1. CASE Mutate \/ ScheduleAutosave \/ WindowLapses \/ BeginSwitch
    BY <2>1, <1>a DEF Mutate, ScheduleAutosave, WindowLapses, BeginSwitch
  <2>2. ASSUME NEW s \in Sess, OpenSession(s) \/ CloseSession(s) PROVE WritersInv'
    BY <2>2, <1>a DEF OpenSession, CloseSession
  <2>3. ASSUME NEW w \in Ids, NEW explicit \in BOOLEAN, Save(w, explicit) PROVE WritersInv'
    <3>1. Stamped(w, explicit) \in Envelopes BY StampedEnvelope DEF ReachInv
    <3>2. save' = Starting("collect", 0, Stamped(w, explicit)) /\ UNCHANGED <<reached, flush, disk>>
      BY <2>3 DEF Save
    <3>3. save' \in SaveLocals /\ save'.env \in Envelopes BY <3>1, <3>2 DEF SaveLocals, Starting
    <3>. QED BY <3>2, <3>3 DEF WritersInv
  <2>4. ASSUME NEW w \in Ids, NEW explicit \in BOOLEAN, SyncEnvelope(w, explicit) PROVE WritersInv'
    BY <2>4, <1>a DEF SyncEnvelope
  <2>5. CASE SaveCollect
    <3>1. save' = [save EXCEPT !.pc = "write", !.sess = live, !.art = store]
          /\ save.pc = "collect" /\ UNCHANGED <<reached, flush, disk>> BY <2>5 DEF SaveCollect
    <3>2. live \in SUBSET Sess /\ store \in SUBSET Artifacts
      BY AutosaveAssumption DEF ReachInv, Artifacts
    <3>3. save \in SaveLocals /\ save.env \in Envelopes BY <3>1 DEF WritersInv
    <3>4. save' \in SaveLocals /\ save'.env \in Envelopes BY <3>1, <3>2, <3>3 DEF SaveLocals
    <3>. QED BY <3>1, <3>4 DEF WritersInv
  <2>6. CASE SaveWrite
    <3>1. /\ disk' = [disk EXCEPT ![FlushDest(save.env)] = [sess |-> save.sess, art |-> save.art]]
          /\ reached' = reached \cup save.art /\ save' = Idle /\ save.pc = "write"
          /\ flush' = flush BY <2>6 DEF SaveWrite
    <3>2. save.env \in Envelopes /\ save.sess \in SUBSET Sess /\ save.art \in SUBSET Artifacts
      BY <3>1 DEF WritersInv, SaveLocals
    <3>3. disk' \in [Dests -> Contents \cup {None}] BY <3>1, <3>2, WrittenFiles DEF WritersInv
    <3>4. save' \in SaveLocals /\ save'.pc = "idle" BY <3>1 DEF SaveLocals, Idle, Starting
    <3>. QED BY <3>1, <3>2, <3>3, <3>4 DEF WritersInv
  <2>7. ASSUME NEW c \in Editors, Edit(c) PROVE WritersInv'
    <3>1. CASE DeleteRemoves(c)
      <4>1. disk' \in [Dests -> Contents \cup {None}] /\ UNCHANGED <<reached, save, flush>>
        BY <3>1 DEF DeleteRemoves, WritersInv
      <4>. QED BY <4>1 DEF WritersInv
    <3>2. CASE ~DeleteRemoves(c)
      <4>1. disk' = disk BY <2>7, <3>2 DEF Edit, DeleteBegin, DeleteCloses, DeleteClears,
         DeleteSaves, RenameReads, RenameSaves, WritesList, EditFails
      <4>. QED BY <4>1, <2>7, EditFrame, <1>a
    <3>. QED BY <3>1, <3>2
  <2>. QED BY <1>1, <2>1, <2>2, <2>3, <2>4, <2>5, <2>6, <2>7 DEF Handlers
<1>2. CASE Debounced
  <2>1. flush' = [flush EXCEPT !["scheduler"] = Starting("gate", gen, None)]
        /\ UNCHANGED <<reached, save, disk>> BY <1>2 DEF Debounced
  <2>2. EnvInv' BY <2>1, <1>e DEF EnvInv, ReachInv, Starting, Enveloped
  <2>. QED BY <2>1, <2>2, <1>b
<1>3. CASE ExitFlush
  <2>1. CASE Pending
    <3>1. flush' = [flush EXCEPT !["exit"] = Starting("gate", gen, None)]
          /\ UNCHANGED <<reached, save, disk>> BY <1>3, <2>1 DEF ExitFlush
    <3>2. EnvInv' BY <3>1, <1>e DEF EnvInv, ReachInv, Starting, Enveloped
    <3>. QED BY <3>1, <3>2, <1>b
  <2>2. CASE ~Pending BY <1>3, <2>2, <1>a DEF ExitFlush
  <2>. QED BY <2>1, <2>2
<1>4. CASE Gone BY <1>4, <1>a DEF Gone
<1>5. ASSUME NEW f \in Flushers, Flush(f) PROVE WritersInv'
  <2>1. EnvInv' BY <1>5, <1>e, EnvFlush
  <2>2. CASE WriteFile(f)
    <3>1. /\ disk' = [disk EXCEPT ![FlushDest(flush[f].env)] = [sess |-> flush[f].sess, art |-> flush[f].art]]
          /\ reached' = reached \cup flush[f].art /\ save' = save /\ flush[f].pc = "write"
      BY <2>2 DEF WriteFile
    <3>2. flush[f].env \in Envelopes BY <3>1, <1>e DEF EnvInv, Enveloped
    <3>3. flush[f].sess \in SUBSET Sess /\ flush[f].art \in SUBSET Artifacts BY DEF ReachInv, Locals
    <3>4. disk' \in [Dests -> Contents \cup {None}] BY <3>1, <3>2, <3>3, WrittenFiles DEF WritersInv
    <3>. QED BY <3>1, <3>3, <3>4, <2>1 DEF WritersInv, EnvInv
  <2>3. CASE ~WriteFile(f) BY <1>5, <2>3, <2>1, <1>b DEF Flush, Gate, CloneEnvelope, Collect,
       Recheck, TakeArtifacts, RecordSave, FlushDone, Local
  <2>. QED BY <2>2, <2>3
<1>6. ASSUME NEW f \in Flushers, FlushFails(f) PROVE WritersInv'
  <2>1. flush' = [flush EXCEPT ![f] = Idle] /\ UNCHANGED <<reached, save, disk>>
    BY <1>6 DEF FlushFails
  <2>2. EnvInv' BY <2>1, <1>e DEF EnvInv, ReachInv, Idle, Starting, Enveloped
  <2>. QED BY <2>1, <2>2, <1>b
<1>7. CASE UNCHANGED vars BY <1>7, <1>a DEF vars
<1>. QED BY <1>1, <1>2, <1>3, <1>4, <1>5, <1>6, <1>7 DEF Next

\* The list and those who read it before they write it.
LEMMA EditTypes ==
  ASSUME live \subseteq Sess, ListTypes, NEW c \in Editors, Edit(c)
  PROVE  ListTypes'
<1>. USE DEF clock, shell, files, list
<1>1. /\ entries \in EntryLists /\ active \in Ids \cup {None} /\ undone \subseteq Ids
      /\ edits \in [Editors -> Edits \cup {None}] BY DEF ListTypes
<1>a. ASSUME NEW r \in Edits \cup {None}, edits' = [edits EXCEPT ![c] = r], UNCHANGED <<entries, active>>,
             undone' \subseteq Ids
      PROVE  ListTypes' BY <1>1, <1>a DEF ListTypes
<1>2. ASSUME NEW w \in Ids, NEW file \in BOOLEAN, DeleteBegin(c, w, file) PROVE ListTypes'
  <2>. DEFINE r == [pc |-> IF active = w THEN "close" ELSE "remove", op |-> "delete", id |-> w,
                    file |-> file, sess |-> IF active = w THEN live ELSE {}, entries |-> entries,
                    active |-> IF active = w THEN None ELSE active]
  <2>1. r \in Edits BY <1>1 DEF Edits
  <2>2. edits' = [edits EXCEPT ![c] = r] /\ UNCHANGED <<entries, active, undone>>
    BY <1>2 DEF DeleteBegin
  <2>. HIDE DEF r
  <2>. QED BY <2>1, <2>2, <1>1, <1>a
<1>3. ASSUME NEW w \in Ids, RenameReads(c, w) PROVE ListTypes'
  <2>. DEFINE r == [pc |-> "save", op |-> "rename", id |-> w, file |-> FALSE, sess |-> {},
                    entries |-> entries, active |-> active]
  <2>1. r \in Edits BY <1>1 DEF Edits
  <2>2. edits' = [edits EXCEPT ![c] = r] /\ UNCHANGED <<entries, active, undone>>
    BY <1>3 DEF RenameReads
  <2>. HIDE DEF r
  <2>. QED BY <2>1, <2>2, <1>1, <1>a
<1>4. ASSUME NEW s \in Sess, DeleteCloses(c, s) PROVE ListTypes'
  <2>1. edits[c] \in Edits BY <1>1, <1>4 DEF DeleteCloses, Editing
  <2>2. [edits[c] EXCEPT !.sess = @ \ {s}] \in Edits BY <2>1 DEF Edits
  <2>. QED BY <2>2, <1>1, <1>4, <1>a DEF DeleteCloses
<1>5. ASSUME NEW pc \in {"remove", "save"}, edits[c] # None, edits' = [edits EXCEPT ![c].pc = pc],
             UNCHANGED <<entries, active, undone>>
      PROVE  ListTypes'
  <2>1. edits[c] \in Edits BY <1>1, <1>5
  <2>2. [edits[c] EXCEPT !.pc = pc] \in Edits BY <2>1 DEF Edits
  <2>. QED BY <2>2, <1>1, <1>5, <1>a
<1>6. CASE DeleteClears(c) BY <1>6, <1>5 DEF DeleteClears, Editing
<1>7. CASE DeleteRemoves(c) BY <1>7, <1>5 DEF DeleteRemoves, Editing
<1>8. CASE DeleteSaves(c) \/ RenameSaves(c)
  <2>1. edits[c] \in Edits BY <1>1, <1>8 DEF DeleteSaves, RenameSaves, WritesList, Editing
  <2>2. Rewritten(c) \in EntryLists /\ edits[c].active \in Ids \cup {None}
    BY <2>1 DEF Rewritten, Edits, EntryLists
  <2>. QED BY <2>2, <1>1, <1>8 DEF DeleteSaves, RenameSaves, WritesList, ListTypes
<1>9. CASE EditFails(c)
  <2>1. edits[c] \in Edits BY <1>1, <1>9 DEF EditFails, Editing
  <2>2. edits[c].id \in Ids BY <2>1 DEF Edits
  <2>. QED BY <2>2, <1>1, <1>9, <1>a DEF EditFails
<1>. QED BY <1>2, <1>3, <1>4, <1>6, <1>7, <1>8, <1>9 DEF Edit

LEMMA ListTypesStep == ReachInv /\ WritersInv /\ ListTypes /\ [Next]_vars => ListTypes'
<1>. SUFFICES ASSUME ReachInv, WritersInv, ListTypes, [Next]_vars PROVE ListTypes' OBVIOUS
<1>. USE DEF clock, shell, files, list
<1>a. ASSUME UNCHANGED <<entries, active, edits, undone>> PROVE ListTypes' BY <1>a DEF ListTypes
<1>1. CASE Handlers
  <2>1. CASE Mutate \/ ScheduleAutosave \/ WindowLapses \/ BeginSwitch \/ SaveCollect \/ SaveWrite
    BY <2>1, <1>a DEF Mutate, ScheduleAutosave, WindowLapses, BeginSwitch, SaveCollect, SaveWrite
  <2>2. ASSUME NEW s \in Sess, OpenSession(s) \/ CloseSession(s) PROVE ListTypes'
    BY <2>2, <1>a DEF OpenSession, CloseSession
  <2>3. ASSUME NEW w \in Ids, NEW explicit \in BOOLEAN, Save(w, explicit) \/ SyncEnvelope(w, explicit)
        PROVE  ListTypes' BY <2>3, <1>a DEF Save, SyncEnvelope
  <2>4. ASSUME NEW c \in Editors, Edit(c) PROVE ListTypes' BY <2>4, EditTypes DEF ReachInv
  <2>. QED BY <1>1, <2>1, <2>2, <2>3, <2>4 DEF Handlers
<1>2. CASE Debounced \/ ExitFlush \/ Gone BY <1>2, <1>a DEF Debounced, ExitFlush, Gone
<1>3. ASSUME NEW f \in Flushers, Flush(f) PROVE ListTypes'
  <2>1. CASE RecordSave(f)
    <3>1. /\ entries' = [w \in Ids |-> IF w = flush[f].env.id /\ entries[w].listed
                                       THEN [entries[w] EXCEPT !.auto = FlushDest(flush[f].env)]
                                       ELSE entries[w]]
          /\ flush[f].pc = "record" /\ UNCHANGED <<active, edits, undone>> BY <2>1 DEF RecordSave
    <3>2. FlushDest(flush[f].env) \in Dests BY <3>1, DestIsDest DEF WritersInv, Enveloped
    <3>3. entries \in EntryLists BY DEF ListTypes
    <3>4. entries' \in EntryLists BY <3>1, <3>2, <3>3 DEF EntryLists
    <3>. QED BY <3>1, <3>4 DEF ListTypes
  <2>2. CASE ~RecordSave(f) BY <1>3, <2>2, <1>a DEF Flush, Gate, CloneEnvelope, Collect, Recheck,
       TakeArtifacts, WriteFile, FlushDone, Local
  <2>. QED BY <2>1, <2>2
<1>4. ASSUME NEW f \in Flushers, FlushFails(f) PROVE ListTypes' BY <1>4, <1>a DEF FlushFails
<1>5. CASE UNCHANGED vars BY <1>5, <1>a DEF vars
<1>. QED BY <1>1, <1>2, <1>3, <1>4, <1>5 DEF Next

\* TypeOK in every reachable state: the types, and that the generations only
\* ever lag behind the artifacts made.
THEOREM AutosaveTypeCorrect == Spec => []TypeOK
<1>1. ReachInv /\ RestInv => TypeOK
  <2>. SUFFICES ASSUME ReachInv, RestInv PROVE TypeOK OBVIOUS
  <2>1. live \subseteq Sess /\ store \subseteq Artifacts /\ reached \subseteq Artifacts
    BY AutosaveAssumption DEF ReachInv, RestInv, WritersInv, Artifacts
  <2>2. made \in 0 .. MaxMut /\ gen \in 0 .. made /\ flushed \in 0 .. gen
    BY AutosaveAssumption DEF ReachInv
  <2>3. DOMAIN flush = Flushers BY DEF ReachInv
  <2>4. ASSUME NEW f \in Flushers
        PROVE  /\ flush[f].pc \in FlushPcs /\ flush[f].seen \in 0 .. gen
               /\ flush[f].env \in Envelopes \cup {None}
               /\ flush[f].sess \subseteq Sess /\ flush[f].art \subseteq Artifacts
    BY DEF ReachInv, FlushInv, Locals
  <2>5. save.pc \in {"idle", "collect", "write"} /\ save.env \in Envelopes \cup {None}
    BY DEF RestInv, WritersInv, SaveLocals
  <2>. QED BY <2>1, <2>2, <2>3, <2>4, <2>5 DEF TypeOK, ReachInv, RestInv, ProcInv, WritersInv,
           ListTypes
<1>2. RestInv /\ ReachInv /\ [Next]_vars => RestInv'
  BY ProcStep, WritersStep, ListTypesStep DEF RestInv
<1>. QED BY <1>1, <1>2, ReachInit, ReachStep, RestInit, PTL DEF Spec

\* NeverRelisted, for any number of flushes, saves and edits of the list:
\* what lists a deleted workspace again is the write of another edit that
\* had read the list while the workspace was on it.
RelistedByEdit == \A w \in Ids : ~entries[w].listed /\ entries'[w].listed => \E c \in Editors : PutsBack(c, w)

LEMMA RelistStep ==
  ASSUME ListTypes, [Next]_vars
  PROVE  RelistedByEdit
<1>. SUFFICES ASSUME NEW w \in Ids, ~entries[w].listed, entries'[w].listed
              PROVE  \E c \in Editors : PutsBack(c, w) BY DEF RelistedByEdit
<1>. USE DEF clock, shell, files, list
<1>1. ASSUME NEW f \in Flushers, Flush(f) \/ FlushFails(f) PROVE FALSE
  <2>1. ~RecordSave(f) BY DEF RecordSave, ListTypes, EntryLists
  <2>. QED BY <1>1, <2>1 DEF Flush, FlushFails, Gate, CloneEnvelope, Collect, Recheck,
                             TakeArtifacts, WriteFile, FlushDone, Local
<1>2. ASSUME NEW c \in Editors, Edit(c) PROVE PutsBack(c, w)
  <2>1. DeleteSaves(c) \/ RenameSaves(c) BY <1>2 DEF Edit, DeleteBegin, DeleteCloses, DeleteClears,
                                                    DeleteRemoves, RenameReads, EditFails
  <2>. QED BY <2>1 DEF DeleteSaves, RenameSaves, WritesList, Editing, Rewritten, PutsBack, ListTypes
<1>. QED BY <1>1, <1>2 DEF Next, vars, Handlers, Debounced, ExitFlush, Gone, Mutate,
     ScheduleAutosave, OpenSession, CloseSession, SyncEnvelope, SaveCollect, SaveWrite, BeginSwitch,
     WindowLapses, Save

\* Nothing lists a deleted workspace again but an edit of another entry that
\* had read the list before (services/workspace.rs:1052,1104).
THEOREM DeletedNeverRelisted == Spec => NeverRelisted
<1>1. ReachInv /\ RestInv /\ [Next]_vars => ReachInv' /\ RestInv'
  BY ReachStep, ProcStep, WritersStep, ListTypesStep DEF RestInv
<1>2. ReachInv /\ RestInv /\ [Next]_vars
        => [\A w \in Ids : ~entries[w].listed /\ entries'[w].listed
              => \E c \in Editors : PutsBack(c, w)]_vars BY RelistStep DEF RestInv, RelistedByEdit
<1>. QED BY <1>1, <1>2, ReachInit, RestInit, PTL DEF Spec, NeverRelisted

----------------------------------------
\* What counts as saved is in the files.  While the scheduler is the only
\* writer, each of its snapshots holds all that its last one held: a flush
\* starts from a generation no older than the flushed one.  And the flush of
\* the exit has seen the last generation there will be; with its envelope
\* and its sessions still there nothing makes it skip.
Alone == count.save = 0 /\ count.delete = 0 /\ phase = "running"

QuietInv ==
  /\ count.save = 0 => save.pc = "idle"
  /\ count.delete = 0 => \A c \in Editors : edits[c] = None \/ edits[c].op # "delete"
  /\ phase # "exiting" => flush["exit"].pc = "idle"

DiskInv ==
  Alone =>
    /\ 1 .. flushed \subseteq OnDisk
    /\ flush["scheduler"].pc # "idle" => flushed <= flush["scheduler"].seen
    /\ flush["scheduler"].pc \in {"record", "done"} => 1 .. flush["scheduler"].seen \subseteq OnDisk

KeepInv == QuietInv /\ DiskInv

\* Events are only ever added, and the process starts to exit once.
LEMMA NoEventTakenBack ==
  ASSUME ProcInv, [Next]_vars
  PROVE  (\A k \in Kinds : count'[k] = 0 => count[k] = 0) /\ (phase' = "running" => phase = "running")
<1>. USE DEF clock, shell, files, list
<1>1. ASSUME NEW kind \in Kinds, NEW bound, Counts(kind, bound)
      PROVE  \A k \in Kinds : count'[k] = 0 => count[k] = 0 BY <1>1, Counted DEF ProcInv
<1>. DEFINE G == (\A k \in Kinds : count'[k] = 0 => count[k] = 0) /\ (phase' = "running" => phase = "running")
<1>2. CASE Handlers
  <2>1. CASE Mutate \/ ScheduleAutosave \/ SaveCollect \/ SaveWrite \/ WindowLapses
    BY <2>1 DEF Mutate, ScheduleAutosave, SaveCollect, SaveWrite, WindowLapses
  <2>2. ASSUME NEW s \in Sess, OpenSession(s) \/ CloseSession(s) PROVE G
    BY <2>2, <1>1 DEF OpenSession, CloseSession, Kinds
  <2>3. ASSUME NEW w \in Ids, NEW explicit \in BOOLEAN, Save(w, explicit) \/ SyncEnvelope(w, explicit)
        PROVE  G BY <2>3, <1>1 DEF Save, SyncEnvelope, Kinds
  <2>4. CASE BeginSwitch BY <2>4, <1>1 DEF BeginSwitch, Kinds
  <2>5. ASSUME NEW c \in Editors, Edit(c) PROVE G BY <2>5, EditFrame, <1>1 DEF Kinds
  <2>. QED BY <1>2, <2>1, <2>2, <2>3, <2>4, <2>5 DEF Handlers
<1>3. CASE Debounced \/ ExitFlush \/ Gone BY <1>3 DEF Debounced, ExitFlush, Gone
<1>4. ASSUME NEW f \in Flushers, Flush(f) PROVE G
  BY <1>4 DEF Flush, Gate, CloneEnvelope, Collect, Recheck, TakeArtifacts, WriteFile, RecordSave,
    FlushDone, Local
<1>5. ASSUME NEW f \in Flushers, FlushFails(f) PROVE G BY <1>5, <1>1 DEF FlushFails, Kinds
<1>6. CASE UNCHANGED vars BY <1>6 DEF vars
<1>. QED BY <1>2, <1>3, <1>4, <1>5, <1>6 DEF Next

LEMMA KeepInit == Init => KeepInv BY DEF Init, KeepInv, QuietInv, DiskInv, Idle, Starting, Flushers

\* What no handler and no flush disturbs.
LEMMA QuietStep ==
  ASSUME ReachInv, RestInv, QuietInv, [Next]_vars
  PROVE  QuietInv'
<1>. USE DEF clock, shell, files, list
<1>1. /\ count'["save"] = 0 => count["save"] = 0
      /\ count'["delete"] = 0 => count["delete"] = 0 BY NoEventTakenBack DEF RestInv, Kinds
<1>2. count'.save = 0 => save'.pc = "idle"
  <2>. SUFFICES ASSUME count'.save = 0 PROVE save'.pc = "idle" OBVIOUS
  <2>1. save.pc = "idle" BY <1>1 DEF QuietInv
  <2>2. ASSUME NEW w \in Ids, NEW explicit \in BOOLEAN, Save(w, explicit) PROVE FALSE
    BY <2>2, Counted DEF Save, RestInv, ProcInv, Kinds
  <2>3. CASE Handlers BY <2>1, <2>2, <2>3, EditFrame DEF Handlers, Mutate, ScheduleAutosave,
       OpenSession, CloseSession, SyncEnvelope, SaveCollect, SaveWrite, BeginSwitch, WindowLapses
  <2>4. CASE Debounced \/ ExitFlush \/ Gone \/ (\E f \in Flushers : Flush(f) \/ FlushFails(f))
    BY <2>1, <2>4 DEF Debounced, ExitFlush, Gone, Flush, FlushFails, Gate, CloneEnvelope, Collect,
      Recheck, TakeArtifacts, WriteFile, RecordSave, FlushDone, Local
  <2>. QED BY <2>1, <2>3, <2>4 DEF Next, vars
<1>3. count'.delete = 0 => \A c \in Editors : edits'[c] = None \/ edits'[c].op # "delete"
  <2>. SUFFICES ASSUME count'.delete = 0, NEW c \in Editors
                PROVE  edits'[c] = None \/ edits'[c].op # "delete"
    OBVIOUS
  <2>1. \A e \in Editors : edits[e] = None \/ edits[e].op # "delete" BY <1>1 DEF QuietInv
  <2>2. edits \in [Editors -> Edits \cup {None}] BY DEF RestInv, ListTypes
  <2>3. ASSUME NEW e \in Editors, Edit(e) PROVE edits'[c] = None \/ edits'[c].op # "delete"
    <3>1. ASSUME NEW w \in Ids, NEW file \in BOOLEAN, DeleteBegin(e, w, file) PROVE FALSE
      BY <3>1, Counted DEF DeleteBegin, RestInv, ProcInv, Kinds
    <3>2. ASSUME NEW w \in Ids, RenameReads(e, w) PROVE edits'[c] = None \/ edits'[c].op # "delete"
      BY <3>2, <2>1, <2>2 DEF RenameReads
    <3>3. CASE DeleteSaves(e) \/ RenameSaves(e) \/ EditFails(e)
      BY <3>3, <2>1, <2>2 DEF DeleteSaves, RenameSaves, WritesList, EditFails
    <3>. QED BY <2>3, <3>1, <3>2, <3>3, <2>1 DEF Edit, DeleteCloses, DeleteClears, DeleteRemoves, Editing
  <2>4. CASE Handlers BY <2>1, <2>3, <2>4 DEF Handlers, Mutate, ScheduleAutosave, OpenSession,
       CloseSession, SyncEnvelope, SaveCollect, SaveWrite, BeginSwitch, WindowLapses, Save
  <2>5. CASE Debounced \/ ExitFlush \/ Gone \/ (\E f \in Flushers : Flush(f) \/ FlushFails(f))
    BY <2>1, <2>5 DEF Debounced, ExitFlush, Gone, Flush, FlushFails, Gate, CloneEnvelope, Collect,
      Recheck, TakeArtifacts, WriteFile, RecordSave, FlushDone, Local
  <2>. QED BY <2>1, <2>4, <2>5 DEF Next, vars
<1>4. phase' # "exiting" => flush'["exit"].pc = "idle"
  <2>. SUFFICES ASSUME phase' # "exiting" PROVE flush'["exit"].pc = "idle" OBVIOUS
  <2>1. CASE Gone BY <2>1 DEF Gone
  <2>2. CASE ExitFlush BY <2>2 DEF ExitFlush
  <2>3. CASE Debounced BY <2>3 DEF Debounced, QuietInv, ReachInv, Flushers
  <2>4. CASE Handlers BY <2>4, EditFrame DEF Handlers, Mutate, ScheduleAutosave, OpenSession,
       CloseSession, SyncEnvelope, SaveCollect, SaveWrite, BeginSwitch, WindowLapses, Save, QuietInv
  <2>5. ASSUME NEW f \in Flushers, Flush(f) \/ FlushFails(f) PROVE flush'["exit"].pc = "idle"
    <3>1. phase' = phase /\ flush[f].pc # "idle" /\ flush' = [flush EXCEPT ![f] = flush'[f]]
      BY <2>5 DEF Flush, FlushFails, Gate, CloneEnvelope, Collect, Recheck, TakeArtifacts,
        WriteFile, RecordSave, FlushDone, Local, ReachInv
    <3>2. f # "exit" /\ flush["exit"].pc = "idle" BY <3>1 DEF QuietInv
    <3>. QED BY <3>1, <3>2 DEF ReachInv, Flushers
  <2>. QED BY <2>1, <2>2, <2>3, <2>4, <2>5 DEF Next, vars, QuietInv
<1>. QED BY <1>2, <1>3, <1>4 DEF QuietInv

\* The scheduler writes a snapshot: all that was saved is in the files still.
LEMMA DiskWrite ==
  ASSUME ReachInv, RestInv, DiskInv, Alone, WriteFile("scheduler")
  PROVE  DiskInv'
<1>. DEFINE s == "scheduler"
            old == flush[s]
<1>1. /\ disk' = [disk EXCEPT ![FlushDest(old.env)] = [sess |-> old.sess, art |-> old.art]]
      /\ flush' = [flush EXCEPT ![s].pc = "record"] /\ old.pc = "write" /\ flushed' = flushed
  BY DEF WriteFile, clock, list
<1>2. s \in Flushers /\ old.env \in Envelopes BY <1>1 DEF Flushers, RestInv, WritersInv, Enveloped
<1>3. FlushDest(old.env) \in Dests BY <1>2, DestIsDest
<1>4. disk'[FlushDest(old.env)] = [sess |-> old.sess, art |-> old.art]
  BY <1>1, <1>3 DEF RestInv, WritersInv
<1>5. [sess |-> old.sess, art |-> old.art] \in Contents BY <1>2 DEF ReachInv, Locals, Contents
<1>6. disk'[FlushDest(old.env)] # None /\ disk'[FlushDest(old.env)].art = old.art
  BY <1>4, <1>5, NoneAssumption
<1>7. old.art \subseteq OnDisk' BY <1>3, <1>6 DEF OnDisk
<1>8. 1 .. old.seen \subseteq old.art /\ old.seen \in Nat BY <1>1, <1>2 DEF ReachInv, FlushInv
<1>9. flushed <= old.seen /\ flushed \in Nat BY <1>1 DEF DiskInv, ReachInv
<1>10. 1 .. flushed \subseteq OnDisk' /\ 1 .. old.seen \subseteq OnDisk' BY <1>7, <1>8, <1>9
<1>11. flush'[s].pc = "record" /\ flush'[s].seen = old.seen BY <1>1, <1>2 DEF ReachInv, Locals
<1>. QED BY <1>1, <1>9, <1>10, <1>11 DEF DiskInv

LEMMA DiskStep ==
  ASSUME ReachInv, RestInv, QuietInv, DiskInv, [Next]_vars
  PROVE  DiskInv'
<1>. SUFFICES ASSUME Alone' PROVE DiskInv' BY DEF DiskInv
<1>. USE DEF clock, shell, files, list
<1>1. Alone /\ QuietInv' BY NoEventTakenBack, QuietStep DEF Alone, RestInv, Kinds
<1>2. /\ save.pc = "idle" /\ flush["exit"].pc = "idle" /\ phase' = "running"
      /\ \A c \in Editors : edits[c] = None \/ edits[c].op # "delete" BY <1>1 DEF QuietInv, Alone
<1>a. ASSUME UNCHANGED <<disk, flushed>>, flush'["scheduler"] = flush["scheduler"] PROVE DiskInv'
  BY <1>a, <1>1 DEF DiskInv, OnDisk
<1>b. ASSUME UNCHANGED <<disk, flushed>>, flush'["scheduler"].pc = "idle" PROVE DiskInv'
  BY <1>b, <1>1 DEF DiskInv, OnDisk
<1>c. ASSUME UNCHANGED <<disk, flushed>>, flush'["scheduler"].seen = flush["scheduler"].seen,
             flush["scheduler"].pc # "idle", flush'["scheduler"].pc \notin {"record", "done"}
      PROVE  DiskInv' BY <1>c, <1>1 DEF DiskInv, OnDisk
<1>3. CASE Handlers
  <2>1. ~Counts("delete", MaxDelete) BY Counted DEF Alone, RestInv, ProcInv, Kinds
  <2>2. UNCHANGED <<disk, flushed, flush>> BY <1>3, <1>2, <2>1, EditFrame DEF Handlers, Mutate,
       ScheduleAutosave, OpenSession, CloseSession, SyncEnvelope, SaveCollect, SaveWrite,
       BeginSwitch, WindowLapses, Save
  <2>. QED BY <2>2, <1>a
<1>4. CASE Debounced
  <2>1. flush'["scheduler"] = Starting("gate", gen, None) /\ UNCHANGED <<disk, flushed>>
    BY <1>4 DEF Debounced, ReachInv, Flushers
  <2>2. flush'["scheduler"].pc = "gate" /\ flush'["scheduler"].seen = gen BY <2>1 DEF Starting
  <2>3. flushed <= gen /\ 1 .. flushed \subseteq OnDisk BY <1>1 DEF DiskInv, ReachInv
  <2>. QED BY <2>1, <2>2, <2>3 DEF DiskInv, OnDisk
<1>5. CASE ExitFlush \/ Gone BY <1>5, <1>2 DEF ExitFlush, Gone
<1>6. ASSUME NEW f \in Flushers, Flush(f) \/ FlushFails(f) PROVE DiskInv'
  <2>1. f = "scheduler" /\ flush["scheduler"] \in Locals BY <1>6, <1>2 DEF Flush, FlushFails, Gate,
       CloneEnvelope, Collect, Recheck, TakeArtifacts, WriteFile, RecordSave, FlushDone, Flushers,
       ReachInv
  <2>. DEFINE g == "scheduler"
  <2>2. CASE Gate(g) \/ CloneEnvelope(g) \/ Recheck(g)
    <3>1. /\ UNCHANGED <<disk, flushed>> /\ flush[g].pc # "idle"
          /\ \/ flush'[g] = Idle
             \/ flush'[g].seen = flush[g].seen /\ flush'[g].pc \in {"clone", "collect", "artifacts"}
      <4>1. flush \in [Flushers -> Locals] /\ g \in Flushers BY DEF ReachInv, Flushers
      <4>2. CASE Gate(g) BY <4>1, <4>2 DEF Gate, Local, Locals
      <4>3. CASE CloneEnvelope(g) BY <4>1, <4>3 DEF CloneEnvelope, Local, Locals
      <4>4. CASE Recheck(g) BY <4>1, <4>4 DEF Recheck, Local, Locals
      <4>. QED BY <2>2, <4>2, <4>3, <4>4
    <3>. QED BY <3>1, <1>b, <1>c DEF Idle, Starting
  <2>3. CASE Collect(g) \/ TakeArtifacts(g)
    <3>1. /\ UNCHANGED <<disk, flushed>> /\ flush[g].pc # "idle"
          /\ flush'[g].seen = flush[g].seen /\ flush'[g].pc \in {"recheck", "write"}
      BY <2>3, <2>1 DEF Collect, TakeArtifacts, Local, ReachInv, Flushers, Locals
    <3>. QED BY <3>1, <1>c
  <2>4. CASE WriteFile(g) BY <2>4, <1>1, DiskWrite
  <2>5. CASE RecordSave(g)
    <3>1. /\ UNCHANGED <<disk, flushed>> /\ flush[g].pc = "record"
          /\ flush'[g].seen = flush[g].seen /\ flush'[g].pc = "done"
      BY <2>5, <2>1 DEF RecordSave, ReachInv, Flushers, Locals
    <3>. QED BY <3>1, <1>1 DEF DiskInv, OnDisk
  <2>6. CASE FlushDone(g)
    <3>1. flush'[g].pc = "idle" /\ flush[g].pc = "done" /\ flushed' = flush[g].seen /\ disk' = disk
      BY <2>6, <2>1 DEF FlushDone, ReachInv, Flushers, Idle, Starting
    <3>2. 1 .. flush[g].seen \subseteq OnDisk BY <3>1, <1>1 DEF DiskInv
    <3>. QED BY <3>1, <3>2 DEF DiskInv, OnDisk
  <2>7. CASE FlushFails(g)
    <3>1. flush'[g].pc = "idle" /\ UNCHANGED <<disk, flushed>>
      BY <2>7, <2>1 DEF FlushFails, ReachInv, Flushers, Idle, Starting
    <3>. QED BY <3>1, <1>b
  <2>. QED BY <1>6, <2>1, <2>2, <2>3, <2>4, <2>5, <2>6, <2>7 DEF Flush
<1>7. CASE UNCHANGED vars BY <1>7, <1>a DEF vars
<1>. QED BY <1>3, <1>4, <1>5, <1>6, <1>7 DEF Next

\* The flush of the exit.
ExitInv ==
  Unskipped =>
    /\ ~window /\ envelope \in Envelopes /\ envelope.expected \subseteq live
    /\ \A f \in Flushers :
         flush[f].pc \in {"collect", "recheck"} => flush[f].env.expected \subseteq live
    /\ phase # "running" => IF flush["exit"].pc = "idle" THEN 1 .. gen \subseteq reached
                                                         ELSE flush["exit"].seen = gen

LEMMA ExitInit == Init => ExitInv
BY AutosaveAssumption DEF Init, ExitInv, Idle, Starting, Envelopes, Flushers

\* Nothing that would have made a flush skip has happened.
LEMMA StillUnskipped ==
  ASSUME RestInv, [Next]_vars, Unskipped'
  PROVE  Unskipped BY NoEventTakenBack DEF Unskipped, RestInv, Kinds

\* The last generation is seen: a flush that does not give up carries on
\* with it, and what it has written stays reached.
LEMMA ExitStep ==
  ASSUME ReachInv, RestInv, QuietInv, ExitInv, [Next]_vars
  PROVE  ExitInv'
<1>. SUFFICES ASSUME Unskipped' PROVE ExitInv' BY DEF ExitInv
<1>. USE DEF clock, shell, files, list
<1>1. Unskipped BY StillUnskipped
<1>2. ~window /\ envelope \in Envelopes /\ envelope.expected \subseteq live
      /\ \A c \in Editors : edits[c] = None \/ edits[c].op # "delete"
  BY <1>1 DEF ExitInv, QuietInv, Unskipped
<1>3. ASSUME NEW f \in Flushers
      PROVE  flush[f] \in Locals /\ (flush[f].pc \in {"collect", "recheck"} => flush[f].env.expected \subseteq live)
  BY <1>1 DEF ExitInv, ReachInv
<1>4. phase # "running" => IF flush["exit"].pc = "idle" THEN 1 .. gen \subseteq reached
                                                        ELSE flush["exit"].seen = gen
  BY <1>1 DEF ExitInv
<1>a. ASSUME UNCHANGED <<window, envelope, live, flush, phase, reached>>, phase = "running" \/ gen' = gen
      PROVE  ExitInv' BY <1>a, <1>2, <1>3, <1>4 DEF ExitInv
<1>b. ASSUME phase' = "running", UNCHANGED <<window, flush>>, live \subseteq live', 
             envelope' \in Envelopes, envelope'.expected \subseteq live'
      PROVE  ExitInv' BY <1>b, <1>2, <1>3 DEF ExitInv
<1>5. CASE Handlers
  <2>1. CASE Mutate \/ ScheduleAutosave \/ SaveCollect
    BY <2>1, <1>a DEF Mutate, ScheduleAutosave, SaveCollect
  <2>2. CASE SaveWrite BY <2>2, <1>b, <1>2 DEF SaveWrite
  <2>3. ASSUME NEW s \in Sess, OpenSession(s) PROVE ExitInv'
    <3>1. phase' = "running" /\ UNCHANGED <<window, flush, envelope>> /\ live \subseteq live'
      BY <2>3 DEF OpenSession
    <3>. QED BY <3>1, <1>b, <1>2
  <2>4. ASSUME NEW s \in Sess, CloseSession(s) PROVE ExitInv'
    BY <2>4, Counted DEF CloseSession, Unskipped, RestInv, ProcInv, Kinds
  <2>5. ASSUME NEW w \in Ids, NEW explicit \in BOOLEAN, Save(w, explicit) \/ SyncEnvelope(w, explicit)
        PROVE  ExitInv'
    <3>1. /\ phase' = "running" /\ window' = FALSE /\ flush' = flush /\ live' = live
          /\ envelope' = Stamped(w, explicit) BY <2>5 DEF Save, SyncEnvelope
    <3>2. envelope' \in Envelopes BY <3>1, StampedEnvelope DEF ReachInv
    <3>3. envelope'.expected \subseteq live' BY <3>1 DEF Stamped
    <3>4. window' = window BY <3>1, <1>2 DEF RestInv, ProcInv
    <3>. QED BY <3>1, <3>2, <3>3, <3>4, <1>b, <1>2
  <2>6. CASE BeginSwitch BY <2>6, Counted DEF BeginSwitch, Unskipped, RestInv, ProcInv, Kinds
  <2>7. CASE WindowLapses BY <2>7, <1>2 DEF WindowLapses
  <2>8. ASSUME NEW c \in Editors, Edit(c) PROVE ExitInv'
    <3>1. ~Counts("delete", MaxDelete) BY Counted DEF Unskipped, RestInv, ProcInv, Kinds
    <3>. QED BY <3>1, <2>8, EditFrame, <1>2, <1>a
  <2>. QED BY <1>5, <2>1, <2>2, <2>3, <2>4, <2>5, <2>6, <2>7, <2>8 DEF Handlers
<1>6. CASE Debounced
  <2>1. /\ flush'["scheduler"] = Starting("gate", gen, None) /\ flush'["exit"] = flush["exit"]
        /\ UNCHANGED <<window, envelope, live, phase, reached, gen>>
    BY <1>6 DEF Debounced, ReachInv, Flushers
  <2>2. flush'["scheduler"].pc = "gate" BY <2>1 DEF Starting
  <2>. QED BY <2>1, <2>2, <1>2, <1>3, <1>4 DEF ExitInv, Flushers
<1>7. CASE ExitFlush
  <2>1. CASE Pending
    <3>1. /\ flush'["exit"] = Starting("gate", gen, None) /\ flush'["scheduler"] = flush["scheduler"]
          /\ UNCHANGED <<window, envelope, live, reached, gen>>
      BY <1>7, <2>1 DEF ExitFlush, ReachInv, Flushers
    <3>2. flush'["exit"].pc = "gate" /\ flush'["exit"].seen = gen BY <3>1 DEF Starting
    <3>. QED BY <3>1, <3>2, <1>2, <1>3 DEF ExitInv, Flushers
  <2>2. CASE ~Pending
    <3>1. /\ UNCHANGED <<window, envelope, live, reached, gen, flush>> /\ flush["exit"].pc = "idle"
      BY <1>7, <2>2 DEF ExitFlush, QuietInv
    <3>2. 1 .. gen \subseteq reached BY <2>2 DEF Pending, ReachInv
    <3>. QED BY <3>1, <3>2, <1>2, <1>3 DEF ExitInv
  <2>. QED BY <2>1, <2>2
<1>8. CASE Gone BY <1>8, <1>2, <1>3, <1>4 DEF Gone, ExitInv
<1>9. ASSUME NEW f \in Flushers, Flush(f) PROVE ExitInv'
  <2>1. UNCHANGED <<window, envelope, live, phase, gen>> /\ reached \subseteq reached' /\ flush[f].pc # "idle"
    BY <1>9 DEF Flush, Gate, CloneEnvelope, Collect, Recheck, TakeArtifacts, WriteFile, RecordSave,
      FlushDone, Local
  <2>2. /\ \A h \in Flushers \ {f} : flush'[h] = flush[h]
        /\ flush'[f].pc \in {"collect", "recheck"} => flush'[f].env.expected \subseteq live
        /\ \/ flush'[f].seen = flush[f].seen /\ flush'[f].pc # "idle"
           \/ flush'[f].pc = "idle" /\ 1 .. flush[f].seen \subseteq reached
    <3>1. CASE Gate(f) BY <3>1, <1>2, <1>3 DEF Gate, Local, ReachInv, Locals
    <3>2. CASE CloneEnvelope(f)
      <4>1. envelope # None BY <1>2, NoneAssumption
      <4>. QED BY <3>2, <4>1, <1>2, <1>3 DEF CloneEnvelope, Local, ReachInv, Locals
    <3>3. CASE Collect(f) BY <3>3, <1>3 DEF Collect, Local, ReachInv, Locals
    <3>4. CASE Recheck(f)
      <4>1. ~Diverges(flush[f].env.expected, live) BY <3>4, <1>3 DEF Recheck, Diverges
      <4>. QED BY <3>4, <4>1, <1>3 DEF Recheck, Local, ReachInv, Locals
    <3>5. CASE TakeArtifacts(f) BY <3>5, <1>3 DEF TakeArtifacts, Local, ReachInv, Locals
    <3>6. CASE WriteFile(f) BY <3>6, <1>3 DEF WriteFile, ReachInv, Locals
    <3>7. CASE RecordSave(f) BY <3>7, <1>3 DEF RecordSave, ReachInv, Locals
    <3>8. CASE FlushDone(f) BY <3>8, <1>3 DEF FlushDone, ReachInv, FlushInv, Locals, Idle, Starting
    <3>. QED BY <1>9, <3>1, <3>2, <3>3, <3>4, <3>5, <3>6, <3>7, <3>8 DEF Flush
  <2>3. ASSUME NEW h \in Flushers, flush'[h].pc \in {"collect", "recheck"}
        PROVE  flush'[h].env.expected \subseteq live' BY <2>1, <2>2, <2>3, <1>3
  <2>4. phase' # "running" => IF flush'["exit"].pc = "idle" THEN 1 .. gen' \subseteq reached'
                                                            ELSE flush'["exit"].seen = gen'
    BY <2>1, <2>2, <1>4 DEF Flushers
  <2>. QED BY <2>1, <2>3, <2>4, <1>2 DEF ExitInv
<1>10. ASSUME NEW f \in Flushers, FlushFails(f) PROVE ExitInv'
  BY <1>10, Counted DEF FlushFails, Unskipped, RestInv, ProcInv, Kinds
<1>11. CASE UNCHANGED vars BY <1>11, <1>a DEF vars
<1>. QED BY <1>5, <1>6, <1>7, <1>8, <1>9, <1>10, <1>11 DEF Next

\* SavedIsKept in every reachable state: with the scheduler the only writer
\* the files hold all that counts as saved, and a process that is gone had
\* every artifact that was scheduled in some file.
THEOREM AutosaveKeeps == Spec => []SavedIsKept
<1>1. ReachInv /\ RestInv /\ KeepInv /\ ExitInv => SavedIsKept
  <2>. SUFFICES ASSUME ReachInv, RestInv, KeepInv, ExitInv PROVE SavedIsKept OBVIOUS
  <2>1. CleanMeansSaved BY DEF KeepInv, DiskInv, CleanMeansSaved, Alone, Pending
  <2>2. ExitReached BY DEF KeepInv, QuietInv, ExitInv, ExitReached
  <2>. QED BY <2>1, <2>2 DEF SavedIsKept
<1>2. ReachInv /\ RestInv /\ KeepInv /\ ExitInv /\ [Next]_vars
        => ReachInv' /\ RestInv' /\ KeepInv' /\ ExitInv'
  BY ReachStep, ProcStep, WritersStep, ListTypesStep, QuietStep, DiskStep, ExitStep DEF RestInv,
    KeepInv
<1>3. Init => ReachInv /\ RestInv /\ KeepInv /\ ExitInv BY ReachInit, RestInit, KeepInit, ExitInit
<1>. QED BY <1>1, <1>2, <1>3, PTL DEF Spec

----------------------------------------
\* A snapshot that is going to be written holds sessions of its workspace,
\* for no session that was open when it was collected can open again.
SnapOf(f) ==
  /\ flush[f].pc \in {"recheck", "artifacts", "write"} => live \subseteq flush[f].sess
  /\ flush[f].pc \in {"artifacts", "write"} /\ flush[f].env.expected # {} =>
       flush[f].sess \cap flush[f].env.expected # {}
SnapInv == count.open = 0 => \A f \in Flushers : SnapOf(f)

LEMMA SnapInit == Init => SnapInv BY DEF Init, SnapInv, SnapOf, Idle, Starting

\* The locals of a flush that starts or gives up promise nothing.
LEMMA SnapFlush ==
  ASSUME ReachInv, NEW g \in Flushers, Flush(g), SnapOf(g)
  PROVE  SnapOf(g)'
<1>. DEFINE x == flush[g]
<1>1. x \in Locals /\ flush \in [Flushers -> Locals] BY DEF ReachInv
<1>2. CASE Gate(g)
  <2>1. flush'[g].pc \in {"idle", "clone"} BY <1>1, <1>2 DEF Gate, Local, Locals, Idle, Starting
  <2>. QED BY <2>1 DEF SnapOf
<1>3. CASE CloneEnvelope(g)
  <2>1. flush'[g].pc \in {"idle", "collect"}
    BY <1>1, <1>3 DEF CloneEnvelope, Local, Locals, Idle, Starting
  <2>. QED BY <2>1 DEF SnapOf
<1>4. CASE Collect(g)
  <2>1. flush'[g].pc = "recheck" /\ flush'[g].sess = live /\ live' = live
    BY <1>1, <1>4 DEF Collect, Local, Locals
  <2>. QED BY <2>1 DEF SnapOf
<1>5. CASE Recheck(g)
  <2>1. x.pc = "recheck" /\ live' = live BY <1>5 DEF Recheck, Local
  <2>2. CASE Diverges(x.env.expected, live)
    <3>1. flush'[g].pc = "idle" BY <1>1, <1>5, <2>2 DEF Recheck, Idle, Starting
    <3>. QED BY <3>1 DEF SnapOf
  <2>3. CASE ~Diverges(x.env.expected, live)
    <3>1. flush'[g].pc = "artifacts" /\ flush'[g].sess = x.sess /\ flush'[g].env = x.env
      BY <1>1, <1>5, <2>3 DEF Recheck, Locals
    <3>. QED BY <3>1, <2>1, <2>3 DEF SnapOf, Diverges
  <2>. QED BY <2>2, <2>3
<1>6. CASE TakeArtifacts(g)
  <2>1. /\ x.pc = "artifacts" /\ live' = live
        /\ flush'[g].pc = "write" /\ flush'[g].sess = x.sess /\ flush'[g].env = x.env
    BY <1>1, <1>6 DEF TakeArtifacts, Local, Locals
  <2>. QED BY <2>1 DEF SnapOf
<1>7. CASE WriteFile(g) \/ RecordSave(g) \/ FlushDone(g)
  <2>1. flush'[g].pc \in {"record", "done", "idle"}
    BY <1>1, <1>7 DEF WriteFile, RecordSave, FlushDone, Locals, Idle, Starting
  <2>. QED BY <2>1 DEF SnapOf
<1>. QED BY <1>2, <1>3, <1>4, <1>5, <1>6, <1>7 DEF Flush

LEMMA SnapStep ==
  ASSUME ReachInv, RestInv, SnapInv, [Next]_vars
  PROVE  SnapInv'
<1>. SUFFICES ASSUME count'.open = 0 PROVE \A f \in Flushers : SnapOf(f)' BY DEF SnapInv
<1>. USE DEF clock, shell, files, list
<1>1. \A f \in Flushers : SnapOf(f) BY NoEventTakenBack DEF SnapInv, RestInv, Kinds
<1>a. ASSUME NEW g \in Flushers, flush' = [flush EXCEPT ![g] = flush'[g]], live' = live, SnapOf(g)'
      PROVE  \A f \in Flushers : SnapOf(f)'
  <2>. SUFFICES ASSUME NEW f \in Flushers, f # g PROVE SnapOf(f)' BY <1>a
  <2>1. flush'[f] = flush[f] BY <1>a DEF ReachInv
  <2>. QED BY <2>1, <1>1, <1>a DEF SnapOf
<1>b. ASSUME flush' = flush, live' \subseteq live PROVE \A f \in Flushers : SnapOf(f)'
  BY <1>b, <1>1 DEF SnapOf
<1>2. CASE Handlers
  <2>1. ASSUME NEW s \in Sess, OpenSession(s) PROVE FALSE
    BY <2>1, Counted DEF OpenSession, RestInv, ProcInv, Kinds
  <2>2. flush' = flush /\ live' \subseteq live BY <1>2, <2>1, EditFrame DEF Handlers, Mutate,
       ScheduleAutosave, CloseSession, SyncEnvelope, SaveCollect, SaveWrite, BeginSwitch,
       WindowLapses, Save
  <2>. QED BY <2>2, <1>b
<1>3. CASE Debounced
  <2>1. /\ flush' = [flush EXCEPT !["scheduler"] = flush'["scheduler"]] /\ live' = live
        /\ flush'["scheduler"] = Starting("gate", gen, None)
    BY <1>3 DEF Debounced, ReachInv, Flushers
  <2>2. SnapOf("scheduler")' BY <2>1 DEF SnapOf, Starting
  <2>. QED BY <2>1, <2>2, <1>a DEF Flushers
<1>4. CASE ExitFlush
  <2>1. CASE Pending
    <3>1. /\ flush' = [flush EXCEPT !["exit"] = flush'["exit"]] /\ live' = live
          /\ flush'["exit"] = Starting("gate", gen, None)
      BY <1>4, <2>1 DEF ExitFlush, ReachInv, Flushers
    <3>2. SnapOf("exit")' BY <3>1 DEF SnapOf, Starting
    <3>. QED BY <3>1, <3>2, <1>a DEF Flushers
  <2>2. CASE ~Pending BY <1>4, <2>2, <1>b DEF ExitFlush
  <2>. QED BY <2>1, <2>2
<1>5. CASE Gone BY <1>5, <1>b DEF Gone
<1>6. ASSUME NEW g \in Flushers, Flush(g) PROVE \A f \in Flushers : SnapOf(f)'
  <2>1. flush' = [flush EXCEPT ![g] = flush'[g]] /\ live' = live
    BY <1>6 DEF Flush, Gate, CloneEnvelope, Collect, Recheck, TakeArtifacts, WriteFile, RecordSave,
      FlushDone, Local, ReachInv
  <2>2. SnapOf(g)' BY <1>6, <1>1, SnapFlush
  <2>. QED BY <2>1, <2>2, <1>a
<1>7. ASSUME NEW g \in Flushers, FlushFails(g) PROVE \A f \in Flushers : SnapOf(f)'
  <2>1. flush' = [flush EXCEPT ![g] = flush'[g]] /\ live' = live /\ flush'[g] = Idle
    BY <1>7 DEF FlushFails, ReachInv
  <2>2. SnapOf(g)' BY <2>1 DEF SnapOf, Idle, Starting
  <2>. QED BY <2>1, <2>2, <1>a
<1>8. CASE UNCHANGED vars BY <1>8, <1>b DEF vars
<1>. QED BY <1>2, <1>3, <1>4, <1>5, <1>6, <1>7, <1>8 DEF Next

\* The files the list points at.  An entry names one of its own workspace's
\* two paths, so that a deletion removes nothing of another workspace.  What
\* an editor has read points at files that are there, too, unless the
\* workspace has gone since: when it is put back it is undone.
Named(w) == {None, <<w, "auto">>, <<w, "explicit">>}
Present(entry) == entry.listed /\ entry.auto # None => disk[entry.auto] # None
Recorded(f) ==
  \A w \in Ids : /\ flush[f].pc = "record" /\ flush[f].env.id = w
                  /\ entries[w].listed /\ ~Exempt(w)
                 => disk[FlushDest(flush[f].env)] # None
ReadOk(c) ==
  edits[c] # None => \A w \in Ids :
    /\ edits[c].entries[w].auto \in Named(w)
    /\ entries[w].listed /\ ~Exempt(w) => Present(edits[c].entries[w])

FileInv ==
  /\ \A w \in Ids : entries[w].auto \in Named(w) /\ (~Exempt(w) => Present(entries[w]))
  /\ \A c \in Editors : ReadOk(c)
  /\ \A f \in Flushers : Recorded(f)

LEMMA FileInit == Init => FileInv
BY DEF Init, FileInv, Named, Present, Recorded, ReadOk, Idle, Starting

\* An editor moves: the list is untouched, it may have read it, and nobody
\* it was deleting is left without the file.
LEMMA EditMoves ==
  ASSUME FileInv, ListTypes, NEW c \in Editors, UNCHANGED <<entries, disk, flush>>,
         \A e \in Editors \ {c} : edits'[e] = edits[e], undone \subseteq undone',
         \A w \in Ids : Deleting(c, w) => w \in undone',
         edits'[c] # None => \/ edits'[c].entries = entries
                             \/ edits[c] # None /\ edits'[c].entries = edits[c].entries
  PROVE  FileInv'
<1>1. \A w \in Ids : Exempt(w) => Exempt(w)' BY DEF Exempt, Deleting
<1>2. \A w \in Ids : entries'[w].auto \in Named(w) /\ (~Exempt(w)' => Present(entries[w])')
  BY <1>1 DEF FileInv, Present
<1>3. ASSUME NEW e \in Editors PROVE ReadOk(e)'
  <2>1. CASE e # c BY <1>1, <2>1 DEF FileInv, ReadOk, Present
  <2>2. CASE e = c
    <3>1. CASE edits'[c].entries = entries BY <3>1, <2>2, <1>2 DEF ReadOk, Present
    <3>2. CASE edits[c] # None /\ edits'[c].entries = edits[c].entries
      BY <3>2, <2>2, <1>1 DEF FileInv, ReadOk, Present
    <3>. QED BY <2>2, <3>1, <3>2 DEF ReadOk
  <2>. QED BY <2>1, <2>2
<1>4. ASSUME NEW f \in Flushers PROVE Recorded(f)' BY <1>1 DEF FileInv, Recorded
<1>. QED BY <1>2, <1>3, <1>4 DEF FileInv

\* A deletion removes files of its own workspace, which is exempt from then.
LEMMA RemovesStep ==
  ASSUME FileInv, RestInv, NEW c \in Editors, DeleteRemoves(c)
  PROVE  FileInv'
<1>. DEFINE x == edits[c].id
<1>1. /\ edits[c] \in Edits /\ edits[c] # None /\ edits[c].pc = "remove" /\ edits[c].op = "delete"
      /\ edits' = [edits EXCEPT ![c].pc = "save"] /\ UNCHANGED <<entries, undone, flush>>
  BY DEF DeleteRemoves, Editing, list, RestInv, ListTypes
<1>2. /\ x \in Ids /\ edits'[c] # None /\ edits'[c].id = x /\ edits'[c].entries = edits[c].entries
      /\ edits'[c].op = "delete" /\ edits'[c].pc = "save"
      /\ \A e \in Editors \ {c} : edits'[e] = edits[e]
  <2>1. edits'[c] = [edits[c] EXCEPT !.pc = "save"] /\ \A e \in Editors \ {c} : edits'[e] = edits[e]
    BY <1>1 DEF RestInv, ListTypes
  <2>2. [edits[c] EXCEPT !.pc = "save"] \in Edits BY <1>1 DEF Edits
  <2>. QED BY <2>1, <2>2, <1>1, NoneAssumption DEF Edits
<1>3. \A w \in Ids : ~Exempt(w)' => w # x /\ ~Exempt(w) BY <1>1, <1>2 DEF Exempt, Deleting
<1>4. ASSUME NEW d \in Dests, d[1] # x PROVE disk'[d] = disk[d]
  <2>1. edits[c].entries[x].auto \in Named(x) BY <1>1, <1>2 DEF FileInv, ReadOk
  <2>2. d # None /\ ~Removed(c, d) BY <2>1, <1>4, NoneAssumption DEF Removed, Named
  <2>. QED BY <2>2 DEF DeleteRemoves
<1>5. ASSUME NEW w \in Ids, w # x, NEW entry, entry.auto \in Named(w), Present(entry) PROVE Present(entry)'
  <2>. SUFFICES ASSUME entry.listed, entry.auto # None PROVE disk'[entry.auto] # None BY DEF Present
  <2>1. entry.auto \in Dests /\ entry.auto[1] = w BY <1>5 DEF Named, Dests
  <2>. QED BY <2>1, <1>4, <1>5 DEF Present
<1>6. ASSUME NEW w \in Ids PROVE entries'[w].auto \in Named(w) /\ (~Exempt(w)' => Present(entries[w])')
  BY <1>1, <1>3, <1>5 DEF FileInv, Present
<1>7. ASSUME NEW e \in Editors PROVE ReadOk(e)'
  <2>. SUFFICES ASSUME edits'[e] # None, NEW w \in Ids
                PROVE  /\ edits'[e].entries[w].auto \in Named(w)
                       /\ entries'[w].listed /\ ~Exempt(w)' => Present(edits[e].entries[w])'
    BY DEF ReadOk
  <2>1. PICK r : r = edits[e].entries[w] OBVIOUS
  <2>2. edits[e] # None /\ edits'[e].entries[w] = r BY <1>1, <1>2, <2>1
  <2>3. r.auto \in Named(w) /\ (entries[w].listed /\ ~Exempt(w) => Present(r))
    BY <2>1, <2>2 DEF FileInv, ReadOk, Present
  <2>4. entries'[w].listed /\ ~Exempt(w)' => Present(r)' BY <2>3, <1>1, <1>3, <1>5
  <2>. QED BY <2>2, <2>3, <2>4 DEF Present
<1>8. ASSUME NEW f \in Flushers PROVE Recorded(f)'
  <2>. SUFFICES ASSUME NEW w \in Ids, flush[f].pc = "record", flush[f].env.id = w, entries[w].listed,
                       ~Exempt(w)'
                PROVE  disk'[FlushDest(flush[f].env)] # None BY <1>1 DEF Recorded
  <2>1. flush[f].env \in Envelopes BY DEF RestInv, WritersInv, Enveloped
  <2>2. FlushDest(flush[f].env) \in Dests /\ FlushDest(flush[f].env)[1] = w
    BY <2>1, DestIsDest DEF FlushDest
  <2>. QED BY <2>2, <1>3, <1>4 DEF FileInv, Recorded
<1>. QED BY <1>6, <1>7, <1>8 DEF FileInv

\* Who is listed after the write of an edit was listed before or is undone.
LEMMA ListWritten ==
  ASSUME FileInv, RestInv, NEW c \in Editors, DeleteSaves(c) \/ RenameSaves(c)
  PROVE  FileInv'
<1>1. /\ edits[c] # None /\ edits[c] \in Edits /\ edits[c].pc = "save" /\ entries' = Rewritten(c)
      /\ undone' = undone \cup {w \in Ids : Rewritten(c)[w].listed /\ ~entries[w].listed}
      /\ edits' = [edits EXCEPT ![c] = None] /\ UNCHANGED <<disk, flush>>
  BY DEF DeleteSaves, RenameSaves, WritesList, Editing, files, RestInv, ListTypes
<1>2. edits'[c] = None /\ \A e \in Editors \ {c} : edits'[e] = edits[e]
  BY <1>1 DEF RestInv, ListTypes
<1>3. ASSUME NEW w \in Ids, entries'[w].listed, ~Exempt(w)'
      PROVE  entries[w].listed /\ ~Exempt(w) /\ entries'[w] = edits[c].entries[w]
  <2>1. entries'[w] = edits[c].entries[w] /\ ~(edits[c].op = "delete" /\ edits[c].id = w)
    BY <1>1, <1>3 DEF Rewritten
  <2>2. entries[w].listed /\ w \notin undone BY <1>1, <1>3 DEF Exempt
  <2>3. ~\E e \in Editors : Deleting(e, w) BY <2>1, <1>2, <1>3 DEF Exempt, Deleting
  <2>. QED BY <2>1, <2>2, <2>3 DEF Exempt
<1>4. ASSUME NEW w \in Ids PROVE entries'[w].auto \in Named(w) /\ (~Exempt(w)' => Present(entries[w])')
  <2>1. entries'[w].auto \in Named(w) BY <1>1 DEF Rewritten, Named, FileInv, ReadOk
  <2>2. ASSUME ~Exempt(w)', entries'[w].listed PROVE Present(edits[c].entries[w])
    BY <2>2, <1>1, <1>3 DEF FileInv, ReadOk
  <2>. QED BY <2>1, <2>2, <1>1, <1>3 DEF Present
<1>5. ASSUME NEW e \in Editors PROVE ReadOk(e)' BY <1>1, <1>2, <1>3 DEF FileInv, ReadOk, Present
<1>6. ASSUME NEW f \in Flushers PROVE Recorded(f)' BY <1>1, <1>3 DEF FileInv, Recorded
<1>. QED BY <1>4, <1>5, <1>6 DEF FileInv

LEMMA EditFiles ==
  ASSUME FileInv, RestInv, NEW c \in Editors, Edit(c)
  PROVE  FileInv'
<1>. USE DEF clock, shell, files, list
<1>1. /\ ListTypes /\ edits \in [Editors -> Edits \cup {None}]
      /\ edits[c] # None => edits[c] \in Edits BY DEF RestInv, ListTypes
<1>2. ASSUME NEW w \in Ids, NEW file \in BOOLEAN, DeleteBegin(c, w, file) PROVE FileInv'
  <2>1. /\ UNCHANGED <<entries, disk, flush, undone>> /\ edits[c] = None
        /\ edits'[c].entries = entries /\ \A e \in Editors \ {c} : edits'[e] = edits[e]
    BY <1>1, <1>2 DEF DeleteBegin
  <2>. QED BY <2>1, <1>1, EditMoves DEF Deleting
<1>3. ASSUME NEW w \in Ids, RenameReads(c, w) PROVE FileInv'
  <2>1. /\ UNCHANGED <<entries, disk, flush, undone>> /\ edits[c] = None
        /\ edits'[c].entries = entries /\ \A e \in Editors \ {c} : edits'[e] = edits[e]
    BY <1>1, <1>3 DEF RenameReads
  <2>. QED BY <2>1, <1>1, EditMoves DEF Deleting
<1>4. ASSUME NEW s \in Sess, DeleteCloses(c, s) PROVE FileInv'
  <2>1. /\ UNCHANGED <<entries, disk, flush, undone>> /\ edits[c] # None /\ edits[c].pc = "close"
        /\ edits'[c].entries = edits[c].entries /\ \A e \in Editors \ {c} : edits'[e] = edits[e]
    BY <1>1, <1>4 DEF DeleteCloses, Editing, Edits
  <2>. QED BY <2>1, <1>1, EditMoves DEF Deleting
<1>5. CASE DeleteClears(c)
  <2>1. /\ UNCHANGED <<entries, disk, flush, undone>> /\ edits[c] # None /\ edits[c].pc = "close"
        /\ edits'[c].entries = edits[c].entries /\ \A e \in Editors \ {c} : edits'[e] = edits[e]
    BY <1>1, <1>5 DEF DeleteClears, Editing, Edits
  <2>. QED BY <2>1, <1>1, EditMoves DEF Deleting
<1>6. CASE EditFails(c)
  <2>1. /\ UNCHANGED <<entries, disk, flush>> /\ edits'[c] = None
        /\ \A e \in Editors \ {c} : edits'[e] = edits[e]
        /\ undone' = undone \cup (IF edits[c].op = "delete" THEN {edits[c].id} ELSE {})
    BY <1>1, <1>6 DEF EditFails
  <2>. QED BY <2>1, <1>1, EditMoves DEF Deleting
<1>. QED BY <1>2, <1>3, <1>4, <1>5, <1>6, RemovesStep, ListWritten DEF Edit

LEMMA FileStep ==
  ASSUME ReachInv, RestInv, FileInv, [Next]_vars
  PROVE  FileInv'
<1>. USE DEF clock, shell, files, list
<1>1. /\ \A w \in Ids : entries[w].auto \in Named(w) /\ (~Exempt(w) => Present(entries[w]))
      /\ \A c \in Editors : ReadOk(c)
      /\ \A f \in Flushers : Recorded(f) BY DEF FileInv
<1>2. /\ disk \in [Dests -> Contents \cup {None}] /\ None \notin Contents
      /\ \A w \in Ids : Named(w) \subseteq Dests \cup {None}
  BY NoneAssumption DEF RestInv, WritersInv, Named, Dests
\* Files only appear, and no flush that was not there is in its last leg.
<1>a. ASSUME UNCHANGED <<entries, edits, undone>>,
             \A d \in Dests : disk[d] # None => disk'[d] # None,
             \A f \in Flushers : flush'[f].pc = "record" =>
               \/ flush[f].pc = "record" /\ flush'[f].env = flush[f].env
               \/ disk'[FlushDest(flush'[f].env)] # None
      PROVE  FileInv'
  <2>0. \A w \in Ids : Exempt(w)' <=> Exempt(w) BY <1>a DEF Exempt, Deleting
  <2>1. ASSUME NEW f \in Flushers PROVE Recorded(f)'
    <3>. SUFFICES ASSUME NEW w \in Ids, flush'[f].pc = "record", flush'[f].env.id = w,
                         entries[w].listed, ~Exempt(w)'
                  PROVE  disk'[FlushDest(flush'[f].env)] # None BY <1>a DEF Recorded
    <3>1. CASE flush[f].pc = "record" /\ flush'[f].env = flush[f].env
      <4>1. FlushDest(flush[f].env) \in Dests BY <3>1, DestIsDest DEF RestInv, WritersInv, Enveloped
      <4>2. disk[FlushDest(flush[f].env)] # None BY <3>1, <2>0, <1>1 DEF Recorded
      <4>. QED BY <3>1, <4>1, <4>2, <1>a
    <3>. QED BY <3>1, <1>a
  <2>2. ASSUME NEW w \in Ids PROVE entries'[w].auto \in Named(w) /\ (~Exempt(w)' => Present(entries[w])')
    BY <1>a, <1>1, <1>2, <2>0 DEF Present
  <2>3. ASSUME NEW c \in Editors PROVE ReadOk(c)' BY <1>a, <1>1, <1>2, <2>0 DEF Present, ReadOk
  <2>. QED BY <2>1, <2>2, <2>3 DEF FileInv
<1>b. ASSUME UNCHANGED <<entries, edits, undone, disk, flush>> PROVE FileInv' BY <1>a, <1>b
\* A snapshot is written.
<1>c. ASSUME NEW env \in Envelopes, NEW s \in SUBSET Sess, NEW a \in SUBSET Artifacts,
             disk' = [disk EXCEPT ![FlushDest(env)] = [sess |-> s, art |-> a]]
      PROVE  /\ \A d \in Dests : disk[d] # None => disk'[d] # None
             /\ disk'[FlushDest(env)] # None
  <2>1. [sess |-> s, art |-> a] # None BY <1>2 DEF Contents
  <2>. QED BY <2>1, <1>2, <1>c, DestIsDest
<1>3. CASE Handlers
  <2>1. CASE Mutate \/ ScheduleAutosave \/ SaveCollect \/ WindowLapses \/ BeginSwitch
    BY <2>1, <1>b DEF Mutate, ScheduleAutosave, SaveCollect, WindowLapses, BeginSwitch
  <2>2. ASSUME NEW s \in Sess, OpenSession(s) \/ CloseSession(s) PROVE FileInv'
    BY <2>2, <1>b DEF OpenSession, CloseSession
  <2>3. ASSUME NEW w \in Ids, NEW explicit \in BOOLEAN, Save(w, explicit) \/ SyncEnvelope(w, explicit)
        PROVE  FileInv' BY <2>3, <1>b DEF Save, SyncEnvelope
  <2>4. CASE SaveWrite
    <3>1. /\ disk' = [disk EXCEPT ![FlushDest(save.env)] = [sess |-> save.sess, art |-> save.art]]
          /\ save.pc = "write" /\ UNCHANGED <<entries, edits, undone, flush>> BY <2>4 DEF SaveWrite
    <3>2. save.env \in Envelopes /\ save.sess \in SUBSET Sess /\ save.art \in SUBSET Artifacts
      BY <3>1 DEF RestInv, WritersInv, SaveLocals
    <3>. QED BY <3>1, <3>2, <1>a, <1>c
  <2>5. ASSUME NEW c \in Editors, Edit(c) PROVE FileInv' BY <2>5, EditFiles
  <2>. QED BY <1>3, <2>1, <2>2, <2>3, <2>4, <2>5 DEF Handlers
<1>4. CASE Debounced
  <2>1. /\ UNCHANGED <<entries, edits, undone, disk>>
        /\ \A f \in Flushers : flush'[f] = flush[f] \/ flush'[f].pc = "gate"
    BY <1>4 DEF Debounced, ReachInv, Starting, Flushers
  <2>. QED BY <2>1, <1>a
<1>5. CASE ExitFlush
  <2>1. /\ UNCHANGED <<entries, edits, undone, disk>>
        /\ \A f \in Flushers : flush'[f] = flush[f] \/ flush'[f].pc = "gate"
    BY <1>5 DEF ExitFlush, ReachInv, Starting, Flushers
  <2>. QED BY <2>1, <1>a
<1>6. CASE Gone BY <1>6, <1>b DEF Gone
<1>7. ASSUME NEW g \in Flushers, Flush(g) PROVE FileInv'
  <2>1. CASE WriteFile(g)
    <3>1. /\ disk' = [disk EXCEPT ![FlushDest(flush[g].env)] = [sess |-> flush[g].sess, art |-> flush[g].art]]
          /\ flush[g].pc = "write" /\ flush' = [flush EXCEPT ![g].pc = "record"]
          /\ UNCHANGED <<entries, edits, undone>> BY <2>1 DEF WriteFile
    <3>2. flush[g].env \in Envelopes /\ flush[g].sess \in SUBSET Sess /\ flush[g].art \in SUBSET Artifacts
      BY <3>1 DEF RestInv, WritersInv, ReachInv, Locals, Enveloped
    <3>3. \A f \in Flushers : f # g => flush'[f] = flush[f] BY <3>1 DEF ReachInv
    <3>4. flush'[g].env = flush[g].env BY <3>1 DEF ReachInv, Locals
    <3>. QED BY <3>1, <3>2, <3>3, <3>4, <1>a, <1>c
  <2>2. CASE RecordSave(g)
    <3>. DEFINE env == flush[g].env
    <3>1. /\ entries' = [w \in Ids |-> IF w = env.id /\ entries[w].listed
                                       THEN [entries[w] EXCEPT !.auto = FlushDest(env)]
                                       ELSE entries[w]]
          /\ flush' = [flush EXCEPT ![g].pc = "done"] /\ flush[g].pc = "record"
          /\ UNCHANGED <<edits, undone, disk>> BY <2>2 DEF RecordSave
    <3>2. env \in Envelopes /\ env.id \in Ids /\ FlushDest(env) \in Named(env.id)
      BY <3>1 DEF RestInv, WritersInv, Enveloped, Envelopes, FlushDest, Named
    <3>3. /\ entries \in EntryLists /\ \A w \in Ids : Exempt(w)' <=> Exempt(w)
          /\ \A w \in Ids : /\ entries'[w].listed <=> entries[w].listed
                            /\ w # env.id => entries'[w] = entries[w]
                            /\ entries'[w].auto \in {entries[w].auto, FlushDest(env)}
      BY <3>1 DEF RestInv, ListTypes, EntryLists, Exempt, Deleting
    <3>4. ASSUME NEW f \in Flushers PROVE Recorded(f)'
      <4>1. CASE f = g BY <4>1, <3>1 DEF Recorded, ReachInv, Locals
      <4>2. CASE f # g
        <5>1. flush'[f] = flush[f] BY <4>2, <3>1 DEF ReachInv
        <5>. QED BY <5>1, <3>1, <3>3, <1>1 DEF Recorded
      <4>. QED BY <4>1, <4>2
    <3>5. ASSUME NEW w \in Ids PROVE entries'[w].auto \in Named(w) /\ (~Exempt(w)' => Present(entries[w])')
      <4>1. CASE w # env.id BY <4>1, <3>1, <3>3, <1>1 DEF Present
      <4>2. CASE w = env.id
        <5>1. entries'[w].auto \in Named(w) BY <4>2, <3>2, <3>3, <1>1
        <5>2. entries[w].listed /\ ~Exempt(w) => disk[FlushDest(env)] # None
          BY <4>2, <3>1, <1>1 DEF Recorded
        <5>3. ~Exempt(w)' => Present(entries[w])' BY <5>2, <3>1, <3>3, <1>1 DEF Present
        <5>. QED BY <5>1, <5>3
      <4>. QED BY <4>1, <4>2
    <3>6. ASSUME NEW c \in Editors PROVE ReadOk(c)' BY <3>1, <3>3, <1>1 DEF Present, ReadOk
    <3>. QED BY <3>4, <3>5, <3>6 DEF FileInv
  <2>3. CASE ~WriteFile(g) /\ ~RecordSave(g)
    <3>1. UNCHANGED <<entries, edits, undone, disk>> BY <1>7, <2>3 DEF Flush, Gate, CloneEnvelope,
         Collect, Recheck, TakeArtifacts, FlushDone, Local
    <3>2. /\ \A f \in Flushers : f # g => flush'[f] = flush[f]
          /\ flush'[g].pc # "record"
      <4>1. flush \in [Flushers -> Locals] BY DEF ReachInv
      <4>2. CASE Gate(g) BY <4>1, <4>2 DEF Gate, Local, Locals, Idle, Starting
      <4>3. CASE CloneEnvelope(g) BY <4>1, <4>3 DEF CloneEnvelope, Local, Locals, Idle, Starting
      <4>4. CASE Recheck(g) BY <4>1, <4>4 DEF Recheck, Local, Locals, Idle, Starting
      <4>5. CASE Collect(g) \/ TakeArtifacts(g)
        BY <4>1, <4>5 DEF Collect, TakeArtifacts, Local, Locals
      <4>6. CASE FlushDone(g) BY <4>1, <4>6 DEF FlushDone, Idle, Starting
      <4>. QED BY <1>7, <2>3, <4>2, <4>3, <4>4, <4>5, <4>6 DEF Flush
    <3>. QED BY <3>1, <3>2, <1>a
  <2>. QED BY <2>1, <2>2, <2>3
<1>8. ASSUME NEW g \in Flushers, FlushFails(g) PROVE FileInv'
  <2>1. flush' = [flush EXCEPT ![g] = Idle] /\ UNCHANGED <<entries, edits, undone, disk>>
    BY <1>8 DEF FlushFails
  <2>2. \A f \in Flushers : flush'[f] = flush[f] \/ flush'[f].pc = "idle"
    BY <2>1 DEF ReachInv, Idle, Starting
  <2>. QED BY <2>1, <2>2, <1>a
<1>9. CASE UNCHANGED vars BY <1>9, <1>b DEF vars
<1>. QED BY <1>3, <1>4, <1>5, <1>6, <1>7, <1>8, <1>9 DEF Next

\* SnapshotsSound in every reachable state: what a flush is about to write
\* is not the empty shell of a workspace that was torn down under it, and
\* the list names a missing auto-save file only where a deletion is about to
\* write the list, or was undone.
THEOREM AutosaveSnapshots == Spec => []SnapshotsSound
<1>1. ReachInv /\ RestInv /\ SnapInv /\ FileInv => SnapshotsSound
  <2>. SUFFICES ASSUME ReachInv, RestInv, SnapInv, FileInv PROVE SnapshotsSound OBVIOUS
  <2>1. NoBareSnapshot BY DEF SnapInv, SnapOf, NoBareSnapshot
  <2>2. ListedFileExists BY DEF FileInv, Present, ListedFileExists
  <2>. QED BY <2>1, <2>2 DEF SnapshotsSound
<1>2. ReachInv /\ RestInv /\ SnapInv /\ FileInv /\ [Next]_vars
        => ReachInv' /\ RestInv' /\ SnapInv' /\ FileInv'
  BY ReachStep, ProcStep, WritersStep, ListTypesStep, SnapStep, FileStep DEF RestInv
<1>3. Init => ReachInv /\ RestInv /\ SnapInv /\ FileInv BY ReachInit, RestInit, SnapInit, FileInit
<1>. QED BY <1>1, <1>2, <1>3, PTL DEF Spec
=============================================================================
