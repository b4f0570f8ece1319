------------------------- MODULE LiveStream_proofs --------------------------
\* The stream epoch guard is sound for every number of processors, callers
\* and lines, as long as no command seeds the session again after a stop
\* or close, and the published results agree with what the processors
\* consumed.  Type correctness first, then the inductive invariant
\* GuardInv of the guard, action by action, and ResInv of the lines.
EXTENDS LiveStream, TLAPS

LEMMA AbsentIsState == Absent \in States BY BoundAssumption DEF Absent, StateOf, States

LEMMA NoBatchType == NoClone \in [Procs -> States] /\ NoBatch \in Batches
<1>1. NoClone \in [Procs -> States] BY AbsentIsState DEF NoClone
<1> QED BY <1>1 DEF NoBatch, Batches

LEMMA BatchLinesAreNat == TypeOK => BatchLines \in SUBSET Nat BY DEF TypeOK, BatchLines, Batches

LEMMA ClonedType ==
    ASSUME TypeOK, NEW S
    PROVE  Cloned(S) \in [Procs -> States] BY AbsentIsState DEF TypeOK, Cloned

LEMMA AdvancedType ==
    ASSUME TypeOK, NEW p \in Procs
    PROVE  /\ Advanced(p) \in States /\ Advanced(p).birth = batch.clone[p].birth
BY BatchLinesAreNat DEF TypeOK, Advanced, States, Batches

LEMMA ReinsertType ==
    ASSUME TypeOK, NEW k \in Kinds, Reinsert(k)
    PROVE  live' \in [Procs -> States] BY AdvancedType DEF TypeOK, Reinsert

LEMMA MergeType ==
    ASSUME TypeOK, Merge
    PROVE  results' \in [Procs -> SUBSET Nat] BY BatchLinesAreNat DEF TypeOK, Merge

LEMMA InitType == Init => TypeOK
<1> SUFFICES ASSUME Init PROVE TypeOK OBVIOUS
<1>1. live \in [Procs -> States] /\ batch \in Batches BY AbsentIsState, NoBatchType DEF Init
<1>2. stamp \in 0..MaxStamp /\ owner \in [Procs -> 0..MaxStamp] BY BoundAssumption DEF Init
<1> QED BY <1>1, <1>2 DEF Init, TypeOK, TaskPcs, Kinds

LEMMA StartType == TypeOK /\ Start => TypeOK'
<1> SUFFICES ASSUME TypeOK, Start PROVE TypeOK' OBVIOUS
<1>1. CASE StartInsertSession BY <1>1 DEF StartInsertSession, TypeOK, history
<1>2. CASE StartSeedEpoch BY <1>2 DEF StartSeedEpoch, TypeOK
<1>3. CASE StartRefused BY <1>3 DEF StartRefused, TypeOK, history
<1>4. ASSUME NEW chain \in SUBSET Procs, StartSeedState(chain)
      PROVE  TypeOK'
  <2>1. stamp + 1 \in 0..MaxStamp BY <1>4, BoundAssumption DEF StartSeedState, TypeOK
  <2>2. StateOf(stamp + 1, 0, {}) \in States BY <2>1 DEF StateOf, States
  <2>3. live' \in [Procs -> States] BY <1>4, <2>2, AbsentIsState DEF StartSeedState, TypeOK
  <2>4. owner' \in [Procs -> 0..MaxStamp] BY <1>4, <2>1, BoundAssumption DEF StartSeedState, TypeOK
  <2>5. hasMap' \in [Kinds -> BOOLEAN] BY <1>4 DEF StartSeedState, TypeOK
  <2> QED BY <1>4, <2>1, <2>3, <2>4, <2>5 DEF StartSeedState, TypeOK
<1>5. CASE StartRegisterTask BY <1>5 DEF StartRegisterTask, TypeOK, history
<1>6. CASE StartSpawnTask BY <1>6 DEF StartSpawnTask, TypeOK, TaskPcs, history
<1> QED BY <1>1, <1>2, <1>3, <1>4, <1>5, <1>6 DEF Start

LEMMA TaskType == TypeOK /\ Task => TypeOK'
<1> SUFFICES ASSUME TypeOK, Task PROVE TypeOK' OBVIOUS
<1>1. CASE TaskOpen BY <1>1 DEF TaskOpen, TypeOK, TaskPcs, history
<1>2. CASE TaskExit BY <1>2 DEF TaskExit, TypeOK, TaskPcs, history
<1>3. ASSUME NEW n \in 1..MaxBatch, FlushBegin(n)
      PROVE  TypeOK'
  <2>1. batch' \in Batches BY <1>3, NoBatchType, BoundAssumption DEF FlushBegin, TypeOK, Batches
  <2> QED BY <1>3, <2>1 DEF FlushBegin, TypeOK, TaskPcs, history
<1>4. CASE FlushCloneTransformers
  <2>1. batch' \in Batches BY <1>4, ClonedType DEF FlushCloneTransformers, TypeOK, Batches
  <2> QED BY <1>4, <2>1 DEF FlushCloneTransformers, TypeOK, TaskPcs, history
<1>5. CASE FlushReinsertTransformers
  <2>1. live' \in [Procs -> States] BY <1>5, ReinsertType DEF FlushReinsertTransformers, Kinds
  <2> QED BY <1>5, <2>1 DEF FlushReinsertTransformers, TypeOK, TaskPcs, history
<1>6. CASE FlushAppend BY <1>6, NoBatchType DEF FlushAppend, TypeOK, TaskPcs, history, Batches
<1>7. CASE FlushCloneStates
  <2>1. batch' \in Batches BY <1>7, ClonedType, NoBatchType DEF FlushCloneStates, TypeOK, Batches
  <2>2. announced' \subseteq Procs BY <1>7 DEF FlushCloneStates, TypeOK, Active, Procs
  <2> QED BY <1>7, <2>1, <2>2 DEF FlushCloneStates, TypeOK, TaskPcs, history
<1>8. CASE FlushReinsertReporters
  <2>1. live' \in [Procs -> States] BY <1>8, ReinsertType DEF FlushReinsertReporters, Kinds
  <2>2. results' \in [Procs -> SUBSET Nat] BY <1>8, MergeType DEF FlushReinsertReporters
  <2>3. superseded' \subseteq Nat /\ task' \in TaskPcs
    BY <1>8, BatchLinesAreNat DEF FlushReinsertReporters, TypeOK, TaskPcs
  <2> QED BY <1>8, <2>1, <2>2, <2>3 DEF FlushReinsertReporters, TypeOK
<1>9. CASE FlushReinsertTrackers
  <2>1. live' \in [Procs -> States] BY <1>9, ReinsertType DEF FlushReinsertTrackers, Kinds
  <2> QED BY ZenonT(30), <1>9, <2>1, BatchLinesAreNat, NoBatchType DEF FlushReinsertTrackers,
    TypeOK, TaskPcs
<1> QED BY <1>1, <1>2, <1>3, <1>4, <1>5, <1>6, <1>7, <1>8, <1>9 DEF Task, TaskOpenFailed, TaskEof,
  TaskCancelled, FlushStep

LEMMA CommandType == TypeOK /\ Command => TypeOK'
<1> SUFFICES ASSUME TypeOK, Command PROVE TypeOK' OBVIOUS
<1>1. ASSUME NEW c \in Callers, StopCancel(c) PROVE TypeOK'
  BY <1>1 DEF StopCancel, TakeAndCancel, TypeOK, history
<1>2. ASSUME NEW c \in Callers, CloseCancel(c) PROVE TypeOK'
  BY <1>2 DEF CloseCancel, TakeAndCancel, TypeOK, history
<1>3. ASSUME NEW c \in Callers, CloseRemoveSession(c) PROVE TypeOK'
  BY <1>3 DEF CloseRemoveSession, TypeOK, history
<1>4. ASSUME NEW c \in Callers, Clear(c) PROVE TypeOK'
  BY <1>4, AbsentIsState, BoundAssumption DEF Clear, DropEpoch, TypeOK
<1>5. ASSUME NEW k \in Kinds, NEW ids \in SUBSET ProcsOf(k), Update(k, ids)
      PROVE  TypeOK'
  <2>1. stamp + 1 \in 0..MaxStamp BY <1>5, BoundAssumption DEF Update, Bumped, TypeOK
  <2>2. StateOf(stamp + 1, total, {}) \in States BY <2>1 DEF StateOf, States, TypeOK
  <2>3. live' \in [Procs -> States] BY <1>5, <2>2, AbsentIsState DEF Update, Bumped, TypeOK
  <2>4. owner' \in [Procs -> 0..MaxStamp] BY <1>5, <2>1, BoundAssumption DEF Update, Bumped, TypeOK
  <2>5. epoch' \in Nat \cup {NoEpoch} BY <1>5 DEF Update, Bumped, TypeOK, NoEpoch
  <2>6. hasMap' \in [Kinds -> BOOLEAN] BY <1>5 DEF Update, Bumped, TypeOK
  <2> QED BY <1>5, <2>1, <2>3, <2>4, <2>5, <2>6 DEF Update, Bumped, TypeOK
<1> QED BY <1>1, <1>2, <1>3, <1>4, <1>5 DEF Command

LEMMA NextType == TypeOK /\ [Next]_vars => TypeOK'
<1>1. TypeOK /\ UNCHANGED vars => TypeOK' BY DEF TypeOK, vars, program, history
<1> QED BY <1>1, StartType, TaskType, CommandType DEF Next

\* Every reachable state is well typed.
THEOREM TypeCorrect == Spec => []TypeOK BY InitType, NextType, PTL DEF Spec
----------------------------------------
\* The guard.  Guard is GuardInv without its typing conjunct.
Guard == /\ TaskAfterStart
         /\ SeededUntilCleared /\ EpochGrows /\ TerminalStaysClean /\ ClonesAreFresh
         /\ NoResurrection

LEMMA EveryProcHasKind == \A p \in Procs : \E k \in Kinds : p \in ProcsOf(k)
BY DEF Procs, Kinds, ProcsOf

LEMMA InitGuard == Init => Guard
BY DEF Init, Guard, TaskAfterStart, SeededUntilCleared, EpochGrows, InFlight, TerminalStaysClean,
  ClonesAreFresh, NoResurrection, OwnedByLastCommand, Absent, StateOf

\* While the session is starting there is no task, hence no clone.
LEMMA StartGuard == TypeOK /\ Guard /\ Start => Guard'
<1> SUFFICES ASSUME TypeOK, Guard, Start PROVE Guard' OBVIOUS
<1> USE DEF Guard, TaskAfterStart, SeededUntilCleared, EpochGrows, InFlight,
            ClonesAreFresh, HoldsClone, StillCurrent
<1>1. CASE StartInsertSession
  BY <1>1 DEF StartInsertSession, history, TerminalStaysClean, NoResurrection, OwnedByLastCommand
<1>2. CASE StartSeedEpoch BY <1>2 DEF StartSeedEpoch, TerminalStaysClean, NoResurrection,
              OwnedByLastCommand, NoEpoch, TypeOK
<1>3. CASE StartRefused BY <1>3 DEF StartRefused, history, TerminalStaysClean, NoResurrection,
              OwnedByLastCommand
<1>4. ASSUME NEW chain \in SUBSET Procs, StartSeedState(chain)
      PROVE  Guard'
  <2>1. NoResurrection'
    <3>1. ASSUME NEW p \in chain
          PROVE  \E k \in {j \in Kinds : ProcsOf(j) \cap chain # {}} : p \in ProcsOf(k)
      BY <3>1, EveryProcHasKind
    <3> QED BY <1>4, <3>1 DEF StartSeedState, NoResurrection, OwnedByLastCommand, StateOf, Absent,
                        TypeOK
  <2>2. TerminalStaysClean' BY <1>4 DEF StartSeedState, TerminalStaysClean
  <2> QED BY <1>4, <2>1, <2>2 DEF StartSeedState
<1>5. CASE StartRegisterTask
  BY <1>5 DEF StartRegisterTask, history, TerminalStaysClean, NoResurrection, OwnedByLastCommand
<1>6. CASE StartSpawnTask BY <1>6 DEF StartSpawnTask, history, TerminalStaysClean, NoResurrection,
              OwnedByLastCommand
<1> QED BY <1>1, <1>2, <1>3, <1>4, <1>5, <1>6 DEF Start

\* A re-insert writes back what is there already, but for the lines seen.
LEMMA ReinsertKeepsBirths ==
    ASSUME TypeOK, Guard, ~rewoken, NEW k \in Kinds, Reinsert(k), InFlight,
           \A p \in ProcsOf(k) : HoldsClone(p)
    PROVE  \A p \in Procs : live'[p].birth = live[p].birth
<1> SUFFICES ASSUME NEW p \in Procs PROVE live'[p].birth = live[p].birth OBVIOUS
<1>1. CASE StillCurrent /\ p \in ProcsOf(k) /\ batch.clone[p] # Absent
  <2>1. batch.clone[p] = live[p] BY <1>1 DEF Guard, ClonesAreFresh
  <2> QED BY <1>1, <2>1, AdvancedType DEF Reinsert
<1>2. CASE ~(StillCurrent /\ p \in ProcsOf(k) /\ batch.clone[p] # Absent) BY <1>2 DEF Reinsert
<1> QED BY <1>1, <1>2

\* After the clear there is nothing to re-insert and nothing to merge.
LEMMA ReinsertAfterClear ==
    ASSUME TypeOK, Guard, ~rewoken, cleared, NEW k \in Kinds, Reinsert(k)
    PROVE  live' = live BY DEF Guard, TerminalStaysClean, Reinsert, TypeOK

LEMMA MergeAfterClear ==
    ASSUME TypeOK, Guard, ~rewoken, cleared, Merge, task = "report"
    PROVE  results' = results
<1>1. \A p \in Reporters : StillCurrent => batch.clone[p] = Absent
  BY DEF Guard, TerminalStaysClean, ClonesAreFresh, InFlight, HoldsClone, Procs
<1> QED BY <1>1 DEF Merge, TypeOK
\* A task step that re-inserts nothing keeps the state and the history.
LEMMA QuietStep ==
    ASSUME TypeOK, Guard, task # "off", task' # "off", task' \in TaskPcs,
           UNCHANGED <<starter, epoch, hasMap, live, results, owner, cleared,
                       rewoken>>,
           InFlight' => EpochGrows',
           InFlight' => ClonesAreFresh'
    PROVE  Guard'
<1>1. EpochGrows' /\ ClonesAreFresh' BY DEF EpochGrows, ClonesAreFresh
<1>2. TaskAfterStart' /\ SeededUntilCleared' BY DEF Guard, TaskAfterStart, SeededUntilCleared
<1>3. TerminalStaysClean' /\ NoResurrection'
  BY DEF Guard, TerminalStaysClean, NoResurrection, OwnedByLastCommand
<1> QED BY <1>1, <1>2, <1>3 DEF Guard

LEMMA TaskGuard == TypeOK /\ Guard /\ Task => Guard'
<1> SUFFICES ASSUME TypeOK, Guard, Task PROVE Guard' OBVIOUS
<1> USE DEF InFlight, history
<1>1. CASE TaskOpen BY <1>1, QuietStep DEF TaskOpen, TaskPcs
<1>2. ASSUME task \in {"opening", "idle"}, TaskExit
      PROVE  Guard' BY <1>2, QuietStep DEF TaskExit, TaskPcs
<1>3. ASSUME NEW n \in 1..MaxBatch, FlushBegin(n)
      PROVE  Guard'
  <2>1. EpochGrows' BY <1>3 DEF FlushBegin, Guard, EpochGrows, SeededUntilCleared, TypeOK, NoEpoch
  <2>2. ClonesAreFresh' BY <1>3 DEF FlushBegin, ClonesAreFresh, HoldsClone
  <2> QED BY <1>3, <2>1, <2>2, QuietStep DEF FlushBegin, TaskPcs
<1>4. CASE FlushCloneTransformers
  <2>1. EpochGrows' BY <1>4 DEF FlushCloneTransformers, Guard, EpochGrows, TypeOK, Batches
  <2>2. \A p \in Procs : batch'.clone[p] \in {Absent, live[p]}
    BY <1>4 DEF FlushCloneTransformers, Cloned, TypeOK, Batches
  <2>3. ClonesAreFresh' BY <1>4, <2>2 DEF FlushCloneTransformers, ClonesAreFresh
  <2> QED BY <1>4, <2>1, <2>3, QuietStep DEF FlushCloneTransformers, TaskPcs
<1>5. CASE FlushReinsertTransformers
  <2>1. EpochGrows' /\ ClonesAreFresh'
    BY <1>5 DEF FlushReinsertTransformers, Guard, EpochGrows, ClonesAreFresh, HoldsClone
  <2>2. ~rewoken => \A p \in Procs : live'[p].birth = live[p].birth
    BY <1>5, ReinsertKeepsBirths DEF FlushReinsertTransformers, Kinds, HoldsClone
  <2>3. NoResurrection'
    BY <1>5, <2>2 DEF FlushReinsertTransformers, Guard, NoResurrection, OwnedByLastCommand
  <2>4. cleared /\ ~rewoken => live' = live
    BY <1>5, ReinsertAfterClear DEF FlushReinsertTransformers, Kinds
  <2>5. TerminalStaysClean' BY <1>5, <2>4 DEF FlushReinsertTransformers, Guard, TerminalStaysClean
  <2> QED BY <1>5, <2>1, <2>3, <2>5 DEF FlushReinsertTransformers, Guard, TaskAfterStart,
    SeededUntilCleared
<1>6. CASE FlushAppend
  <2>1. InFlight' => EpochGrows' /\ ClonesAreFresh'
    BY <1>6 DEF FlushAppend, Guard, EpochGrows, ClonesAreFresh, HoldsClone
  <2> QED BY <1>6, <2>1, QuietStep DEF FlushAppend, TaskPcs
<1>7. CASE FlushCloneStates
  <2>1. InFlight' => EpochGrows' BY <1>7 DEF FlushCloneStates, Guard, EpochGrows, TypeOK, Batches
  <2>2. InFlight' => \A p \in Procs : batch'.clone[p] \in {Absent, live[p]}
    BY <1>7 DEF FlushCloneStates, Cloned, TypeOK, Batches
  <2>3. InFlight' => ClonesAreFresh' BY <1>7, <2>2 DEF FlushCloneStates, ClonesAreFresh
  <2> QED BY <1>7, <2>1, <2>3, QuietStep DEF FlushCloneStates, TaskPcs
<1>8. CASE FlushReinsertReporters
  <2>1. EpochGrows' BY <1>8 DEF FlushReinsertReporters, Guard, EpochGrows
  <2>2. ~rewoken => \A p \in Procs : live'[p].birth = live[p].birth
    BY <1>8, ReinsertKeepsBirths DEF FlushReinsertReporters, Kinds, HoldsClone
  <2>3. NoResurrection'
    BY <1>8, <2>2 DEF FlushReinsertReporters, Guard, NoResurrection, OwnedByLastCommand
  <2>4. cleared /\ ~rewoken => live' = live /\ results' = results
    BY <1>8, ReinsertAfterClear, MergeAfterClear DEF FlushReinsertReporters, Kinds
  <2>5. TerminalStaysClean' BY <1>8, <2>4 DEF FlushReinsertReporters, Guard, TerminalStaysClean
  <2>6. \A p \in Trackers : live'[p] = live[p]
    BY <1>8, ProcessorAssumption DEF FlushReinsertReporters, Reinsert, ProcsOf, Procs, TypeOK
  <2>7. ClonesAreFresh'
    BY <1>8, <2>6 DEF FlushReinsertReporters, Guard, ClonesAreFresh, HoldsClone, StillCurrent
  <2> QED BY <1>8, <2>1, <2>3, <2>5, <2>7 DEF FlushReinsertReporters, Guard, TaskAfterStart,
    SeededUntilCleared
<1>9. CASE FlushReinsertTrackers
  <2>1. EpochGrows' /\ ClonesAreFresh' BY <1>9 DEF FlushReinsertTrackers, EpochGrows, ClonesAreFresh
  <2>2. ~rewoken => \A p \in Procs : live'[p].birth = live[p].birth
    BY <1>9, ReinsertKeepsBirths DEF FlushReinsertTrackers, Kinds, HoldsClone, ProcsOf
  <2>3. NoResurrection'
    BY <1>9, <2>2 DEF FlushReinsertTrackers, Guard, NoResurrection, OwnedByLastCommand
  <2>4. cleared /\ ~rewoken => live' = live
    BY <1>9, ReinsertAfterClear DEF FlushReinsertTrackers, Kinds
  <2>5. TerminalStaysClean' BY <1>9, <2>4 DEF FlushReinsertTrackers, Guard, TerminalStaysClean
  <2> QED BY <1>9, <2>1, <2>3, <2>5 DEF FlushReinsertTrackers, Guard, TaskAfterStart,
    SeededUntilCleared
<1> QED BY <1>1, <1>2, <1>3, <1>4, <1>5, <1>6, <1>7, <1>8, <1>9 DEF Task, TaskOpenFailed, TaskEof,
  TaskCancelled, FlushStep

\* A writer moves the epoch past every batch in flight, or drops it.
LEMMA CommandGuard == TypeOK /\ Guard /\ Command => Guard'
<1> SUFFICES ASSUME TypeOK, Guard, Command PROVE Guard' OBVIOUS
<1>1. ASSUME UNCHANGED <<starter, task, epoch, hasMap, live, results, batch,
                         owner, cleared, rewoken>>
      PROVE  Guard'
  BY <1>1 DEF Guard, TaskAfterStart, SeededUntilCleared, EpochGrows, InFlight, TerminalStaysClean,
    ClonesAreFresh, HoldsClone, StillCurrent, NoResurrection, OwnedByLastCommand
<1>2. ASSUME NEW c \in Callers, Clear(c)
      PROVE  Guard'
  <2> USE <1>2 DEF Clear, DropEpoch
  <2>1. TaskAfterStart' /\ SeededUntilCleared' BY DEF Guard, TaskAfterStart, SeededUntilCleared
  <2>2. EpochGrows' BY DEF EpochGrows
  <2>3. TerminalStaysClean' BY DEF TerminalStaysClean
  <2>4. NoResurrection' BY DEF NoResurrection, OwnedByLastCommand, Absent, StateOf
  <2>5. ASSUME InFlight, ~rewoken, batch.epoch0 = NoEpoch
        PROVE  ~rewoken => \A p \in Procs : HoldsClone(p) => batch.clone[p] = Absent
    <3>1. cleared /\ StillCurrent /\ \A p \in Procs : live[p] = Absent
      BY <2>5 DEF Guard, EpochGrows, TerminalStaysClean, StillCurrent
    <3> QED BY <2>5, <3>1 DEF Guard, ClonesAreFresh
  <2>6. ClonesAreFresh' BY <2>5 DEF ClonesAreFresh, InFlight, HoldsClone, StillCurrent
  <2> QED BY <2>1, <2>2, <2>3, <2>4, <2>6 DEF Guard
<1>3. ASSUME NEW k \in Kinds, NEW ids \in SUBSET ProcsOf(k), Update(k, ids)
      PROVE  Guard'
  <2> USE <1>3
  <2>1. epoch' # NoEpoch BY DEF Update, Bumped, TypeOK, NoEpoch
  <2>2. TaskAfterStart' /\ SeededUntilCleared'
    BY <2>1 DEF Update, Bumped, Guard, TaskAfterStart, SeededUntilCleared
  <2>3. TerminalStaysClean' BY DEF Update, Bumped, TerminalStaysClean, TypeOK
  <2>4. NoResurrection'
    BY DEF Update, Bumped, Guard, NoResurrection, OwnedByLastCommand, Absent, StateOf, TypeOK
  <2>5. InFlight /\ ~rewoken' => batch.epoch0 < epoch'
    BY DEF Update, Bumped, Guard, InFlight, EpochGrows, SeededUntilCleared, TypeOK, Batches, NoEpoch
  <2>6. EpochGrows'
    BY <2>5 DEF Update, Bumped, Guard, EpochGrows, InFlight, TypeOK, Batches, NoEpoch
  <2>7. ClonesAreFresh'
    BY <2>5 DEF Update, Bumped, ClonesAreFresh, InFlight, StillCurrent, TypeOK, Batches, NoEpoch
  <2> QED BY <2>2, <2>3, <2>4, <2>6, <2>7 DEF Guard
<1> QED BY <1>1, <1>2, <1>3 DEF Command, StopCancel, CloseCancel, CloseRemoveSession, history

LEMMA StutterGuard == Guard /\ UNCHANGED vars => Guard'
BY DEF vars, program, history, Guard, TaskAfterStart, SeededUntilCleared, EpochGrows, InFlight,
  TerminalStaysClean, ClonesAreFresh, HoldsClone, StillCurrent, NoResurrection, OwnedByLastCommand

\* The inductive invariant of the epoch guard.
THEOREM GuardInvariant == Spec => []GuardInv
<1>1. Init => GuardInv BY InitType, InitGuard DEF GuardInv, Guard
<1>2. GuardInv /\ [Next]_vars => GuardInv'
  <2>1. TypeOK /\ Guard /\ [Next]_vars => Guard'
    BY StartGuard, TaskGuard, CommandGuard, StutterGuard DEF Next
  <2>2. TypeOK /\ [Next]_vars => TypeOK' BY NextType
  <2> QED BY <2>1, <2>2 DEF GuardInv, Guard
<1> QED BY <1>1, <1>2, PTL DEF Spec

\* No late re-insert undoes what a command did, unless a command seeds the
\* session again after its stop or close.
THEOREM GuardNoResurrection == Spec => []NoResurrection BY GuardInvariant, PTL DEF GuardInv

\* What a stop or a close has cleared stays cleared while a batch of the
\* stream is still in flight.
THEOREM GuardTerminalStaysClean == Spec => []TerminalStaysClean BY GuardInvariant, PTL DEF GuardInv
----------------------------------------
\* What is published and what was consumed.
BeforeAppend == task \in {"transform", "retransform", "append"}
AfterAppend == task \in {"clone", "report", "track"}

\* The batch in flight and the lines of the session.
LinesInv ==
    /\ session # "absent" <=> starter # "none"
    /\ \A c \in Callers : calls[c] # "none" => session # "absent"
    /\ task \in {"off", "opening"} => total = 0 /\ \A p \in Procs : results[p] = {}
    /\ BeforeAppend /\ session = "open" => batch.first = total
    /\ AfterAppend => batch.first + batch.count = total
    /\ \A p \in Procs :
         /\ live[p].from <= total /\ batch.clone[p].from <= total
         /\ results[p] \subseteq 0 .. (total - 1)

\* Entries sit in maps that are there.
MappedInv == \A k \in Kinds : \A p \in ProcsOf(k) : live[p] # Absent => hasMap[k]

\* A batch whose epoch is current began after every entry was seeded.
BornBefore ==
    ~rewoken /\ StillCurrent /\ (AfterAppend \/ (BeforeAppend /\ session = "open"))
      => \A p \in Procs : live[p].from <= batch.first

\* The lines an entry was owed and has not consumed: none but those of the
\* batch in flight, until it is re-inserted.
Owes(s) == ((s.from .. (total - 1)) \ superseded) \ s.seen
Counted == (Reporters \cup Trackers) \ Excluded
Behind(p) == task \in {"clone", "report"} \/ (task = "track" /\ p \in Trackers)

OwesLive == \A p \in Counted : live[p] # Absent =>
              Owes(live[p]) \subseteq IF Behind(p) THEN BatchLines ELSE {}
OwesClone ==
    \A p \in Counted : Behind(p) /\ task # "clone" =>
      IF batch.clone[p] = Absent THEN live[p] # Absent => Owes(live[p]) = {}
      ELSE Owes(batch.clone[p]) \subseteq BatchLines

ResInv == LinesInv /\ MappedInv /\ BornBefore /\ ResultsMatchState /\ OwesLive /\ OwesClone

LEMMA ResInit == Init => ResInv
<1>. SUFFICES ASSUME Init PROVE ResInv OBVIOUS
<1>1. LinesInv BY DEF Init, LinesInv, BeforeAppend, AfterAppend, Absent, StateOf, NoBatch, NoClone
<1>2. MappedInv /\ ResultsMatchState
  BY DEF Init, MappedInv, ResultsMatchState, ProcsOf, Procs, Kinds
<1>3. BornBefore BY DEF Init, BornBefore, BeforeAppend, AfterAppend
<1>4. OwesLive /\ OwesClone BY DEF Init, OwesLive, OwesClone, Behind, Counted, Procs
<1>. QED BY <1>1, <1>2, <1>3, <1>4 DEF ResInv

\* A re-insert keeps where the clone was seeded.
LEMMA AdvancedParts ==
    ASSUME TypeOK, NEW p \in Procs
    PROVE  /\ Advanced(p).from = batch.clone[p].from
           /\ Advanced(p).seen = batch.clone[p].seen \cup BatchLines
BY DEF TypeOK, Advanced, States, Batches

LEMMA ReinsertFrom ==
    ASSUME TypeOK, LinesInv, NEW k \in Kinds, Reinsert(k)
    PROVE  \A p \in Procs : live'[p].from <= total BY AdvancedParts DEF LinesInv, Reinsert

LEMMA LinesStep ==
    ASSUME TypeOK, Guard, LinesInv, [Next]_vars
    PROVE  LinesInv'
<1>. USE DEF history, BeforeAppend, AfterAppend
<1>1. CASE Start
  <2>1. task = "off" /\ total = 0 /\ \A p \in Procs : results[p] = {}
    BY <1>1 DEF Guard, TaskAfterStart, LinesInv, Start, StartInsertSession, StartSeedEpoch,
      StartRefused, StartSeedState, StartRegisterTask, StartSpawnTask
  <2>2. ASSUME NEW chain \in SUBSET Procs, StartSeedState(chain) PROVE LinesInv'
    <3>1. \A p \in Procs : live'[p].from <= total
      BY <2>1, <2>2 DEF StartSeedState, StateOf, Absent, LinesInv
    <3>. QED BY <2>1, <2>2, <3>1 DEF StartSeedState, LinesInv
  <2>3. CASE StartInsertSession \/ StartSeedEpoch \/ StartRefused \/ StartRegisterTask \/ StartSpawnTask
    BY <2>1, <2>3 DEF StartInsertSession, StartSeedEpoch, StartRefused, StartRegisterTask,
      StartSpawnTask, LinesInv
  <2>. QED BY <1>1, <2>2, <2>3 DEF Start
<1>2. CASE Task
  <2>1. CASE TaskOpen \/ TaskExit BY <2>1 DEF TaskOpen, TaskExit, LinesInv
  <2>2. ASSUME NEW n \in 1 .. MaxBatch, FlushBegin(n) PROVE LinesInv'
    BY <2>2 DEF FlushBegin, LinesInv, NoClone, Absent, StateOf, TypeOK
  <2>3. CASE FlushCloneTransformers
    <3>1. \A p \in Procs : batch'.clone[p].from <= total /\ batch'.first = batch.first
      BY <2>3 DEF FlushCloneTransformers, Cloned, LinesInv, TypeOK, Batches, Absent, StateOf
    <3>2. batch'.first = batch.first BY <2>3 DEF FlushCloneTransformers, TypeOK, Batches
    <3>. QED BY <2>3, <3>1, <3>2 DEF FlushCloneTransformers, LinesInv
  <2>4. CASE FlushReinsertTransformers
    BY <2>4, ReinsertFrom DEF FlushReinsertTransformers, LinesInv, Kinds
  <2>5. CASE FlushAppend
    <3>1. CASE session = "open" BY <2>5, <3>1 DEF FlushAppend, LinesInv, TypeOK, Batches, States
    <3>2. CASE session # "open"
      BY <2>5, <3>2 DEF FlushAppend, LinesInv, NoBatch, NoClone, Absent, StateOf, TypeOK
    <3>. QED BY <3>1, <3>2
  <2>6. CASE FlushCloneStates
    <3>1. CASE Active(Reporters \cup Trackers) = {}
      BY <2>6, <3>1 DEF FlushCloneStates, LinesInv, NoBatch, NoClone, Absent, StateOf, TypeOK
    <3>2. CASE Active(Reporters \cup Trackers) # {}
      <4>1. batch' = [batch EXCEPT !.clone = Cloned(Reporters \cup Trackers)]
        BY <2>6, <3>2 DEF FlushCloneStates
      <4>2. \A p \in Procs : batch'.clone[p].from <= total
        BY <4>1 DEF Cloned, LinesInv, TypeOK, Batches, Absent, StateOf
      <4>3. batch'.first = batch.first /\ batch'.count = batch.count BY <4>1 DEF TypeOK, Batches
      <4>. QED BY <2>6, <3>2, <4>2, <4>3 DEF FlushCloneStates, LinesInv
    <3>. QED BY <3>1, <3>2
  <2>7. CASE FlushReinsertReporters
    <3>1. \A p \in Procs : live'[p].from <= total
      BY <2>7, ReinsertFrom DEF FlushReinsertReporters, Kinds
    <3>2. BatchLines \subseteq 0 .. (total - 1)
      BY <2>7 DEF FlushReinsertReporters, LinesInv, BatchLines, TypeOK, Batches
    <3>3. \A p \in Procs : results'[p] \subseteq 0 .. (total - 1)
      BY <2>7, <3>2 DEF FlushReinsertReporters, Merge, LinesInv
    <3>. QED BY <2>7, <3>1, <3>3 DEF FlushReinsertReporters, LinesInv
  <2>8. CASE FlushReinsertTrackers BY <2>8, ReinsertFrom DEF FlushReinsertTrackers, LinesInv, Kinds,
       NoBatch, NoClone, Absent, StateOf, TypeOK
  <2>. QED BY <1>2, <2>1, <2>2, <2>3, <2>4, <2>5, <2>6, <2>7, <2>8 DEF Task, TaskOpenFailed,
           TaskEof, TaskCancelled, FlushStep
<1>3. CASE Command
  <2>1. ASSUME NEW c \in Callers, StopCancel(c) \/ CloseCancel(c) \/ CloseRemoveSession(c) PROVE LinesInv'
    BY <2>1 DEF StopCancel, CloseCancel, CloseRemoveSession, LinesInv, TypeOK
  <2>2. ASSUME NEW c \in Callers, Clear(c) PROVE LinesInv'
    BY <2>2 DEF Clear, LinesInv, Absent, StateOf, TypeOK
  <2>3. ASSUME NEW k \in Kinds, NEW ids \in SUBSET ProcsOf(k), Update(k, ids) PROVE LinesInv'
    <3>1. \A p \in Procs : live'[p].from <= total
      BY <2>3 DEF Update, LinesInv, Absent, StateOf, TypeOK
    <3>. QED BY <2>3, <3>1 DEF Update, LinesInv
  <2>. QED BY <1>3, <2>1, <2>2, <2>3 DEF Command
<1>4. CASE UNCHANGED vars BY <1>4 DEF vars, program, LinesInv
<1>. QED BY <1>1, <1>2, <1>3, <1>4 DEF Next

LEMMA ReinsertMapped ==
    ASSUME TypeOK, MappedInv, NEW k \in Kinds, Reinsert(k), hasMap' = hasMap
    PROVE  MappedInv'
<1>. SUFFICES ASSUME NEW j \in Kinds, NEW p \in ProcsOf(j), live'[p] # Absent PROVE hasMap[j]
  BY DEF MappedInv
<1>1. p \in Procs BY DEF ProcsOf, Procs, Kinds
<1>2. CASE live'[p] = live[p] BY <1>2 DEF MappedInv
<1>3. CASE live'[p] # live[p]
  <2>1. hasMap[k] /\ p \in ProcsOf(k) BY <1>1, <1>3 DEF Reinsert
  <2>2. j = k BY <2>1, ProcessorAssumption DEF ProcsOf, Kinds
  <2>. QED BY <2>1, <2>2
<1>. QED BY <1>2, <1>3

LEMMA MappedStep ==
    ASSUME TypeOK, MappedInv, [Next]_vars
    PROVE  MappedInv'
<1>. USE DEF history
<1>a. ASSUME UNCHANGED <<hasMap, live>> PROVE MappedInv' BY <1>a DEF MappedInv
<1>1. ASSUME NEW chain \in SUBSET Procs, StartSeedState(chain) PROVE MappedInv'
  <2>. SUFFICES ASSUME NEW j \in Kinds, NEW p \in ProcsOf(j), live'[p] # Absent PROVE hasMap'[j]
    BY DEF MappedInv
  <2>1. p \in Procs BY DEF ProcsOf, Procs, Kinds
  <2>2. p \in chain \/ live'[p] = live[p] BY <1>1, <2>1 DEF StartSeedState
  <2>. QED BY <1>1, <2>1, <2>2 DEF StartSeedState, MappedInv
<1>2. ASSUME NEW c \in Callers, Clear(c) PROVE MappedInv'
  BY <1>2 DEF Clear, MappedInv, ProcsOf, Procs, Kinds
<1>3. ASSUME NEW k \in Kinds, NEW ids \in SUBSET ProcsOf(k), Update(k, ids) PROVE MappedInv'
  <2>. SUFFICES ASSUME NEW j \in Kinds, NEW p \in ProcsOf(j), live'[p] # Absent PROVE hasMap'[j]
    BY DEF MappedInv
  <2>1. p \in Procs BY DEF ProcsOf, Procs, Kinds
  <2>2. CASE j = k BY <1>3, <2>2 DEF Update, TypeOK
  <2>3. CASE j # k
    <3>1. p \notin ProcsOf(k) BY <2>3, ProcessorAssumption DEF ProcsOf, Kinds
    <3>. QED BY <1>3, <2>1, <2>3, <3>1 DEF Update, MappedInv, TypeOK
  <2>. QED BY <2>2, <2>3
<1>4. CASE FlushReinsertTransformers \/ FlushReinsertReporters \/ FlushReinsertTrackers
  BY <1>4, ReinsertMapped DEF FlushReinsertTransformers, FlushReinsertReporters,
    FlushReinsertTrackers, Kinds
<1>5. CASE Start BY <1>5, <1>1, <1>a DEF Start, StartInsertSession, StartSeedEpoch, StartRefused,
                          StartRegisterTask, StartSpawnTask
<1>6. CASE Task
  BY <1>6, <1>4, <1>a DEF Task, TaskOpen, TaskOpenFailed, TaskEof, TaskCancelled, TaskExit,
    FlushBegin, FlushStep, FlushCloneTransformers, FlushAppend, FlushCloneStates
<1>7. CASE Command
  BY <1>7, <1>2, <1>3, <1>a DEF Command, StopCancel, CloseCancel, CloseRemoveSession
<1>8. CASE UNCHANGED vars BY <1>8, <1>a DEF vars, program
<1>. QED BY <1>5, <1>6, <1>7, <1>8 DEF Next

\* An update leaves no batch in flight with the current epoch.
LEMMA UpdateOvertakes ==
    ASSUME TypeOK, Guard, InFlight, ~rewoken', NEW k \in Kinds, NEW ids \in SUBSET ProcsOf(k),
           Update(k, ids)
    PROVE  ~StillCurrent'
<1>1. batch.epoch0 < epoch' /\ batch' = batch
  BY DEF Update, Bumped, Guard, InFlight, EpochGrows, SeededUntilCleared, TypeOK, Batches, NoEpoch
<1>. QED BY <1>1 DEF StillCurrent, TypeOK, Batches, NoEpoch

LEMMA ReinsertKeepsFrom ==
    ASSUME TypeOK, Guard, ~rewoken, NEW k \in Kinds, Reinsert(k), InFlight,
           \A p \in ProcsOf(k) : HoldsClone(p)
    PROVE  \A p \in Procs : live'[p].from = live[p].from
<1> SUFFICES ASSUME NEW p \in Procs PROVE live'[p].from = live[p].from OBVIOUS
<1>1. CASE StillCurrent /\ p \in ProcsOf(k) /\ batch.clone[p] # Absent
  <2>1. batch.clone[p] = live[p] BY <1>1 DEF Guard, ClonesAreFresh
  <2> QED BY <1>1, <2>1, AdvancedParts DEF Reinsert
<1>2. CASE ~(StillCurrent /\ p \in ProcsOf(k) /\ batch.clone[p] # Absent) BY <1>2 DEF Reinsert
<1> QED BY <1>1, <1>2

LEMMA BornStep ==
    ASSUME TypeOK, Guard, LinesInv, BornBefore, [Next]_vars
    PROVE  BornBefore'
<1>. USE DEF history, BeforeAppend, AfterAppend
<1>1. CASE Start
  <2>1. task' \in {"off", "opening"}
    BY <1>1 DEF Guard, TaskAfterStart, Start, StartInsertSession, StartSeedEpoch, StartRefused,
      StartSeedState, StartRegisterTask, StartSpawnTask
  <2>. QED BY <2>1 DEF BornBefore
<1>2. CASE Task
  <2>1. CASE TaskOpen \/ TaskExit BY <2>1 DEF TaskOpen, TaskExit, BornBefore
  <2>2. ASSUME NEW n \in 1 .. MaxBatch, FlushBegin(n) PROVE BornBefore'
    BY <2>2 DEF FlushBegin, LinesInv, BornBefore
  <2>3. CASE FlushCloneTransformers
    <3>1. batch'.first = batch.first /\ batch'.epoch0 = batch.epoch0
      BY <2>3 DEF FlushCloneTransformers, TypeOK, Batches
    <3>. QED BY <2>3, <3>1 DEF FlushCloneTransformers, BornBefore, StillCurrent
  <2>4. CASE FlushReinsertTransformers
    <3>1. ~rewoken => \A p \in Procs : live'[p].from = live[p].from
      BY <2>4, ReinsertKeepsFrom DEF FlushReinsertTransformers, Kinds, HoldsClone, InFlight
    <3>. QED BY <2>4, <3>1 DEF FlushReinsertTransformers, BornBefore, StillCurrent
  <2>5. CASE FlushAppend BY <2>5 DEF FlushAppend, BornBefore, StillCurrent
  <2>6. CASE FlushCloneStates
    <3>1. task' = "idle" \/ (batch'.first = batch.first /\ batch'.epoch0 = batch.epoch0)
      BY <2>6 DEF FlushCloneStates, TypeOK, Batches
    <3>. QED BY <2>6, <3>1 DEF FlushCloneStates, BornBefore, StillCurrent
  <2>7. CASE FlushReinsertReporters
    <3>1. ~rewoken => \A p \in Procs : live'[p].from = live[p].from
      BY <2>7, ReinsertKeepsFrom DEF FlushReinsertReporters, Kinds, HoldsClone, InFlight
    <3>. QED BY <2>7, <3>1 DEF FlushReinsertReporters, BornBefore, StillCurrent
  <2>8. CASE FlushReinsertTrackers BY <2>8 DEF FlushReinsertTrackers, BornBefore
  <2>. QED BY <1>2, <2>1, <2>2, <2>3, <2>4, <2>5, <2>6, <2>7, <2>8 DEF Task, TaskOpenFailed,
           TaskEof, TaskCancelled, FlushStep
<1>3. CASE Command
  <2>1. ASSUME NEW c \in Callers, StopCancel(c) \/ CloseCancel(c) \/ CloseRemoveSession(c) PROVE BornBefore'
    BY <2>1 DEF StopCancel, CloseCancel, CloseRemoveSession, BornBefore, StillCurrent
  <2>2. ASSUME NEW c \in Callers, Clear(c) PROVE BornBefore'
    BY <2>2 DEF Clear, BornBefore, Absent, StateOf, TypeOK, Batches
  <2>3. ASSUME NEW k \in Kinds, NEW ids \in SUBSET ProcsOf(k), Update(k, ids) PROVE BornBefore'
    <3>1. InFlight' => InFlight BY <2>3 DEF Update, InFlight
    <3>. QED BY <2>3, <3>1, UpdateOvertakes DEF BornBefore, InFlight
  <2>. QED BY <1>3, <2>1, <2>2, <2>3 DEF Command
<1>4. CASE UNCHANGED vars BY <1>4 DEF vars, program, BornBefore, StillCurrent
<1>. QED BY <1>1, <1>2, <1>3, <1>4 DEF Next

\* The merge and the re-insert of the reporters go together.
LEMMA ReportersMatch ==
    ASSUME TypeOK, Guard, LinesInv, MappedInv, BornBefore, ResultsMatchState, FlushReinsertReporters
    PROVE  ResultsMatchState'
<1>. SUFFICES ASSUME ~rewoken, NEW p \in Reporters, live'[p] # Absent
              PROVE  {l \in results'[p] : l >= live'[p].from} = live'[p].seen
  BY DEF ResultsMatchState, FlushReinsertReporters
<1>1. p \in Procs /\ Merge /\ Reinsert("reporter") /\ task = "report" /\ p \in ProcsOf("reporter")
  BY DEF FlushReinsertReporters, Procs, ProcsOf
<1>2. CASE StillCurrent /\ batch.clone[p] # Absent
  <2>1. batch.clone[p] = live[p] BY <1>1, <1>2 DEF Guard, ClonesAreFresh, InFlight, HoldsClone
  <2>2. hasMap["reporter"] BY <1>1, <1>2, <2>1 DEF MappedInv, Kinds
  <2>3. live'[p].from = live[p].from /\ live'[p].seen = live[p].seen \cup BatchLines
    BY <1>1, <1>2, <2>1, <2>2, AdvancedParts DEF Reinsert
  <2>4. results'[p] = results[p] \cup BatchLines BY <1>1, <1>2 DEF Merge
  <2>5. {l \in results[p] : l >= live[p].from} = live[p].seen BY <1>2, <2>1 DEF ResultsMatchState
  <2>6. live[p].from <= batch.first BY <1>1, <1>2 DEF BornBefore, AfterAppend
  <2>7. \A l \in BatchLines : l >= live[p].from
    BY <1>1, <2>6 DEF BatchLines, TypeOK, Batches, States
  <2>. QED BY <2>3, <2>4, <2>5, <2>7
<1>3. CASE ~(StillCurrent /\ batch.clone[p] # Absent)
  <2>1. live'[p] = live[p] /\ results'[p] = results[p] BY <1>1, <1>3 DEF Reinsert, Merge
  <2>. QED BY <2>1 DEF ResultsMatchState
<1>. QED BY <1>2, <1>3

LEMMA MatchStep ==
    ASSUME TypeOK, Guard, LinesInv, MappedInv, BornBefore, ResultsMatchState, [Next]_vars
    PROVE  ResultsMatchState'
<1>. USE DEF history
<1>a. ASSUME UNCHANGED <<results, live>>, rewoken => rewoken' PROVE ResultsMatchState'
  BY <1>a DEF ResultsMatchState
<1>b. Reporters \subseteq Procs BY DEF Procs
<1>1. ASSUME NEW chain \in SUBSET Procs, StartSeedState(chain) PROVE ResultsMatchState'
  <2>. SUFFICES ASSUME ~rewoken', NEW p \in Reporters, live'[p] # Absent
                PROVE  {l \in results'[p] : l >= live'[p].from} = live'[p].seen
    BY DEF ResultsMatchState
  <2>1. results'[p] = {} /\ results[p] = {} /\ ~rewoken
    BY <1>1, <1>b DEF StartSeedState, Guard, TaskAfterStart, LinesInv
  <2>2. live'[p].seen = {} \/ live'[p] = live[p] BY <1>1, <1>b DEF StartSeedState, StateOf
  <2>. QED BY <2>1, <2>2 DEF ResultsMatchState
<1>2. ASSUME NEW c \in Callers, Clear(c) PROVE ResultsMatchState'
  BY <1>2, <1>b DEF Clear, ResultsMatchState
<1>3. ASSUME NEW k \in Kinds, NEW ids \in SUBSET ProcsOf(k), Update(k, ids) PROVE ResultsMatchState'
  <2>. SUFFICES ASSUME ~rewoken', NEW p \in Reporters, live'[p] # Absent
                PROVE  {l \in results'[p] : l >= live'[p].from} = live'[p].seen
    BY DEF ResultsMatchState
  <2>1. ~rewoken /\ results' = results /\ p \in Procs BY <1>3, <1>b DEF Update
  <2>2. CASE live'[p] = live[p] BY <2>1, <2>2 DEF ResultsMatchState
  <2>3. CASE live'[p] # live[p]
    <3>1. live'[p] = StateOf(stamp + 1, total, {}) BY <1>3, <2>1, <2>3 DEF Update
    <3>2. \A l \in results[p] : l < total BY <2>1 DEF LinesInv, TypeOK
    <3>3. \A l \in results[p] : ~(l >= total) BY <2>1, <3>2 DEF TypeOK
    <3>. QED BY <2>1, <3>1, <3>3 DEF StateOf
  <2>. QED BY <2>2, <2>3
<1>4. ASSUME NEW k \in {"transformer", "tracker"}, Reinsert(k), UNCHANGED <<results, rewoken>>
      PROVE  ResultsMatchState'
  <2>1. \A p \in Reporters : live'[p] = live[p]
    BY <1>4, <1>b, ProcessorAssumption DEF Reinsert, ProcsOf
  <2>. QED BY <1>4, <2>1 DEF ResultsMatchState
<1>5. CASE Start
  <2>1. CASE StartSeedEpoch BY <2>1, <1>a DEF StartSeedEpoch
  <2>2. CASE StartInsertSession \/ StartRefused \/ StartRegisterTask \/ StartSpawnTask
    BY <2>2, <1>a DEF StartInsertSession, StartRefused, StartRegisterTask, StartSpawnTask
  <2>. QED BY <1>5, <2>1, <2>2, <1>1 DEF Start
<1>6. CASE Task
  <2>1. CASE FlushReinsertReporters BY <2>1, ReportersMatch
  <2>2. CASE FlushReinsertTransformers \/ FlushReinsertTrackers
    BY <2>2, <1>4 DEF FlushReinsertTransformers, FlushReinsertTrackers
  <2>. QED BY <1>6, <2>1, <2>2, <1>a DEF Task, TaskOpen, TaskOpenFailed, TaskEof, TaskCancelled,
       TaskExit, FlushBegin, FlushStep, FlushCloneTransformers, FlushAppend, FlushCloneStates
<1>7. CASE Command
  BY <1>7, <1>2, <1>3, <1>a DEF Command, StopCancel, CloseCancel, CloseRemoveSession
<1>8. CASE UNCHANGED vars BY <1>8, <1>a DEF vars, program
<1>. QED BY <1>5, <1>6, <1>7, <1>8 DEF Next

\* The two halves of OwesLive and OwesClone that the steps keep.
LEMMA OwesStep ==
    ASSUME TypeOK, Guard, LinesInv, MappedInv, OwesLive, OwesClone, [Next]_vars
    PROVE  OwesLive' /\ OwesClone'
<1>. USE DEF history
<1>b. Counted \subseteq Procs /\ Counted \cap Transformers = {} /\ Counted \cap Excluded = {}
  BY ProcessorAssumption DEF Procs, Counted
<1>c. \A p \in Procs : live[p] \in States /\ batch.clone[p] \in States BY DEF TypeOK, Batches
\* Nothing an entry owes has changed.
<1>a. ASSUME UNCHANGED <<live, total, superseded, batch>>, 
             \A p \in Counted : Behind(p)' = Behind(p), task' = "clone" \/ task # "clone"
      PROVE  OwesLive' /\ OwesClone' BY <1>a DEF OwesLive, OwesClone, Owes, BatchLines
<1>q. ASSUME task' \in {"off", "opening", "idle", "dead", "transform", "retransform", "append"},
             \A p \in Counted : live'[p] # Absent => Owes(live[p])' = {}
      PROVE  OwesLive' /\ OwesClone' BY <1>q DEF OwesLive, OwesClone, Behind
<1>1. CASE Start
  <2>1. task = "off" /\ total = 0 /\ task' \in {"off", "opening"} /\ total' = 0
    BY <1>1 DEF Guard, TaskAfterStart, LinesInv, Start, StartInsertSession, StartSeedEpoch,
      StartRefused, StartSeedState, StartRegisterTask, StartSpawnTask
  <2>2. TypeOK' BY <1>1, StartType
  <2>3. \A p \in Procs : live'[p].from .. (total' - 1) = {} BY <2>1, <2>2 DEF TypeOK, States
  <2>. QED BY <2>1, <2>3, <1>b, <1>q DEF Owes
<1>2. CASE Task
  <2>. DEFINE Calm == {"opening", "idle", "transform", "retransform", "append"}
  <2>a. ASSUME task \in Calm, NEW p \in Counted, live[p] # Absent PROVE Owes(live[p]) = {}
    BY <2>a DEF OwesLive, Behind
  <2>1. CASE TaskOpen \/ TaskOpenFailed \/ TaskEof \/ TaskCancelled
    <3>1. task \in Calm /\ task' \in {"idle", "dead"} /\ UNCHANGED <<live, total, superseded>>
      BY <2>1 DEF TaskOpen, TaskOpenFailed, TaskEof, TaskCancelled, TaskExit
    <3>. QED BY <3>1, <2>a, <1>q DEF Owes
  <2>2. ASSUME NEW n \in 1 .. MaxBatch, FlushBegin(n) PROVE OwesLive' /\ OwesClone'
    <3>1. task \in Calm /\ task' = "transform" /\ UNCHANGED <<live, total, superseded>>
      BY <2>2 DEF FlushBegin
    <3>. QED BY <3>1, <2>a, <1>q DEF Owes
  <2>3. CASE FlushCloneTransformers
    <3>1. task \in Calm /\ task' = "retransform" /\ UNCHANGED <<live, total, superseded>>
      BY <2>3 DEF FlushCloneTransformers
    <3>. QED BY <3>1, <2>a, <1>q DEF Owes
  <2>4. CASE FlushReinsertTransformers
    <3>1. /\ task \in Calm /\ task' = "append" /\ UNCHANGED <<total, superseded>>
          /\ \A p \in Counted : live'[p] = live[p]
      BY <2>4, <1>b DEF FlushReinsertTransformers, Reinsert, ProcsOf
    <3>. QED BY <3>1, <2>a, <1>q DEF Owes
  <2>5. CASE FlushAppend
    <3>1. CASE session # "open"
      <4>1. task \in Calm /\ task' = "idle" /\ UNCHANGED <<live, total, superseded>>
        BY <2>5, <3>1 DEF FlushAppend
      <4>. QED BY <4>1, <2>a, <1>q DEF Owes
    <3>2. CASE session = "open"
      <4>1. /\ task = "append" /\ task' = "clone" /\ UNCHANGED <<live, superseded, batch>>
            /\ total' = total + batch.count /\ batch.first = total
        BY <2>5, <3>2 DEF FlushAppend, LinesInv, BeforeAppend
      <4>2. ASSUME NEW p \in Counted, live[p] # Absent PROVE Owes(live[p])' \subseteq BatchLines
        <5>1. Owes(live[p]) = {} /\ live[p].from \in Nat /\ total \in Nat /\ batch.count \in Nat
          BY <4>1, <4>2, <2>a, <1>b, <1>c DEF States, TypeOK, Batches
        <5>2. live[p].from .. (total + batch.count - 1)
                \subseteq (live[p].from .. (total - 1)) \cup (total .. (total + batch.count - 1))
          BY <5>1
        <5>. QED BY <4>1, <5>1, <5>2 DEF Owes, BatchLines
      <4>. QED BY <4>1, <4>2 DEF OwesLive, OwesClone, Behind, BatchLines
    <3>. QED BY <3>1, <3>2
  <2>6. CASE FlushCloneStates
    <3>1. CASE Active(Reporters \cup Trackers) = {}
      <4>1. task' = "idle" /\ UNCHANGED <<live, total, superseded>>
        BY <2>6, <3>1 DEF FlushCloneStates
      <4>2. \A p \in Counted : live[p] = Absent BY <3>1 DEF Counted, Active
      <4>. QED BY <4>1, <4>2, <1>q
    <3>2. CASE Active(Reporters \cup Trackers) # {}
      <4>1. /\ batch' = [batch EXCEPT !.clone = Cloned(Reporters \cup Trackers)]
            /\ task = "clone" /\ task' = "report" /\ UNCHANGED <<live, total, superseded>>
        BY <2>6, <3>2 DEF FlushCloneStates
      <4>2. batch'.first = batch.first /\ batch'.count = batch.count
            /\ \A p \in Counted : batch'.clone[p] = live[p]
        BY <4>1, <1>b DEF TypeOK, Batches, Cloned, Counted
      <4>3. BatchLines' = BatchLines BY <4>2 DEF BatchLines
      <4>4. \A p \in Counted : live[p] # Absent => Owes(live[p]) \subseteq BatchLines
        BY <4>1 DEF OwesLive, Behind
      <4>. QED BY <4>1, <4>2, <4>3, <4>4 DEF OwesLive, OwesClone, Behind, Owes
    <3>. QED BY <3>1, <3>2
  <2>b. ASSUME NEW k \in {"reporter", "tracker"}, Reinsert(k), total' = total,
               superseded' = IF StillCurrent THEN superseded ELSE superseded \cup BatchLines,
               NEW p \in Counted \cap ProcsOf(k), Behind(p), task # "clone", live'[p] # Absent
        PROVE  Owes(live[p])' = {}
    <3>1. p \in Procs /\ p \in Counted BY <1>b
    <3>2. CASE ~StillCurrent
      <4>1. live'[p] = live[p] /\ superseded' = superseded \cup BatchLines
        BY <2>b, <3>1, <3>2 DEF Reinsert
      <4>2. Owes(live[p]) \subseteq BatchLines BY <2>b, <3>1, <4>1 DEF OwesLive
      <4>. QED BY <2>b, <4>1, <4>2 DEF Owes
    <3>3. CASE StillCurrent /\ batch.clone[p] = Absent
      <4>1. live'[p] = live[p] /\ superseded' = superseded BY <2>b, <3>1, <3>3 DEF Reinsert
      <4>2. Owes(live[p]) = {} BY <2>b, <3>1, <3>3, <4>1 DEF OwesClone
      <4>. QED BY <2>b, <4>1, <4>2 DEF Owes
    <3>4. CASE StillCurrent /\ batch.clone[p] # Absent
      <4>1. hasMap[k]
        <5>1. CASE ~hasMap[k] BY <2>b, <3>1, <5>1 DEF Reinsert, MappedInv, Kinds
        <5>. QED BY <5>1
      <4>2. live'[p] = Advanced(p) /\ superseded' = superseded
        BY <2>b, <3>1, <3>4, <4>1 DEF Reinsert
      <4>3. live'[p].from = batch.clone[p].from /\ live'[p].seen = batch.clone[p].seen \cup BatchLines
        BY <4>2, <3>1, AdvancedParts
      <4>4. Owes(batch.clone[p]) \subseteq BatchLines BY <2>b, <3>1, <3>4 DEF OwesClone
      <4>. QED BY <2>b, <4>2, <4>3, <4>4 DEF Owes
    <3>. QED BY <3>2, <3>3, <3>4
  <2>7. CASE FlushReinsertReporters
    <3>1. /\ task = "report" /\ task' = "track" /\ Reinsert("reporter") /\ UNCHANGED <<total, batch>>
          /\ superseded' = IF StillCurrent THEN superseded ELSE superseded \cup BatchLines
      BY <2>7 DEF FlushReinsertReporters
    <3>2. ASSUME NEW p \in Counted \cap Reporters, live'[p] # Absent PROVE Owes(live[p])' = {}
      BY <3>1, <3>2, <2>b DEF ProcsOf, Behind
    <3>3. ASSUME NEW p \in Counted, p \notin Reporters
          PROVE  live'[p] = live[p] /\ p \in Trackers
      BY <3>1, <3>3, <1>b DEF Reinsert, ProcsOf, Counted
    <3>4. \A s : Owes(s)' \subseteq Owes(s) BY <3>1 DEF Owes
    <3>5. BatchLines' = BatchLines BY <3>1 DEF BatchLines
    <3>6. ASSUME NEW p \in Counted, p \in Trackers PROVE p \notin Reporters
      BY <3>6, ProcessorAssumption
    <3>7. OwesLive'
      <4>. SUFFICES ASSUME NEW p \in Counted, live'[p] # Absent
                    PROVE  Owes(live[p])' \subseteq IF p \in Trackers THEN BatchLines ELSE {}
        BY <3>1, <3>5 DEF OwesLive, Behind
      <4>1. CASE p \in Reporters BY <4>1, <3>2
      <4>2. CASE p \notin Reporters
        <5>1. Owes(live[p]) \subseteq BatchLines BY <4>2, <3>1, <3>3 DEF OwesLive, Behind
        <5>2. Owes(live[p])' \subseteq Owes(live[p]) BY <4>2, <3>3, <3>4
        <5>. QED BY <4>2, <3>3, <5>1, <5>2
      <4>. QED BY <4>1, <4>2
    <3>8. OwesClone'
      <4>. SUFFICES ASSUME NEW p \in Counted, p \in Trackers
                    PROVE  IF batch.clone[p] = Absent THEN live'[p] # Absent => Owes(live[p])' = {}
                           ELSE Owes(batch.clone[p])' \subseteq BatchLines
        BY <3>1, <3>5 DEF OwesClone, Behind
      <4>1. live'[p] = live[p] BY <3>3, <3>6
      <4>2. IF batch.clone[p] = Absent THEN live[p] # Absent => Owes(live[p]) = {}
            ELSE Owes(batch.clone[p]) \subseteq BatchLines BY <3>1 DEF OwesClone, Behind
      <4>3. Owes(live[p])' \subseteq Owes(live[p]) /\ Owes(batch.clone[p])' \subseteq Owes(batch.clone[p])
        BY <4>1, <3>1, <3>4
      <4>. QED BY <4>1, <4>2, <4>3
    <3>. QED BY <3>7, <3>8
  <2>8. CASE FlushReinsertTrackers
    <3>1. /\ task = "track" /\ task' = "idle" /\ Reinsert("tracker") /\ total' = total
          /\ superseded' = IF StillCurrent THEN superseded ELSE superseded \cup BatchLines
      BY <2>8 DEF FlushReinsertTrackers
    <3>2. ASSUME NEW p \in Counted, live'[p] # Absent PROVE Owes(live[p])' = {}
      <4>1. CASE p \in Trackers BY <3>1, <3>2, <4>1, <2>b DEF ProcsOf, Behind
      <4>2. CASE p \notin Trackers
        <5>1. live'[p] = live[p] BY <3>1, <4>2, <1>b DEF Reinsert, ProcsOf
        <5>2. Owes(live[p]) = {} BY <3>1, <3>2, <4>2, <5>1 DEF OwesLive, Behind
        <5>. QED BY <3>1, <5>1, <5>2 DEF Owes
      <4>. QED BY <4>1, <4>2
    <3>. QED BY <3>1, <3>2, <1>q
  <2>. QED BY <1>2, <2>1, <2>2, <2>3, <2>4, <2>5, <2>6, <2>7, <2>8 DEF Task, FlushStep
<1>3. CASE Command
  <2>1. ASSUME NEW c \in Callers, StopCancel(c) \/ CloseCancel(c) \/ CloseRemoveSession(c)
        PROVE  OwesLive' /\ OwesClone'
    BY <2>1 DEF StopCancel, CloseCancel, CloseRemoveSession, OwesLive, OwesClone, Owes, BatchLines, Behind
  <2>2. ASSUME NEW c \in Callers, Clear(c) PROVE OwesLive' /\ OwesClone'
    <3>1. /\ \A p \in Counted : live'[p] = Absent
          /\ UNCHANGED <<total, superseded, batch, task>> BY <2>2, <1>b DEF Clear
    <3>. QED BY <3>1 DEF OwesLive, OwesClone, Owes, BatchLines, Behind
  <2>3. ASSUME NEW k \in Kinds, NEW ids \in SUBSET ProcsOf(k), Update(k, ids) PROVE OwesLive' /\ OwesClone'
    <3>1. UNCHANGED <<total, superseded, batch, task>> BY <2>3 DEF Update
    <3>2. ASSUME NEW p \in Counted, live'[p] # Absent
          PROVE  Owes(live[p])' = {} \/ live'[p] = live[p]
      <4>1. CASE live'[p] # live[p]
        <5>1. live'[p] = StateOf(stamp + 1, total, {}) BY <2>3, <3>2, <4>1, <1>b DEF Update
        <5>2. live'[p].from .. (total' - 1) = {} BY <3>1, <5>1 DEF StateOf, TypeOK
        <5>. QED BY <5>2 DEF Owes
      <4>. QED BY <4>1
    <3>. QED BY <3>1, <3>2 DEF OwesLive, OwesClone, Owes, BatchLines, Behind
  <2>. QED BY <1>3, <2>1, <2>2, <2>3 DEF Command
<1>4. CASE UNCHANGED vars BY <1>4 DEF vars, program, OwesLive, OwesClone, Owes, BatchLines, Behind
<1>. QED BY <1>1, <1>2, <1>3, <1>4 DEF Next

\* ResultsSound in every reachable state: for any number of processors,
\* batches, updates, stops and closes, what a reporter shows of the lines
\* since it was seeded is what it consumed, and between batches it has
\* consumed all but the lines of a batch during which the epoch moved.
THEOREM StreamResultsSound == Spec => []ResultsSound
<1>1. TypeOK /\ ResInv => ResultsSound
  <2>. SUFFICES ASSUME TypeOK, ResInv PROVE ResultsSound OBVIOUS
  <2>1. CountedUnlessSuperseded
    BY DEF CountedUnlessSuperseded, ResInv, OwesLive, Behind, Owes, Since, Counted
  <2>. QED BY <2>1 DEF ResultsSound, ResInv
<1>2. GuardInv /\ ResInv /\ [Next]_vars => ResInv'
  BY LinesStep, MappedStep, BornStep, MatchStep, OwesStep DEF GuardInv, Guard, ResInv
<1>. QED BY <1>1, <1>2, ResInit, GuardInvariant, PTL DEF Spec, GuardInv
=============================================================================
