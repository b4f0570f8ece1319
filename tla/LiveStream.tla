----------------------------- MODULE LiveStream -----------------------------
(***************************************************************************)
(* A live ADB capture: one session id, from start_with_source to stop or   *)
(* close (services/stream.rs, services/sessions.rs, commands/mod.rs).      *)
(*                                                                         *)
(* The capture task runs flush_batch, which clones the continuous          *)
(* processor state, processes the lines with no lock held, and re-inserts  *)
(* the advanced state.  Stop, close and the update commands run on other   *)
(* threads in between.  `stream_epochs' is the guard that is to keep the   *)
(* late re-insert from undoing them.  One step below is one critical       *)
(* section of the code.                                                    *)
(*                                                                         *)
(* All the maps involved are keyed by the session id and a restarted       *)
(* stream gets a new id, so a single id is modelled.  Poisoned mutexes are *)
(* not (the code then skips the step).                                     *)
(***************************************************************************)
EXTENDS Integers

CONSTANTS
    Reporters, Trackers, Transformers,  \* installed processors, by kind
    Excluded,      \* those whose declared source_types rule out Logcat
    Callers,       \* threads that may call stop or close
    MaxBatch,      \* lines per batch (100 in the code)
    MaxLines,      \* bound: no batch starts once this many lines are appended
    MaxStamp       \* bound: how many times processors are seeded

Procs == Reporters \cup Trackers \cup Transformers
Kinds == {"reporter", "tracker", "transformer"}

ProcsOf(k) == CASE k = "reporter"    -> Reporters
                [] k = "tracker"     -> Trackers
                [] k = "transformer" -> Transformers

ASSUME ProcessorAssumption ==
    /\ Reporters \cap Trackers = {}
    /\ Reporters \cap Transformers = {}
    /\ Trackers \cap Transformers = {}
    /\ Excluded \subseteq Procs
ASSUME BoundAssumption ==
    /\ MaxBatch \in Nat \ {0}
    /\ MaxLines \in Nat
    /\ MaxStamp \in Nat \ {0}

NoEpoch == -1          \* the session has no entry in stream_epochs

(* Continuous state of a processor: which seeding created it (birth), the  *)
(* number of lines there were then (from), and the lines it has consumed.  *)
(* birth = 0: no entry.  The code's last_processed_line is never read.     *)
StateOf(birth, from, seen) == [birth |-> birth, from |-> from, seen |-> seen]
Absent == StateOf(0, 0, {})

VARIABLES
    session,    \* "absent", "open" or "closed": the entry in `sessions'
    total,      \* total_lines of its stream source
    starter,    \* where start_with_source stands
    tx,         \* does stream_tasks hold a cancel sender?
    cancelled,  \* has it been sent?
    task,       \* where run_streaming_task stands
    calls,      \* where each caller's stop or close stands
    epoch,      \* stream_epochs
    hasMap,     \* does the session have a stream_<kind>_state map?
    live,       \* the contents of the three maps
    results,    \* pipeline_results: the lines matched per reporter
    announced,  \* stream_excluded_processors
    batch       \* the locals of flush_batch

(* History the code does not keep; no action reads it (stamp is also the   *)
(* bound on seedings).                                                     *)
VARIABLES
    stamp,      \* the number of seedings so far
    owner,      \* birth that the last command gave each processor
    cleared,    \* a stop or close has cleared the session's stream state
    rewoken,    \* ... and a command seeded it again afterwards
    superseded  \* lines whose batch found the epoch changed

program == <<session, total, starter, tx, cancelled, task, calls, epoch,
             hasMap, live, results, announced, batch>>
history == <<stamp, owner, cleared, rewoken, superseded>>
vars == <<program, history>>

NoClone == [p \in Procs |-> Absent]
NoBatch == [epoch0 |-> NoEpoch, first |-> 0, count |-> 0, clone |-> NoClone]

States == [birth : 0..MaxStamp, from : Nat, seen : SUBSET Nat]

Batches == [epoch0 : Nat \cup {NoEpoch}, first : Nat, count : Nat,
            clone : [Procs -> States]]

TaskPcs == {"off", "opening", "idle", "transform", "retransform", "append",
            "clone", "report", "track", "dead"}

TypeOK ==
    /\ session \in {"absent", "open", "closed"}
    /\ total \in Nat
    /\ starter \in {"none", "epoch", "state", "register", "spawn", "done"}
    /\ tx \in BOOLEAN
    /\ cancelled \in BOOLEAN
    /\ task \in TaskPcs
    /\ calls \in [Callers -> {"none", "stop", "remove", "close"}]
    /\ epoch \in Nat \cup {NoEpoch}
    /\ hasMap \in [Kinds -> BOOLEAN]
    /\ live \in [Procs -> States]
    /\ results \in [Procs -> SUBSET Nat]
    /\ announced \subseteq Procs
    /\ batch \in Batches
    /\ stamp \in 0..MaxStamp
    /\ owner \in [Procs -> 0..MaxStamp]
    /\ cleared \in BOOLEAN
    /\ rewoken \in BOOLEAN
    /\ superseded \subseteq Nat

Init ==
    /\ session = "absent"
    /\ total = 0
    /\ starter = "none"
    /\ tx = FALSE
    /\ cancelled = FALSE
    /\ task = "off"
    /\ calls = [c \in Callers |-> "none"]
    /\ epoch = NoEpoch
    /\ hasMap = [k \in Kinds |-> FALSE]
    /\ live = [p \in Procs |-> Absent]
    /\ results = [p \in Procs |-> {}]
    /\ announced = {}
    /\ batch = NoBatch
    /\ stamp = 0
    /\ owner = [p \in Procs |-> 0]
    /\ cleared = FALSE
    /\ rewoken = FALSE
    /\ superseded = {}

----------------------------------------
(* start_with_source: each step takes one lock.  The session is visible to *)
(* the other threads from the first one on.                                *)

StartInsertSession ==
    /\ starter = "none"
    /\ session' = "open"
    /\ starter' = "epoch"
    /\ UNCHANGED <<total, tx, cancelled, task, calls, epoch, hasMap, live,
                   results, announced, batch, history>>

(* seed_stream_epoch: or_insert(0). *)
StartSeedEpoch ==
    /\ starter = "epoch"
    /\ epoch' = IF epoch = NoEpoch THEN 0 ELSE epoch
    /\ rewoken' = (rewoken \/ cleared)
    /\ starter' = "state"
    /\ UNCHANGED <<session, total, tx, cancelled, task, calls, hasMap, live,
                   results, announced, batch, stamp, owner, cleared, superseded>>

(* resolve_stream_chain refuses an unknown processor id: `start' returns   *)
(* the error and leaves the session and its epoch behind.                  *)
StartRefused ==
    /\ starter = "state"
    /\ starter' = "done"
    /\ UNCHANGED <<session, total, tx, cancelled, task, calls, epoch, hasMap,
                   live, results, announced, batch, history>>

(* seed_continuous_state replaces the map of every kind the chain names.   *)
StartSeedState(chain) ==
    /\ starter = "state"
    /\ stamp < MaxStamp
    /\ LET seeded == {k \in Kinds : ProcsOf(k) \cap chain # {}}
           fresh(p) == StateOf(stamp + 1, 0, {})
           touched(p) == \E k \in seeded : p \in ProcsOf(k)
           birth(p) == IF p \in chain THEN stamp + 1 ELSE 0
       IN  /\ hasMap' = [k \in Kinds |-> hasMap[k] \/ k \in seeded]
           /\ live' = [p \in Procs |->
                         IF p \in chain THEN fresh(p)
                         ELSE IF touched(p) THEN Absent ELSE live[p]]
           /\ owner' = [p \in Procs |-> IF touched(p) THEN birth(p) ELSE owner[p]]
    /\ stamp' = stamp + 1
    /\ rewoken' = (rewoken \/ cleared)
    /\ starter' = "register"
    /\ UNCHANGED <<session, total, tx, cancelled, task, calls, epoch, results,
                   announced, batch, cleared, superseded>>

StartRegisterTask ==
    /\ starter = "register"
    /\ tx' = TRUE
    /\ starter' = "spawn"
    /\ UNCHANGED <<session, total, cancelled, task, calls, epoch, hasMap, live,
                   results, announced, batch, history>>

StartSpawnTask ==
    /\ starter = "spawn"
    /\ task' = "opening"
    /\ starter' = "done"
    /\ UNCHANGED <<session, total, tx, cancelled, calls, epoch, hasMap, live,
                   results, announced, batch, history>>

Start ==
    \/ StartInsertSession
    \/ StartSeedEpoch
    \/ StartRefused
    \/ \E chain \in SUBSET Procs : StartSeedState(chain)
    \/ StartRegisterTask
    \/ StartSpawnTask
----------------------------------------
(* run_streaming_task.  The `select!' takes either ready branch, so a      *)
(* batch may still be flushed after the cancel signal.                     *)

TaskOpen ==
    /\ task = "opening"
    /\ task' = "idle"
    /\ UNCHANGED <<session, total, starter, tx, cancelled, calls, epoch,
                   hasMap, live, results, announced, batch, history>>

(* StreamTaskGuard: every exit takes the cancel sender out of the map.     *)
TaskExit ==
    /\ task' = "dead"
    /\ tx' = FALSE
    /\ UNCHANGED <<session, total, starter, cancelled, calls, epoch, hasMap,
                   live, results, announced, batch, history>>

TaskOpenFailed == task = "opening" /\ TaskExit
TaskEof        == task = "idle" /\ TaskExit

MutCancelSeen == cancelled /\ tx   \* a loop that looks itself up in stream_tasks
CancelSeen    == cancelled
TaskCancelled == task = "idle" /\ CancelSeen /\ TaskExit

----------------------------------------
(* flush_batch, critical section by critical section.                      *)

MutStillCurrent == epoch # NoEpoch      \* checks presence, not the value
StillCurrent    == epoch = batch.epoch0

MutBatchLines == batch.first .. (batch.first + batch.count)
BatchLines    == batch.first .. (batch.first + batch.count - 1)

(* Entry: the epoch is captured before any state is.  A session that is    *)
(* gone counts as one without lines.                                       *)
FlushBegin(n) ==
    /\ task = "idle"
    /\ total < MaxLines
    /\ batch' = [epoch0 |-> epoch, count |-> n, clone |-> NoClone,
                 first |-> IF session = "open" THEN total ELSE 0]
    /\ task' = "transform"
    /\ UNCHANGED <<session, total, starter, tx, cancelled, calls, epoch,
                   hasMap, live, results, announced, history>>

Cloned(S) == [p \in Procs |-> IF p \in S \ Excluded THEN live[p] ELSE Absent]

FlushCloneTransformers ==
    /\ task = "transform"
    /\ batch' = [batch EXCEPT !.clone = Cloned(Transformers)]
    /\ task' = "retransform"
    /\ UNCHANGED <<session, total, starter, tx, cancelled, calls, epoch,
                   hasMap, live, results, announced, history>>

(* The clone of p after the batch's lines were run through it.             *)
Advanced(p) == [batch.clone[p] EXCEPT !.seen = @ \cup BatchLines]

(* reinsert_stream_state_if_current on the map of kind k: get_mut, so a    *)
(* map that is gone is not recreated; insert, so an id the map has lost    *)
(* in the meantime would come back.                                        *)
Reinsert(k) ==
    live' = [p \in Procs |->
               IF /\ StillCurrent
                  /\ hasMap[k]
                  /\ p \in ProcsOf(k)
                  /\ batch.clone[p] # Absent
               THEN Advanced(p) ELSE live[p]]

FlushReinsertTransformers ==
    /\ task = "retransform"
    /\ Reinsert("transformer")
    /\ task' = "append"
    /\ UNCHANGED <<session, total, starter, tx, cancelled, calls, epoch,
                   hasMap, results, announced, batch, history>>

(* Step 3: append to the session, or give up when it has been closed.      *)
FlushAppend ==
    /\ task = "append"
    /\ IF session = "open"
       THEN /\ total' = total + batch.count
            /\ task' = "clone"
            /\ UNCHANGED batch
       ELSE /\ task' = "idle"
            /\ batch' = NoBatch
            /\ UNCHANGED total
    /\ UNCHANGED <<session, starter, tx, cancelled, calls, epoch, hasMap, live,
                   results, announced, history>>

Active(S) == {p \in S : live[p] # Absent}

(* The active ids, the exclusion announcement and the clones.  A writer    *)
(* between these locks changes the epoch like one before or after them.    *)
FlushCloneStates ==
    /\ task = "clone"
    /\ IF Active(Reporters \cup Trackers) = {}
       THEN /\ task' = "idle"
            /\ batch' = NoBatch
            /\ UNCHANGED announced
       ELSE /\ task' = "report"
            /\ batch' = [batch EXCEPT !.clone = Cloned(Reporters \cup Trackers)]
            /\ announced' = Active(Reporters \cup Trackers) \cap Excluded
    /\ UNCHANGED <<session, total, starter, tx, cancelled, calls, epoch,
                   hasMap, live, results, history>>

(* Merge the batch into pipeline_results: entry().or_default(), whatever   *)
(* became of the session.                                                  *)
MutMerge ==
    results' = [p \in Procs |-> IF p \in Reporters /\ batch.clone[p] # Absent
                                THEN results[p] \cup BatchLines
                                ELSE results[p]]
Merge ==
    results' = [p \in Procs |-> IF /\ StillCurrent
                                   /\ p \in Reporters
                                   /\ batch.clone[p] # Absent
                                THEN results[p] \cup BatchLines
                                ELSE results[p]]

MutFlushReinsertReporters ==       \* returns before the trackers are stored
    /\ task = "report"
    /\ Merge
    /\ Reinsert("reporter")
    /\ superseded' = IF StillCurrent THEN superseded
                                     ELSE superseded \cup BatchLines
    /\ batch' = NoBatch
    /\ task' = "idle"
    /\ UNCHANGED <<session, total, starter, tx, cancelled, calls, epoch,
                   hasMap, announced, stamp, owner, cleared, rewoken>>

FlushReinsertReporters ==
    /\ task = "report"
    /\ Merge
    /\ Reinsert("reporter")
    /\ superseded' = IF StillCurrent THEN superseded
                                     ELSE superseded \cup BatchLines
    /\ task' = "track"
    /\ UNCHANGED <<session, total, starter, tx, cancelled, calls, epoch,
                   hasMap, announced, batch, stamp, owner, cleared, rewoken>>

(* Re-insert the trackers; the events go out and the loop is polled again. *)
FlushReinsertTrackers ==
    /\ task = "track"
    /\ Reinsert("tracker")
    /\ superseded' = IF StillCurrent THEN superseded
                                     ELSE superseded \cup BatchLines
    /\ batch' = NoBatch
    /\ task' = "idle"
    /\ UNCHANGED <<session, total, starter, tx, cancelled, calls, epoch,
                   hasMap, results, announced, stamp, owner, cleared, rewoken>>

FlushStep ==
    \/ FlushCloneTransformers
    \/ FlushReinsertTransformers
    \/ FlushAppend
    \/ FlushCloneStates
    \/ FlushReinsertReporters
    \/ FlushReinsertTrackers

Task ==
    \/ TaskOpen
    \/ TaskOpenFailed
    \/ TaskEof
    \/ TaskCancelled
    \/ \E n \in 1..MaxBatch : FlushBegin(n)
    \/ FlushStep

----------------------------------------
(* Commands of other threads; they know the id once the session exists.    *)

(* stream_tasks.remove(id), then send.                                     *)
TakeAndCancel ==
    /\ tx' = FALSE
    /\ cancelled' = (cancelled \/ tx)

StopCancel(c) ==
    /\ calls[c] = "none"
    /\ session # "absent"
    /\ TakeAndCancel
    /\ calls' = [calls EXCEPT ![c] = "stop"]
    /\ UNCHANGED <<session, total, starter, task, epoch, hasMap, live, results,
                   announced, batch, history>>

CloseCancel(c) ==
    /\ calls[c] = "none"
    /\ session # "absent"
    /\ TakeAndCancel
    /\ calls' = [calls EXCEPT ![c] = "remove"]
    /\ UNCHANGED <<session, total, starter, task, epoch, hasMap, live, results,
                   announced, batch, history>>

MutCloseRemoveSession(c) ==        \* waits for the capture task to be over
    /\ calls[c] = "remove"
    /\ task \in {"off", "dead"}
    /\ session' = "closed"
    /\ calls' = [calls EXCEPT ![c] = "close"]
    /\ UNCHANGED <<total, starter, tx, cancelled, task, epoch, hasMap, live,
                   results, announced, batch, history>>

CloseRemoveSession(c) ==
    /\ calls[c] = "remove"
    /\ session' = "closed"
    /\ calls' = [calls EXCEPT ![c] = "close"]
    /\ UNCHANGED <<total, starter, tx, cancelled, task, epoch, hasMap, live,
                   results, announced, batch, history>>

(* clear_stream_epoch_with: maps, results and epoch under the epoch lock;  *)
(* the dedup cache right after it.  The last step of both stop and close.  *)
MutRewindEpoch == epoch' = epoch - 1
MutDropEpoch == epoch' = IF epoch = NoEpoch THEN 0 ELSE epoch   \* keeps the entry
DropEpoch    == epoch' = NoEpoch

Clear(c) ==
    /\ calls[c] \in {"stop", "close"}
    /\ DropEpoch
    /\ hasMap' = [k \in Kinds |-> FALSE]
    /\ live' = [p \in Procs |-> Absent]
    /\ results' = [p \in Procs |-> {}]
    /\ announced' = {}
    /\ owner' = [p \in Procs |-> 0]
    /\ cleared' = TRUE
    /\ calls' = [calls EXCEPT ![c] = "none"]
    /\ UNCHANGED <<session, total, starter, tx, cancelled, task, batch, stamp,
                   rewoken, superseded>>

(* bump_stream_epoch_with: or_insert(0) += 1.                              *)
MutBumped == IF epoch = NoEpoch THEN 0 ELSE epoch     \* the increment is missing
Bumped    == IF epoch = NoEpoch THEN 1 ELSE epoch + 1

(* update_processors, update_trackers, update_transformers: the set of     *)
(* kind k becomes `ids', kept processors keep their state, and the epoch   *)
(* moves on, all under the epoch lock.  Neither the session nor the task   *)
(* is looked at.                                                           *)
Update(k, ids) ==
    /\ session # "absent"
    /\ stamp < MaxStamp
    /\ epoch' = Bumped
    /\ hasMap' = [hasMap EXCEPT ![k] = TRUE]
    /\ live' = [p \in Procs |->
                  IF p \notin ProcsOf(k) THEN live[p]
                  ELSE IF p \notin ids THEN Absent
                  ELSE IF live[p] # Absent THEN live[p]
                  ELSE StateOf(stamp + 1, total, {})]
    /\ owner' = [p \in Procs |->
                   IF p \notin ProcsOf(k) THEN owner[p]
                   ELSE IF p \notin ids THEN 0
                   ELSE IF live[p] # Absent THEN owner[p]
                   ELSE stamp + 1]
    /\ stamp' = stamp + 1
    /\ rewoken' = (rewoken \/ cleared)
    /\ UNCHANGED <<session, total, starter, tx, cancelled, task, calls,
                   results, announced, batch, cleared, superseded>>

Command ==
    \/ \E c \in Callers : \/ StopCancel(c)
                          \/ CloseCancel(c)
                          \/ CloseRemoveSession(c)
                          \/ Clear(c)
    \/ \E k \in Kinds : \E ids \in SUBSET ProcsOf(k) : Update(k, ids)

Next == Start \/ Task \/ Command

Spec == Init /\ [][Next]_vars

----------------------------------------
(* Fairness.  A spawned task, a running start and a running command are    *)
(* scheduled; whether anybody calls anything, and whether lines arrive, is *)
(* up to the environment.  tokio::select! polls its branches from a random *)
(* one, so a cancel that stays ready is not passed over for ever (strong   *)
(* fairness: each flush disables the branch for a while).                  *)
Fairness ==
    /\ WF_vars(TaskOpen)
    /\ WF_vars(FlushStep)
    /\ SF_vars(TaskCancelled)
    /\ WF_vars(StartRegisterTask)
    /\ WF_vars(StartSpawnTask)
    /\ \A c \in Callers : WF_vars(CloseRemoveSession(c)) /\ WF_vars(Clear(c))

FairSpec == Spec /\ Fairness
----------------------------------------
(* Properties. *)

(* No resurrection, no clobbering: every entry of the stream state maps    *)
(* was seeded by the last command that decided about that processor, so a  *)
(* late re-insert brings back nothing that stop, close or an update threw  *)
(* away and overwrites nothing they put in (field doc of `stream_epochs',  *)
(* races (a), (c) and (d) of stream.rs) -- provided no command seeds the   *)
(* session again after it was stopped or closed.                           *)
OwnedByLastCommand == \A p \in Procs : live[p].birth = owner[p]
NoResurrection     == ~rewoken => OwnedByLastCommand

(* After a stop or a close has cleared the stream state, an in-flight      *)
(* batch recreates none of it, pipeline_results included (its merge uses   *)
(* or_default and would recreate the entry of a dead session).             *)
TerminalStaysClean ==
    cleared /\ ~rewoken =>
        /\ epoch = NoEpoch
        /\ \A k \in Kinds : ~hasMap[k]
        /\ \A p \in Procs : live[p] = Absent /\ results[p] = {}

(* Why it holds.  A batch in flight whose epoch is still the current one   *)
(* holds clones no command has overtaken, because (1) while the session is *)
(* not rewoken the epoch only grows until it is dropped, and (2) a batch   *)
(* that finds no epoch at all starts after the clear, with nothing left to *)
(* clone.  GuardInv is the inductive form.                                 *)
InFlight == task \in {"transform", "retransform", "append", "clone", "report", "track"}
HoldsClone(p) == \/ task \in {"retransform", "report"}
                 \/ task = "track" /\ p \in Trackers

TaskAfterStart == starter # "done" => task = "off"
SeededUntilCleared ==
    starter \in {"state", "register", "spawn"} \/ task # "off" =>
        epoch # NoEpoch \/ cleared
EpochGrows ==
    InFlight /\ ~rewoken =>
        /\ batch.epoch0 = NoEpoch => cleared
        /\ epoch # NoEpoch => batch.epoch0 <= epoch
ClonesAreFresh ==
    InFlight /\ ~rewoken /\ StillCurrent =>
        \A p \in Procs : HoldsClone(p) => batch.clone[p] \in {Absent, live[p]}

GuardInv ==
    /\ TypeOK
    /\ TaskAfterStart
    /\ SeededUntilCleared
    /\ EpochGrows
    /\ TerminalStaysClean
    /\ ClonesAreFresh
    /\ NoResurrection

(* The same without the proviso: what the field doc of `stream_epochs'     *)
(* promises.  The dropped counter restarts, so an old epoch value can come *)
(* back and a batch older than the stop passes the guard.                  *)
NoResurrectionEver == OwnedByLastCommand

(* pipeline_results and stream_processor_state, two maps under two locks,  *)
(* agree: of the lines since reporter p was seeded, the published results  *)
(* hold exactly those its continuous state has consumed.                   *)
ResultsMatchState ==
    ~rewoken =>
        \A p \in Reporters : live[p] # Absent =>
            {l \in results[p] : l >= live[p].from} = live[p].seen

(* Between batches an eligible reporter or tracker has consumed every line *)
(* appended since it was seeded, except those of a batch during which the  *)
(* epoch moved.                                                            *)
Since(p) == live[p].from .. (total - 1)
CountedUnlessSuperseded ==
    task \in {"idle", "dead"} =>
        \A p \in (Reporters \cup Trackers) \ Excluded : live[p] # Absent =>
            Since(p) \ superseded \subseteq live[p].seen

(* What a processor has to show is what it consumed, and it consumed all    *)
(* it was owed.                                                             *)
ResultsSound == ResultsMatchState /\ CountedUnlessSuperseded

(* A cancel signal that was sent ends the capture task, although the loop  *)
(* may prefer a batch to it any number of times.                           *)
CancelEndsTask == cancelled ~> task = "dead"

(* A stop or close in progress completes, whatever the task does.          *)
CommandsComplete == \A c \in Callers : calls[c] # "none" ~> calls[c] = "none"
=============================================================================
