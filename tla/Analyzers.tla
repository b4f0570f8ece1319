------------------------------ MODULE Analyzers ------------------------------
(***************************************************************************)
(* The window's analyzer store (analyzers/analyzerStore.ts) of one open    *)
(* session: its copy of the processor chain, which agents edit as well     *)
(* (services/chain.rs), and the runs it starts or sees agents start        *)
(* (services/pipeline.rs).                                                 *)
(*                                                                         *)
(* The window's code runs between two awaits without interruption, the     *)
(* microtask that pushes an edit included.  Its synchronous commands reach *)
(* the back end in order, and so do the back end's events reach the        *)
(* window; the answer of a run comes at any time after its last event was  *)
(* sent.  A chain is the set of its members and the set of those that are  *)
(* switched off; their order, which an edit may change as well, is left    *)
(* out, and the anonymizer is never a member.                              *)
(***************************************************************************)
EXTENDS Naturals, Integers, Sequences, FiniteSets

CONSTANTS
    AnzProcs,      \* installed processors
    AnzChunks,     \* chunks of a run
    AnzMaxRuns,    \* bound: runs, of the user and of agents
    AnzBudgets     \* bounds, of which a behaviour has one: runs, edits of the
                   \* user and of agents, uninstalled processors

ASSUME AnzAssumption == AnzChunks \in Nat \ {0} /\ AnzMaxRuns \in Nat

VARIABLES
    anzChain,     \* session_pipeline_meta of the session
    anzInstalled, \* processors
    anzStored,    \* the run whose results are stored, 0 for none
    anzUntold,    \* changes of the chain by agents that are stored and not yet
                  \* told, in the order they were stored, each with its run or 0
    anzJoin,      \* what the run that has the lock does to the chain first
    anzJob,       \* the runs, by number
    anzSent,      \* commands on their way to the back end
    anzEvents,    \* events on their way to the window
    anzMine,      \* chains[sid]
    anzTemplate,  \* defaultTemplate
    anzAdded,     \* addedByAgent[sid]
    anzCatalog,   \* catalog
    anzAsk,       \* the chain that is read once, and its answer
    anzRow,       \* runs[sid]: running, the result, whether an error shows
    anzGen,       \* runGuards[sid]
    anzToken,     \* foreignRuns[sid], 0 for none
    anzOwn,       \* ownRuns[sid]
    anzStop,      \* a stop: sent, or answered
    anzCache,     \* runCaches[sid]: its generation, the run it is of
    anzLeft,      \* what is left of the budget (bound)
    anzGhost      \* what has happened (history)

anzCalls == <<anzUntold, anzJoin>>
anzBack == <<anzChain, anzInstalled, anzStored, anzCalls>>
anzOnes == <<anzMine, anzTemplate, anzAdded, anzCatalog, anzAsk>>
anzRuns == <<anzRow, anzGen, anzToken, anzOwn, anzStop, anzCache>>
anzHist == <<anzLeft, anzGhost>>
anzVars == <<anzBack, anzJob, anzSent, anzEvents, anzOnes, anzRuns, anzHist>>

AnzJobs == 1 .. AnzMaxRuns
AnzEmpty == [members |-> {}, off |-> {}]
AnzUnset == [members |-> {}, off |-> {}, unset |-> TRUE]
AnzChains == {[members |-> m, off |-> d] : m \in SUBSET AnzProcs, d \in SUBSET AnzProcs}
AnzProper == {c \in AnzChains : c.off \subseteq c.members}
AnzNoJob == [pc |-> "none", caller |-> "ui", want |-> {}, gen |-> 0, left |-> 0,
             stopped |-> FALSE, out |-> "none"]
AnzNoOwn == [job |-> 0, settled |-> FALSE, awaits |-> 0]
AnzNoJoin == [job |-> 0, at |-> "read", chain |-> AnzEmpty]

(* The window opens on a session that has a chain or none, restored from a *)
(* workspace or not, and asks for it.                                      *)
AnzInit ==
    /\ anzChain \in {AnzEmpty, [members |-> AnzProcs, off |-> {}]}
    /\ anzInstalled = AnzProcs /\ anzStored = 0
    /\ anzUntold = <<>> /\ anzJoin = AnzNoJoin
    /\ anzJob = [j \in AnzJobs |-> AnzNoJob]
    /\ anzSent = <<[op |-> "get", chain |-> AnzEmpty, job |-> 0]>>
    /\ anzEvents \in {<<>>, <<[ev |-> "restored", chain |-> anzChain]>>}
    /\ anzMine = AnzUnset /\ anzTemplate \in {AnzEmpty, [members |-> AnzProcs, off |-> {}]}
    /\ anzAdded = {} /\ anzCatalog = AnzProcs /\ anzAsk = [pc |-> "sent", chain |-> AnzEmpty]
    /\ anzRow = [running |-> FALSE, result |-> 0, error |-> FALSE]
    /\ anzGen = 0 /\ anzToken = 0 /\ anzOwn = AnzNoOwn /\ anzStop = "no"
    /\ anzCache = [gen |-> 0, of |-> 0]
    /\ anzLeft \in AnzBudgets
    /\ anzGhost = {}

AnzTypeOK ==
    /\ anzChain \in AnzProper /\ anzStored \in 0 .. AnzMaxRuns
    /\ anzMine \in AnzProper \cup {AnzUnset} /\ anzTemplate \in AnzProper
    /\ anzAdded \subseteq anzMine.members
    /\ \A j \in AnzJobs :
         anzJob[j].pc \in {"none", "set", "ready", "asked", "runs", "answered", "done"}
    /\ anzRow.result \in 0 .. AnzMaxRuns
    /\ anzStop \in {"no", "sent", "answered"} /\ anzCatalog \subseteq AnzProcs
    /\ anzJoin.job \in 0 .. AnzMaxRuns /\ \A i \in DOMAIN anzUntold : anzUntold[i].chain \in AnzProper

----------------------------------------
(* The chain.                                                              *)

AnzCurrent == IF anzMine = AnzUnset THEN anzTemplate ELSE anzMine

AnzWithout(chain, ids) ==
    [chain EXCEPT !.members = @ \ ids, !.off = @ \ ids]

(* A mutant: a badge outlives its member.                                  *)
MutAnzSetMine(chain, added) == anzMine' = chain /\ anzAdded' = added

(* setSessionChain: a badge goes with its member.                          *)
AnzSetMine(chain, added) ==
    /\ anzMine' = chain
    /\ anzAdded' = added \cap chain.members

AnzForeign(e) == e.ev = "chain"
(* An agent's change, told or not, and one of the window pass each other   *)
(* (history).                                                              *)
AnzCrossing(sent, events, untold) ==
    /\ \E i \in DOMAIN sent : sent[i].op = "set"
    /\ untold # <<>> \/ \E i \in DOMAIN events : AnzForeign(events[i])
AnzCrossed(sent, events, untold) ==
    IF AnzCrossing(sent, events, untold) THEN {"crossed"} ELSE {}

AnzPushed(chain, job) == Append(anzSent, [op |-> "set", chain |-> chain, job |-> job])

(* The processors the window has not heard to be gone.  A change that      *)
(* brings another one back undoes the news (history).                      *)
AnzUnheard ==
    anzInstalled \cup {p \in AnzProcs : \E i \in DOMAIN anzEvents :
                         anzEvents[i].ev = "uninstall" /\ anzEvents[i].id = p}
AnzRevived(members, known) == IF members \subseteq known THEN {} ELSE {"revived"}

(* refreshCatalog: the catalog is read again when it has one of the others. *)
AnzRefresh ==
    /\ ~(anzCatalog \subseteq AnzUnheard)
    /\ anzCatalog' = anzInstalled
    /\ UNCHANGED <<anzBack, anzJob, anzSent, anzEvents, anzMine, anzTemplate, anzAdded, anzAsk,
                   anzRuns, anzHist>>

(* add, which offers the catalog and checks nothing, remove, toggle and    *)
(* resetToDefault, each with its push.                                     *)
AnzEdit ==
    /\ anzLeft.edits > 0
    /\ anzLeft' = [anzLeft EXCEPT !.edits = @ - 1]
    /\ \E p \in AnzProcs :
         LET cur == AnzCurrent IN
         \E next \in {[cur EXCEPT !.members = @ \cup ({p} \cap anzCatalog)],
                       AnzWithout(cur, {p}), anzTemplate}
              \cup (IF p \notin cur.members THEN {}
                    ELSE {[cur EXCEPT !.off = @ \cup {p}], [cur EXCEPT !.off = @ \ {p}]}) :
           /\ next # cur
           /\ AnzSetMine(next, anzAdded)
           /\ anzSent' = AnzPushed(next, 0)
           /\ anzGhost' = anzGhost \cup AnzCrossed(anzSent', anzEvents, anzUntold)
                \cup AnzRevived(next.members \ (cur.members \cup anzTemplate.members), AnzUnheard)
    /\ UNCHANGED <<anzBack, anzJob, anzEvents, anzTemplate, anzCatalog, anzAsk, anzRuns>>

(* commit stores a chain under its lock and tells of it after.             *)
AnzStores(chain, job) ==
    /\ anzChain' = chain
    /\ anzUntold' = IF chain = anzChain THEN anzUntold
                    ELSE Append(anzUntold, [chain |-> chain, job |-> job])
    /\ anzGhost' = anzGhost \cup AnzCrossed(anzSent, anzEvents, anzUntold')

(* chain::set and chain::patch by an agent.  A set takes a qualified id    *)
(* that is not installed, and a patch changes a chain it read before: what *)
(* is stored may be any chain.                                             *)
AnzAgentEdit ==
    /\ anzLeft.agent > 0
    /\ anzLeft' = [anzLeft EXCEPT !.agent = @ - 1]
    /\ \E next \in AnzProper : next # anzChain /\ AnzStores(next, 0)
    /\ UNCHANGED <<anzInstalled, anzStored, anzJoin, anzJob, anzSent, anzEvents, anzOnes, anzRuns>>

(* The calls tell of their changes in any order.                           *)
AnzDropped(q, i) == [k \in 1 .. Len(q) - 1 |-> IF k < i THEN q[k] ELSE q[k + 1]]
AnzTell ==
    /\ \E i \in DOMAIN anzUntold :
         LET told == anzUntold[i] IN
         /\ anzUntold' = AnzDropped(anzUntold, i)
         /\ anzEvents' = Append(anzEvents, [ev |-> "chain", chain |-> told.chain])
         /\ anzJoin' = IF told.job = 0 THEN anzJoin ELSE [anzJoin EXCEPT !.at = "told"]
         /\ anzGhost' = anzGhost \cup (IF i = 1 THEN {} ELSE {"crossed"})
                           \cup AnzRevived(told.chain.members, anzInstalled)
    /\ UNCHANGED <<anzChain, anzInstalled, anzStored, anzJob, anzSent, anzOnes, anzRuns, anzLeft>>

(* uninstall of a processor, or of its pack: the chains of the back end    *)
(* keep it until the window pushes its own without it.                     *)
AnzUninstall ==
    /\ anzLeft.gone > 0
    /\ anzLeft' = [anzLeft EXCEPT !.gone = @ - 1]
    /\ \E p \in anzInstalled :
         /\ anzInstalled' = anzInstalled \ {p}
         /\ anzEvents' = Append(anzEvents, [ev |-> "uninstall", id |-> p])
    /\ UNCHANGED <<anzChain, anzStored, anzCalls, anzJob, anzSent, anzOnes, anzRuns, anzGhost>>

----------------------------------------
(* The back end takes a command.                                           *)
AnzReceive ==
    /\ anzSent # <<>>
    /\ anzSent' = Tail(anzSent)
    /\ LET c == Head(anzSent) IN
       CASE c.op = "set" ->
              /\ anzChain' = c.chain
              /\ anzJob' = IF c.job = 0 THEN anzJob ELSE [anzJob EXCEPT ![c.job].pc = "ready"]
              /\ UNCHANGED <<anzAsk, anzStop>>
         [] c.op = "get" ->
              /\ anzAsk' = [pc |-> "answered", chain |-> anzChain]
              /\ UNCHANGED <<anzChain, anzJob, anzStop>>
         [] c.op = "stop" ->
              /\ anzStop' = "answered"
              /\ anzJob' = [j \in AnzJobs |-> [anzJob[j] EXCEPT
                              !.stopped = @ \/ anzJob[j].pc \in {"asked", "runs"}]]
              /\ UNCHANGED <<anzChain, anzAsk>>
    /\ UNCHANGED <<anzInstalled, anzStored, anzCalls, anzEvents, anzMine, anzTemplate, anzAdded,
                   anzCatalog, anzRow, anzGen, anzToken, anzOwn, anzCache, anzHist>>

(* The next run.                                                           *)
AnzNextJob(j) ==
    /\ anzJob[j].pc = "none" /\ \A i \in 1 .. j - 1 : anzJob[i].pc # "none"
    /\ anzLeft.runs > 0
    /\ anzLeft' = [anzLeft EXCEPT !.runs = @ - 1]

(* An agent asks for a run, of some processors or of the chain.            *)
AnzAgentRuns(j) ==
    /\ AnzNextJob(j)
    /\ \E want \in SUBSET anzInstalled :
         anzJob' = [anzJob EXCEPT ![j] = [AnzNoJob EXCEPT !.pc = "asked", !.caller = "agent",
                                            !.want = want, !.left = AnzChunks]]
    /\ UNCHANGED <<anzBack, anzSent, anzEvents, anzOnes, anzRuns, anzGhost>>

AnzComplete(j, out) == [ev |-> "complete", caller |-> anzJob[j].caller, job |-> j, out |-> out]

AnzOver(j, out) ==
    anzJob' = [anzJob EXCEPT ![j].out = out,
                 ![j].pc = IF @ = "none" \/ anzJob[j].caller = "agent" THEN "done" ELSE "answered"]

(* The lock of the runs is free, but for run j.                            *)
AnzLock(j) == anzJoin.job \in {0, j} /\ \A i \in AnzJobs : anzJob[i].pc # "runs"

(* A run of named processors has the lock: they join the chain, by a patch *)
(* of what it reads.                                                       *)
AnzTake(chain, want) ==
    [members |-> chain.members \cup want, off |-> chain.off \ want]
AnzJoinReads(j) ==
    LET job == anzJob[j] IN
    /\ job.pc = "asked" /\ job.want # {} /\ job.want \subseteq anzInstalled
    /\ AnzLock(j) /\ anzJoin.job = 0
    /\ anzJoin' = [job |-> j, at |-> "read", chain |-> AnzTake(anzChain, job.want)]
    /\ UNCHANGED <<anzChain, anzInstalled, anzStored, anzUntold, anzJob, anzSent, anzEvents,
                   anzOnes, anzRuns, anzHist>>
AnzJoinStores ==
    /\ anzJoin.job # 0 /\ anzJoin.at = "read"
    /\ AnzStores(anzJoin.chain, anzJoin.job)
    /\ anzJoin' = [anzJoin EXCEPT !.at = IF anzJoin.chain = anzChain THEN "told" ELSE "stored"]
    /\ UNCHANGED <<anzInstalled, anzStored, anzJob, anzSent, anzEvents, anzOnes, anzRuns, anzLeft>>

(* What is on in the chain by then is run, unless there is nothing, or a   *)
(* stop came, or it fails; and so it does if a named one is gone.          *)
AnzJoined(j) ==
    IF anzJob[j].want = {} THEN anzJoin.job = 0 ELSE anzJoin.job = j /\ anzJoin.at = "told"
AnzOutcomes(j) ==
    LET runs == (anzChain.members \ anzChain.off) \cap anzInstalled IN
    IF ~AnzJoined(j)
    THEN IF anzJoin.job = 0 /\ ~(anzJob[j].want \subseteq anzInstalled) THEN {"error"} ELSE {}
    ELSE IF runs = {} THEN {"nochain"}
    ELSE IF anzJob[j].stopped THEN {"cancelled"} ELSE {"error", "runs"}
AnzBegin(j) ==
    /\ anzJob[j].pc = "asked" /\ AnzLock(j)
    /\ \E out \in AnzOutcomes(j) :
         IF out = "runs"
         THEN anzJob' = [anzJob EXCEPT ![j].pc = "runs"] /\ UNCHANGED anzEvents
         ELSE AnzOver(j, out) /\ anzEvents' = Append(anzEvents, AnzComplete(j, out))
    /\ anzJoin' = AnzNoJoin
    /\ UNCHANGED <<anzChain, anzInstalled, anzStored, anzUntold, anzSent, anzOnes, anzRuns, anzHist>>

(* A chunk and its progress; a stop ends the chunks, what there is by then *)
(* is stored.                                                              *)
AnzChunk(j) ==
    /\ anzJob[j].pc = "runs" /\ anzJob[j].left > 0 /\ ~anzJob[j].stopped
    /\ anzJob' = [anzJob EXCEPT ![j].left = @ - 1]
    /\ anzEvents' = Append(anzEvents, [ev |-> "progress"])
    /\ UNCHANGED <<anzBack, anzSent, anzOnes, anzRuns, anzHist>>

AnzStore(j) ==
    /\ anzJob[j].pc = "runs" /\ (anzJob[j].left = 0 \/ anzJob[j].stopped)
    /\ anzStored' = j
    /\ anzEvents' = Append(anzEvents, AnzComplete(j, "ok"))
    /\ AnzOver(j, "ok")
    /\ UNCHANGED <<anzChain, anzInstalled, anzCalls, anzSent, anzOnes, anzRuns, anzHist>>

----------------------------------------
(* run.                                                                    *)

(* An own run has not been answered or its completion not been heard: a    *)
(* stop shows it as over before, and so does the answer that fails.        *)
AnzOwnUnderWay ==
    \/ \E j \in AnzJobs : anzJob[j].caller = "ui" /\ anzJob[j].pc \notin {"none", "done"}
    \/ \E i \in DOMAIN anzEvents :
         anzEvents[i].ev = "complete" /\ anzEvents[i].caller = "ui"

(* The button offers it while nothing runs.                                *)
AnzRun(j) ==
    /\ AnzNextJob(j) /\ ~anzRow.running
    /\ anzGen' = anzGen + 1
    /\ anzOwn' = [job |-> j, settled |-> FALSE, awaits |-> 0]
    /\ anzRow' = [anzRow EXCEPT !.running = TRUE, !.error = FALSE]
    /\ anzJob' = [anzJob EXCEPT ![j] = [AnzNoJob EXCEPT !.pc = "set", !.gen = anzGen + 1,
                                          !.left = AnzChunks]]
    /\ anzSent' = AnzPushed(AnzCurrent, j)
    /\ anzGhost' = anzGhost \cup AnzCrossed(anzSent', anzEvents, anzUntold)
         \cup (IF AnzOwnUnderWay THEN {"overlap"} ELSE {})
    /\ UNCHANGED <<anzBack, anzEvents, anzOnes, anzToken, anzStop, anzCache>>

(* The chain is stored: the run is asked for.                              *)
AnzInvoke(j) ==
    /\ anzJob[j].pc = "ready"
    /\ anzJob' = [anzJob EXCEPT ![j].pc = "asked"]
    /\ anzOwn' = IF anzOwn.job = j THEN [anzOwn EXCEPT !.awaits = @ + 1] ELSE anzOwn
    /\ UNCHANGED <<anzBack, anzSent, anzEvents, anzOnes, anzRow, anzGen, anzToken, anzStop,
                   anzCache, anzHist>>

(* ownRunDone.                                                             *)
AnzOwnDone(own) == IF own.settled /\ own.awaits <= 0 THEN AnzNoOwn ELSE own

AnzCurrentRun(gen) == gen = anzGen

(* The answer of a run: a rejected one is owed no event, a superseded one  *)
(* leaves the row to the newer.                                            *)
AnzAnswered(j) ==
    LET job == anzJob[j]
        failed == job.out \in {"error", "nochain"}
        own == IF anzOwn.job = j /\ failed THEN [anzOwn EXCEPT !.awaits = @ - 1] ELSE anzOwn IN
    /\ job.pc = "answered"
    /\ anzJob' = [anzJob EXCEPT ![j].pc = "done"]
    /\ IF AnzCurrentRun(job.gen)
       THEN /\ anzRow' = [running |-> FALSE,
                          result |-> IF failed THEN anzRow.result
                                     ELSE IF job.out = "ok" THEN j ELSE 0,
                          error |-> anzRow.error \/ job.out = "error"]
            /\ anzOwn' = IF own.job = j THEN AnzOwnDone([own EXCEPT !.settled = TRUE]) ELSE own
       ELSE anzOwn' = own /\ UNCHANGED anzRow
    /\ anzGhost' = CASE job.out = "cancelled" -> anzGhost \cup {"emptied"}
                      [] job.out = "ok" /\ anzStored = j -> anzGhost \ {"missed"}
                      [] OTHER -> anzGhost
    /\ UNCHANGED <<anzBack, anzSent, anzEvents, anzOnes, anzGen, anzToken, anzStop, anzCache,
                   anzLeft>>

(* stop, which the button offers while something runs.                     *)
AnzStopSent ==
    /\ anzRow.running /\ anzStop = "no"
    /\ anzStop' = "sent"
    /\ anzSent' = Append(anzSent, [op |-> "stop", chain |-> AnzEmpty, job |-> 0])
    /\ UNCHANGED <<anzBack, anzJob, anzEvents, anzOnes, anzRow, anzGen, anzToken, anzOwn,
                   anzCache, anzHist>>
AnzStopAnswered ==
    /\ anzStop = "answered"
    /\ anzStop' = "no"
    /\ anzRow' = [anzRow EXCEPT !.running = FALSE]
    /\ UNCHANGED <<anzBack, anzJob, anzSent, anzEvents, anzOnes, anzGen, anzToken, anzOwn,
                   anzCache, anzHist>>

(* matchedLines and correlatorEvents: what the cache has for the current   *)
(* generation, or else what the back end has.                              *)
AnzFetch ==
    /\ anzCache.gen # anzGen \/ anzCache.of = 0
    /\ anzStored # 0
    /\ anzCache' = [gen |-> anzGen, of |-> anzStored]
    /\ UNCHANGED <<anzBack, anzJob, anzSent, anzEvents, anzOnes, anzRow, anzGen, anzToken,
                   anzOwn, anzStop, anzHist>>

(* The chain read at first is taken unless there is one by then; it is     *)
(* pushed back at once.                                                    *)
AnzHydrate ==
    /\ anzAsk.pc = "answered"
    /\ anzAsk' = [pc |-> "done", chain |-> AnzEmpty]
    /\ IF anzMine = AnzUnset /\ anzAsk.chain.members # {}
       THEN /\ AnzSetMine(anzAsk.chain, anzAdded)
            /\ anzSent' = AnzPushed(anzAsk.chain, 0)
       ELSE UNCHANGED <<anzMine, anzAdded, anzSent>>
    /\ anzGhost' = anzGhost \cup AnzCrossed(anzSent', anzEvents, anzUntold)
    /\ UNCHANGED <<anzBack, anzJob, anzEvents, anzTemplate, anzCatalog, anzRuns, anzLeft>>

----------------------------------------
(* The window hears an event.                                              *)

(* chain-update of an agent: the whole chain is taken.                     *)
AnzHearChain(e) ==
    /\ AnzSetMine(e.chain, anzAdded \cup (e.chain.members \ AnzCurrent.members))
    /\ UNCHANGED <<anzSent, anzTemplate, anzRow, anzGen, anzToken, anzOwn>>

(* workspace-restored: likewise, and pushed back.                          *)
AnzHearRestored(e) ==
    /\ IF e.chain.members = {} THEN UNCHANGED <<anzMine, anzAdded, anzSent>>
       ELSE AnzSetMine(e.chain, anzAdded) /\ anzSent' = AnzPushed(e.chain, 0)
    /\ UNCHANGED <<anzTemplate, anzRow, anzGen, anzToken, anzOwn>>

(* A mutant: the prune of a chain is not pushed.                           *)
MutAnzTouches(id) == FALSE /\ id = id
AnzTouches(id) == id \in anzMine.members

(* catalog-update: dropFromEveryChain.                                     *)
AnzHearUninstall(e) ==
    /\ IF e.id \in anzMine.members
       THEN AnzSetMine(AnzWithout(anzMine, {e.id}), anzAdded)
       ELSE UNCHANGED <<anzMine, anzAdded>>
    /\ anzSent' = IF AnzTouches(e.id) THEN AnzPushed(AnzWithout(anzMine, {e.id}), 0) ELSE anzSent
    /\ anzTemplate' = AnzWithout(anzTemplate, {e.id})
    /\ UNCHANGED <<anzRow, anzGen, anzToken, anzOwn>>

(* A mutant: the trailing progress of an own run starts a foreign one.     *)
MutAnzOwnMode == FALSE
AnzOwnMode == anzOwn.job # 0

(* pipeline-progress: of the run that is shown, or the first sign of one   *)
(* that an agent started.                                                  *)
AnzHearProgress ==
    /\ IF anzRow.running \/ AnzOwnMode
       THEN UNCHANGED <<anzRow, anzGen, anzToken>>
       ELSE /\ anzGen' = anzGen + 1 /\ anzToken' = anzGen + 1
            /\ anzRow' = [anzRow EXCEPT !.running = TRUE, !.error = FALSE]
    /\ UNCHANGED <<anzSent, anzMine, anzAdded, anzTemplate, anzOwn>>

(* pipeline-complete of the user's own run.                                *)
AnzHearOwnComplete ==
    /\ anzOwn' = IF anzOwn.job = 0 THEN anzOwn
                 ELSE AnzOwnDone([anzOwn EXCEPT !.awaits = @ - 1])
    /\ UNCHANGED <<anzSent, anzMine, anzAdded, anzTemplate, anzRow, anzGen, anzToken>>

(* ... and of an agent's, which lands unless an own run has taken over.    *)
AnzLands == IF anzToken # 0 THEN anzToken = anzGen ELSE ~anzRow.running /\ ~AnzOwnMode

AnzHearForeignComplete(e) ==
    /\ anzToken' = 0
    /\ IF AnzLands
       THEN /\ anzGen' = anzGen + 1
            /\ anzRow' = [running |-> FALSE,
                          result |-> IF e.out = "ok" THEN e.job ELSE anzRow.result,
                          error |-> CASE e.out = "ok" -> FALSE
                                      [] e.out = "error" -> TRUE
                                      [] OTHER -> anzRow.error]
       ELSE UNCHANGED <<anzGen, anzRow>>
    /\ UNCHANGED <<anzSent, anzMine, anzAdded, anzTemplate, anzOwn>>

AnzHear ==
    /\ anzEvents # <<>>
    /\ anzEvents' = Tail(anzEvents)
    /\ LET e == Head(anzEvents) IN
       /\ CASE e.ev = "chain" -> AnzHearChain(e)
            [] e.ev = "restored" -> AnzHearRestored(e)
            [] e.ev = "uninstall" -> AnzHearUninstall(e)
            [] e.ev = "progress" -> AnzHearProgress
            [] e.ev = "complete" /\ e.caller = "ui" -> AnzHearOwnComplete
            [] e.ev = "complete" /\ e.caller = "agent" -> AnzHearForeignComplete(e)
       /\ anzGhost' = anzGhost \cup AnzCrossed(anzSent', anzEvents', anzUntold)
            \cup (IF e.ev = "complete" /\ e.caller = "agent" /\ e.out = "ok" /\ ~AnzLands
                  THEN {"missed"} ELSE {})
            \cup (IF e.ev = "uninstall" /\ anzMine = AnzUnset THEN {"unread"} ELSE {})
    /\ UNCHANGED <<anzBack, anzJob, anzCatalog, anzAsk, anzStop, anzCache, anzLeft>>

----------------------------------------
AnzNext ==
    \/ AnzEdit \/ AnzRefresh \/ AnzAgentEdit \/ AnzJoinStores \/ AnzTell \/ AnzUninstall
    \/ AnzReceive \/ AnzStopSent \/ AnzStopAnswered \/ AnzFetch \/ AnzHydrate \/ AnzHear
    \/ \E j \in AnzJobs :
         AnzAgentRuns(j) \/ AnzJoinReads(j) \/ AnzBegin(j) \/ AnzChunk(j) \/ AnzStore(j) \/ AnzRun(j)
           \/ AnzInvoke(j) \/ AnzAnswered(j)

AnzSpec == AnzInit /\ [][AnzNext]_anzVars

----------------------------------------
(* Nothing is on its way and nothing runs.                                 *)
AnzQuiet ==
    /\ anzSent = <<>> /\ anzEvents = <<>> /\ anzUntold = <<>> /\ anzStop = "no" /\ anzAsk.pc = "done"
    /\ \A j \in AnzJobs : anzJob[j].pc \in {"none", "done"}

(* The window's chain and the back end's, which is "the single source of   *)
(* truth for a session's chain" (analyzerStore.ts:57-59).                  *)
AnzChainsAgree ==
    AnzQuiet /\ anzMine # AnzUnset => anzMine = anzChain

(* They are the same unless a change of an agent and one of the window     *)
(* passed each other, or two of agents were told in another order than     *)
(* they were stored in.                                                    *)
AnzChainsAgreeUncrossed == "crossed" \notin anzGhost => AnzChainsAgree

(* A processor that was uninstalled is not in the default chain.  Nor is   *)
(* it in the window's chain, unless the first reading of the chain passed  *)
(* the news or it was brought back after it: told as part of an agent's    *)
(* chain, which may name what is not installed, or added from a catalog    *)
(* still to be read again.  Nor is it in the back end's chain, unless two  *)
(* changes passed each other besides.                                      *)
AnzGoneIsGone ==
    AnzQuiet =>
      /\ anzTemplate.members \subseteq anzInstalled
      /\ {"unread", "revived"} \cap anzGhost = {} =>
           /\ anzMine.members \subseteq anzInstalled
           /\ anzMine # AnzUnset /\ "crossed" \notin anzGhost =>
                anzChain.members \subseteq anzInstalled

(* The row stops running once the runs have ended, unless own runs         *)
(* overlapped.                                                             *)
AnzRowSettles ==
    AnzQuiet /\ "overlap" \notin anzGhost => ~anzRow.running /\ anzOwn = AnzNoOwn /\ anzToken = 0

(* The results that are shown are those the back end has, unless the end   *)
(* of an agent's run was passed over for an own run that then did not      *)
(* bring the newer results, or a stop found an own run queued.             *)
AnzResultIsStored ==
    AnzQuiet /\ {"overlap", "missed", "emptied"} \cap anzGhost = {} => anzRow.result = anzStored

(* "A stale promise is never handed to a caller asking about a new run"    *)
(* (analyzerStore.ts:420-422): refuted, as the generation of an own run begins *)
(* when it is started, not when its results are there.                     *)
AnzCacheIsOfTheResult ==
    AnzQuiet /\ anzCache.gen = anzGen /\ anzCache.of # 0 => anzCache.of = anzStored

AnzWindowSound ==
    AnzChainsAgreeUncrossed /\ AnzGoneIsGone /\ AnzRowSettles /\ AnzResultIsStored
=============================================================================
