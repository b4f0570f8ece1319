---------------------------- MODULE PipelineCore ----------------------------
(***************************************************************************)
(* The processors of a chain over one log, in the two ways the program     *)
(* runs them: commands/pipeline_core.rs driven by the chunk loop of        *)
(* services/pipeline.rs over a file, and driven by flush_batch of          *)
(* services/stream.rs, which takes the state of every processor out of the *)
(* stores, runs one batch, merges the results and puts the state back.     *)
(*                                                                         *)
(* The file run tests every line with a prefilter first and keeps its      *)
(* engines from the first chunk to the last.  Here both are fed the same   *)
(* lines in the same batches.  Every name carries the prefix Core.         *)
(***************************************************************************)
EXTENDS Engines

CONSTANTS
    CoreChains,    \* chains of processors to try
    CoreAlphabet,  \* [tag, word, level, ts, quick]: what a line may be
    CoreFileCtx,   \* the context of the file run: its type and its sections
    CoreMaxLines,  \* bound: lines in the log
    CoreMaxBatch   \* lines in a batch, at most

ASSUME CoreAssumption ==
    CoreMaxLines \in Nat /\ CoreMaxBatch \in Nat \ {0}

VARIABLES
    coreDefs,   \* the chain
    coreLog,    \* the lines so far
    coreFile,   \* PipelineCore of the file run
    coreStream, \* stream_*_state of the stream
    coreResults \* pipeline_results of the stream

coreVars == <<coreDefs, coreLog, coreFile, coreStream, coreResults>>

CoreNoChain == [transformers |-> <<>>, reporters |-> <<>>, trackers |-> <<>>,
                correlators |-> <<>>]
CoreStreamCtx == [known |-> TRUE, type |-> "Logcat", sections |-> <<>>]

----------------------------------------
(* Which processors take part.  A declaration of source types excludes in  *)
(* both runs, a source rule inside the definition in the file run only.    *)

CoreDeclaredOut(def, type) == def.declared # {} /\ type \notin def.declared

CoreRulesOut(rules, type) ==
    \E r \in rules : r.kind = "source" /\ type \notin r.hits

CoreFilterRules(def) ==
    UNION {def.pipeline[i].rules :
             i \in {j \in DOMAIN def.pipeline :
                      def.pipeline[j].kind = "filter"}}

CoreReporterIn(def, type) ==
    ~CoreDeclaredOut(def, type) /\ ~CoreRulesOut(CoreFilterRules(def), type)

CoreTrackerIn(def, type) ==
    /\ ~CoreDeclaredOut(def, type)
    /\ \A i \in DOMAIN def.transitions :
         ~CoreRulesOut(def.transitions[i].rules, type)

CoreCorrelatorIn(def, type) ==
    /\ ~CoreDeclaredOut(def, type)
    /\ \E i \in DOMAIN def.sources : ~CoreRulesOut(def.sources[i].rules, type)

(* The built-in anonymizer always takes part. *)
CoreTransformerIn(def, type) == def.masks \/ ~CoreDeclaredOut(def, type)

CoreStreamIn(def) == ~CoreDeclaredOut(def, CoreStreamCtx.type)

CoreKept(defs, In(_)) == SelectSeq(defs, In)

CoreFileDefs(defs) ==
    LET type == CoreFileCtx.type IN
    [transformers |-> CoreKept(defs.transformers,
                               LAMBDA d : CoreTransformerIn(d, type)),
     reporters |-> CoreKept(defs.reporters,
                            LAMBDA d : CoreReporterIn(d, type)),
     trackers |-> CoreKept(defs.trackers, LAMBDA d : CoreTrackerIn(d, type)),
     correlators |-> CoreKept(defs.correlators,
                              LAMBDA d : CoreCorrelatorIn(d, type))]

(* A stream runs no correlators. *)
CoreStreamDefs(defs) ==
    [transformers |-> CoreKept(defs.transformers, CoreStreamIn),
     reporters |-> CoreKept(defs.reporters, CoreStreamIn),
     trackers |-> CoreKept(defs.trackers, CoreStreamIn),
     correlators |-> <<>>]

----------------------------------------
(* The prefilter.  A matcher is a set of rules that must all hold: a       *)
(* reporter's, one per transition, one per source.                         *)

CoreReporterMatchers(def) == {CoreFilterRules(def)}

CoreTrackerMatchers(def) ==
    IF def.transitions = <<>> THEN {{}}
    ELSE {def.transitions[i].rules : i \in DOMAIN def.transitions}

CoreCorrelatorMatchers(def) ==
    {def.sources[i].rules : i \in DOMAIN def.sources}

CoreMatchers(defs) ==
    UNION ({CoreReporterMatchers(d) : d \in Range(defs.reporters)}
             \cup {CoreTrackerMatchers(d) : d \in Range(defs.trackers)}
             \cup {CoreCorrelatorMatchers(d) : d \in Range(defs.correlators)})

CoreTagRules(matcher) == {r \in matcher : r.kind \in {"tag", "tag_regex"}}
CoreWordRules(matcher) == {r \in matcher : r.kind \in {"word", "word_regex"}}

MutCoreUseTag(matchers) ==
    \E m \in matchers : \E r \in CoreTagRules(m) : ~r.bare

(* A pattern without a literal prefix (`bare') adds nothing to test with.  *)
CoreUseTag(matchers) ==
    /\ \A m \in matchers : CoreTagRules(m) # {}
    /\ \E m \in matchers : \E r \in CoreTagRules(m) : ~r.bare

CoreUseContent(matchers) ==
    /\ \A m \in matchers : CoreWordRules(m) # {}
    /\ \E m \in matchers : \E r \in CoreWordRules(m) : ~r.bare

(* The tags that start with the literal prefix of a tag rule. *)
CoreTagUnion(matchers) ==
    UNION {r.under : r \in UNION {CoreTagRules(m) : m \in matchers}}

(* Values are searched in the whole line, patterns in its message, or in   *)
(* the whole line if the fast extractor finds no message.                  *)
CoreContent(matchers, quick) ==
    UNION {IF quick THEN r.hits ELSE r.inRaw :
             r \in UNION {CoreWordRules(m) : m \in matchers}}

CoreShouldProcess(matchers, line) ==
    /\ CoreUseTag(matchers) /\ line.quick => line.tag \in CoreTagUnion(matchers)
    /\ CoreUseContent(matchers) =>
         line.word \in CoreContent(matchers, line.quick)

----------------------------------------
(* PipelineCore. *)

CoreEach(defs, New(_)) == [i \in DOMAIN defs |-> New(defs[i])]

CoreNew(defs) ==
    [mappings |-> CoreEach(defs.transformers, LAMBDA d : <<>>),
     reporters |-> CoreEach(defs.reporters, EngReporterNew),
     trackers |-> CoreEach(defs.trackers, EngTrackerNew),
     correlators |-> CoreEach(defs.correlators, EngCorrelatorNew)]

(* A definition restricted to sections the file does not have is not       *)
(* restricted.                                                             *)
CoreInSections(names, ctx, num) ==
    LET named == {s \in Range(ctx.sections) : s.name \in names}
    IN names # {} /\ named # {} => \E s \in named : num \in s.from..s.to

CoreReporterSections(def) ==
    def.sections \cup
      UNION {r.hits : r \in {q \in CoreFilterRules(def) : q.kind = "section"}}

(* The lines a chunk is left with, each with the message it had.  A file   *)
(* run drops what a transformer drops; a stream keeps such a line as it    *)
(* came.                                                                   *)
CoreTransform(defs, mappings, lines, mayDrop) ==
    FoldLeft(
      LAMBDA acc, line :
        LET t == EngTransformLine(defs.transformers, acc.mappings, line)
            out == IF t.keep THEN t.line ELSE line
        IN [mappings |-> t.mappings,
            lines |-> IF t.keep \/ ~mayDrop
                        THEN Append(acc.lines,
                                    [seen |-> out,
                                     original |-> [out EXCEPT
                                                     !.word = line.word]])
                        ELSE acc.lines],
      [mappings |-> mappings, lines |-> <<>>], lines)

CoreSeen(chunk) == [i \in DOMAIN chunk |-> chunk[i].seen]

(* Trackers read the messages as they were before the transformers. *)
CoreOriginals(chunk) == [i \in DOMAIN chunk |-> chunk[i].original]

CoreRun(Process(_, _), run, lines, In(_)) ==
    FoldLeft(Process, run, SelectSeq(lines, In))

CoreLayer2(defs, core, chunk, ctx) ==
    [core EXCEPT
       !.reporters = [i \in DOMAIN defs.reporters |->
          LET d == defs.reporters[i] IN
          CoreRun(LAMBDA r, line : EngReport(d, r, line, ctx), @[i],
                  CoreSeen(chunk),
                  LAMBDA l : CoreInSections(CoreReporterSections(d), ctx,
                                            l.num))],
       !.trackers = [i \in DOMAIN defs.trackers |->
          LET d == defs.trackers[i] IN
          CoreRun(LAMBDA r, line : EngTrack(d, r, line, ctx), @[i],
                  CoreOriginals(chunk),
                  LAMBDA l : CoreInSections(d.sections, ctx, l.num))],
       !.correlators = [i \in DOMAIN defs.correlators |->
          CoreRun(LAMBDA r, line : EngCorrelate(defs.correlators[i], r, line),
                  @[i], CoreSeen(chunk), LAMBDA l : TRUE)]]

(* One chunk of a file. *)
CoreFileBatch(all, core, lines) ==
    LET defs == CoreFileDefs(all)
        passed == SelectSeq(lines, LAMBDA l :
                              CoreShouldProcess(CoreMatchers(defs), l))
        t == CoreTransform(defs, core.mappings, passed, TRUE)
    IN CoreLayer2(defs, [core EXCEPT !.mappings = t.mappings], t.lines,
                  CoreFileCtx)

(* finish: the trackers' logs have their secrets replaced. *)
CoreFinishedLog(core, i) ==
    EngAnonymized(core.trackers[i].log,
                  FoldLeft(LAMBDA all, m : all \o m, <<>>, core.mappings))

----------------------------------------
(* flush_batch. *)

(* What a run leaves behind, and what it answers. *)
CoreContinued(core) ==
    [core EXCEPT !.reporters = CoreEach(core.reporters, EngContinued)]

CoreMergedResults(results, core) ==
    [i \in DOMAIN results |->
       EngMerged(results[i], EngResult(core.reporters[i]))]

CoreStreamBatch(all, stream, lines) ==
    LET defs == CoreStreamDefs(all)
        t == CoreTransform(defs, stream.mappings, lines, FALSE)
    IN CoreLayer2(defs, [stream EXCEPT !.mappings = t.mappings], t.lines,
                  CoreStreamCtx)

----------------------------------------
CoreInit ==
    /\ coreDefs = CoreNoChain
    /\ coreLog = <<>>
    /\ coreFile = CoreNew(CoreNoChain)
    /\ coreStream = CoreNew(CoreNoChain)
    /\ coreResults = <<>>

CoreChoose(defs) ==
    /\ coreDefs = CoreNoChain
    /\ coreDefs' = defs
    /\ coreFile' = CoreNew(CoreFileDefs(defs))
    /\ coreStream' = CoreNew(CoreStreamDefs(defs))
    /\ coreResults' = CoreEach(CoreStreamDefs(defs).reporters,
                               LAMBDA d : EngResult(EngReporterNew(d)))
    /\ UNCHANGED coreLog

CoreNumbered(lines) ==
    [i \in DOMAIN lines |->
       [num |-> Len(coreLog) + i - 1, tag |-> lines[i].tag,
        word |-> lines[i].word, level |-> lines[i].level, ts |-> lines[i].ts,
        quick |-> lines[i].quick]]

CoreBatch(lines) ==
    /\ coreDefs # CoreNoChain
    /\ Len(coreLog) + Len(lines) <= CoreMaxLines
    /\ coreLog' = coreLog \o CoreNumbered(lines)
    /\ coreFile' = CoreFileBatch(coreDefs, coreFile, CoreNumbered(lines))
    /\ LET ran == CoreStreamBatch(coreDefs, coreStream, CoreNumbered(lines)) IN
       /\ coreStream' = CoreContinued(ran)
       /\ coreResults' = CoreMergedResults(coreResults, ran)
    /\ UNCHANGED coreDefs

CoreNext ==
    \/ \E defs \in CoreChains : CoreChoose(defs)
    \/ \E n \in 1..CoreMaxBatch : \E lines \in [1..n -> CoreAlphabet] :
         CoreBatch(lines)

CoreSpec == CoreInit /\ [][CoreNext]_coreVars

----------------------------------------
(* Properties. *)

CoreAllRules == UNION CoreMatchers(coreDefs)

(* The chains the two runs are meant to treat alike: all that the prefilter *)
(* cannot misjudge (a pattern matches only tags with its literal prefix,   *)
(* reporters filter first), no sections, no source rule that fails, and no *)
(* transformer that drops or rewrites what a filter reads.                 *)
CoreComparable ==
    /\ CoreFileCtx.sections = <<>>
    /\ CoreFileDefs(coreDefs).reporters = CoreStreamDefs(coreDefs).reporters
    /\ CoreFileDefs(coreDefs).trackers = CoreStreamDefs(coreDefs).trackers
    /\ \A r \in CoreAllRules :
         /\ r.kind \in {"tag", "tag_regex"} => r.hits \subseteq r.under
         /\ r.kind \in {"word", "word_regex"} => r.hits \subseteq r.inRaw
         /\ r.hits = {} \/ ~r.bare
    /\ \A d \in Range(coreDefs.reporters) :
         d.pipeline # <<>> /\ d.pipeline[1].kind = "filter"
    /\ \A d \in Range(coreDefs.transformers) :
         d.filter = {} /\ DOMAIN d.rewrites = {}
    /\ \A r \in CoreAllRules :
         coreDefs.transformers # <<>> /\ r.kind \in {"word", "word_regex"} =>
           r.hits \cap Range(EngTokens) = {}

CoreCounted(result) == [result EXCEPT !.errors = 0]

(* However a log is cut into batches, a stream ends up with the results a  *)
(* run over the same lines as a file gives: matched lines, emissions,      *)
(* variables, counts, bursts and tracker transitions neither get lost nor  *)
(* appear twice at a batch boundary, and the prefilter drops no line that  *)
(* a processor would have matched.  Script errors are counted differently. *)
CoreStreamAgreesWithFile ==
    CoreComparable =>
      /\ \A i \in DOMAIN coreResults :
           CoreCounted(coreResults[i]) =
             CoreCounted(EngResult(coreFile.reporters[i]))
      /\ coreStream.trackers = coreFile.trackers

(* A correlated event has one or more lines of every other source, all in  *)
(* the window and in no other event; the snapshot of a tracker at the last *)
(* line is the state it is in; and once the run is finished no tracker     *)
(* shows a secret as a value.                                              *)
CoreEventsSound ==
    \A i \in DOMAIN coreFile.correlators :
      EngEventsSound(CoreFileDefs(coreDefs).correlators[i],
                     coreFile.correlators[i].events)

CoreSnapshotsAgree ==
    \A i \in DOMAIN coreFile.trackers :
      EngStateAt(CoreFileDefs(coreDefs).trackers[i], coreFile.trackers[i].log,
                 Len(coreLog)) = coreFile.trackers[i].state

CoreTrackersMasked ==
    (\E i \in DOMAIN coreDefs.transformers : coreDefs.transformers[i].masks) =>
      \A i \in DOMAIN coreFile.trackers :
        \A t \in Range(CoreFinishedLog(coreFile, i)) :
          \A f \in DOMAIN t.changes : t.changes[f].to \notin EngSecrets

CoreResultsSound ==
    CoreEventsSound /\ CoreSnapshotsAgree /\ CoreTrackersMasked

(* The results of a run are right, and a stream arrives at the same ones.  *)
CoreSound == CoreStreamAgreesWithFile /\ CoreResultsSound

(* What the comment of should_process says: it is FALSE only when no       *)
(* active processor will match the line.                                   *)
CorePrefilterConclusive ==
    LET matchers == CoreMatchers(CoreFileDefs(coreDefs)) IN
    \A line \in Range(coreLog) :
      (\E m \in matchers : EngMatches(m, line, CoreFileCtx)) =>
        CoreShouldProcess(matchers, line)

(* What RunResult says of script_errors: the number of errors of the run.  *)
CoreErrorsCounted ==
    CoreComparable =>
      \A i \in DOMAIN coreResults :
        coreResults[i].errors = coreFile.reporters[i].errors
=============================================================================
