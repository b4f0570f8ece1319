------------------------------ MODULE Engines -------------------------------
(***************************************************************************)
(* The four processor engines, each a fold over the lines of a log:        *)
(* processors/filter.rs, reporter/engine.rs and vars.rs,                   *)
(* state_tracker/engine.rs, correlator/engine.rs, transformer/engine.rs.   *)
(*                                                                         *)
(* A line is [num, tag, word, level, ts, quick]: one word stands for its   *)
(* message, `quick' says that the line has the shape the prefilter's fast  *)
(* extractors understand.  A pattern is the set of the tags or words it    *)
(* hits.  Every name carries the prefix Eng.                               *)
(***************************************************************************)
EXTENDS Integers, Sequences, FiniteSets, SequencesExt, FiniteSetsExt, Functions

CONSTANTS
    EngHistory,   \* lines of lookback a script gets (1000 in the code)
    EngSecrets,   \* words the anonymizer detects
    EngTokens,    \* the tokens it makes, in the order it makes them
    EngDay        \* time stamps in a day

ASSUME EngAssumption ==
    /\ EngHistory \in Nat \ {0}
    /\ EngDay \in Nat \ {0}
    /\ Len(EngTokens) >= Cardinality(EngSecrets)

EngNoContext == [known |-> FALSE, type |-> "none", sections |-> <<>>]
EngNoKey == "none"

----------------------------------------
(* filter.rs. *)

(* Sections may nest; a line belongs to the innermost one, the last of     *)
(* those around it in order of their start.                                *)
EngSectionOf(sections, num) ==
    LET around == {i \in DOMAIN sections :
                     num \in sections[i].from..sections[i].to}
    IN IF around = {} THEN "" ELSE sections[Max(around)].name

(* A pattern that does not compile hits nothing.  The correlator and the   *)
(* transformers have no context: source and section rules let all pass.    *)
EngRuleMatches(rule, line, ctx) ==
    \/ rule.kind \in {"tag", "tag_regex"} /\ line.tag \in rule.hits
    \/ rule.kind \in {"word", "word_regex"} /\ line.word \in rule.hits
    \/ rule.kind = "level" /\ line.level >= rule.min
    \/ rule.kind = "time" /\ line.ts % EngDay \in rule.from..rule.to
    \/ rule.kind = "source" /\ (ctx.known => ctx.type \in rule.hits)
    \/ /\ rule.kind = "section"
       /\ ctx.known => EngSectionOf(ctx.sections, line.num) \in rule.hits

EngMatches(rules, line, ctx) == \A r \in rules : EngRuleMatches(r, line, ctx)

(* The value a pattern extracts from the message, if it hits. *)
EngExtract(finds, line) == IF line.word \in finds THEN line.word ELSE EngNoKey

----------------------------------------
(* state_tracker/engine.rs: the first transition that matches sets and     *)
(* clears fields; what changed is logged.                                  *)

EngTrackerNew(def) == [state |-> def.defaults, log |-> <<>>]

(* "$1" stands for a value with a capture in it. *)
EngExpand(value, line) == IF value = "$1" THEN line.word ELSE value

EngNewState(def, state, t, line) ==
    [f \in DOMAIN state \cup DOMAIN t.set |->
       IF f \in t.clear \cap DOMAIN def.defaults THEN def.defaults[f]
       ELSE IF f \in DOMAIN t.set THEN EngExpand(t.set[f], line)
       ELSE state[f]]

EngChanges(old, new) ==
    LET before(f) == IF f \in DOMAIN old THEN old[f] ELSE "null"
        changed == {f \in DOMAIN new : before(f) # new[f]}
    IN [f \in changed |-> [from |-> before(f), to |-> new[f]]]

EngTrack(def, run, line, ctx) ==
    LET hits == {i \in DOMAIN def.transitions :
                   EngMatches(def.transitions[i].rules, line, ctx)}
        new == EngNewState(def, run.state, def.transitions[Min(hits)], line)
        changes == EngChanges(run.state, new)
    IN IF hits = {} \/ DOMAIN changes = {} THEN run
       ELSE [state |-> new,
             log |-> Append(run.log, [num |-> line.num, changes |-> changes])]

(* get_state_at_line: the defaults and the changes up to the line. *)
EngStateAt(def, log, num) ==
    LET upto == SelectSeq(log, LAMBDA t : t.num <= num)
    IN FoldLeft(LAMBDA state, t :
                  [f \in DOMAIN state \cup DOMAIN t.changes |->
                     IF f \in DOMAIN t.changes THEN t.changes[f].to
                                               ELSE state[f]],
                def.defaults, upto)

----------------------------------------
(* transformer/engine.rs and anonymizer/mapping.rs: a transformer drops    *)
(* what its filter does not match, and masks what it detects.  Mappings    *)
(* are the secrets met so far, in order.                                   *)

EngMapped(mappings, word) ==
    IF word \in EngSecrets \ Range(mappings) THEN Append(mappings, word)
                                             ELSE mappings

EngTokenFor(mappings, word) ==
    IF word \in Range(mappings)
      THEN EngTokens[CHOOSE i \in DOMAIN mappings : mappings[i] = word]
      ELSE word

EngKeeps(def, line) == EngMatches(def.filter, line, EngNoContext)

(* One transformer on one line: [keep, line, mappings]. *)
EngTransformOne(def, mappings, line) ==
    IF ~EngKeeps(def, line)
      THEN [keep |-> FALSE, line |-> line, mappings |-> mappings]
      ELSE LET known == IF def.masks THEN EngMapped(mappings, line.word)
                                     ELSE mappings
               masked == IF def.masks THEN EngTokenFor(known, line.word)
                                      ELSE line.word
           IN [keep |-> TRUE, mappings |-> known,
               line |-> [line EXCEPT
                           !.word = IF masked \in DOMAIN def.rewrites
                                      THEN def.rewrites[masked] ELSE masked]]

(* The transformers of a chain on one line, until one drops it. *)
EngTransformLine(defs, mappings, line) ==
    FoldLeftDomain(
      LAMBDA acc, i :
        IF ~acc.keep THEN acc
        ELSE LET one == EngTransformOne(defs[i], acc.mappings[i], acc.line)
             IN [keep |-> one.keep, line |-> one.line,
                 mappings |-> [acc.mappings EXCEPT ![i] = one.mappings]],
      [keep |-> TRUE, line |-> line, mappings |-> mappings], defs)

(* anonymize_tracker_result: a value that is a secret in whole. *)
EngAnonymized(log, mappings) ==
    [i \in DOMAIN log |->
       [log[i] EXCEPT
          !.changes = [f \in DOMAIN log[i].changes |->
                         [from |-> EngTokenFor(mappings,
                                               log[i].changes[f].from),
                          to |-> EngTokenFor(mappings,
                                             log[i].changes[f].to)]]]]

----------------------------------------
(* reporter/engine.rs: a pipeline of stages. *)

EngReporterNew(def) ==
    [vars |-> 0, count |-> 0, emitted |-> <<>>, matched |-> <<>>,
     history |-> <<>>, windows |-> [k \in {} |-> <<>>], active |-> {},
     errors |-> 0, firstError |-> "none"]

(* A script is any function of the line, the fields, the variables and the *)
(* history; this one depends on all of them.                               *)
EngScript(vars, key, line, history) ==
    (2 * vars + line.num + Len(history)
       + IF key = EngNoKey THEN 0 ELSE 1) % 16

(* While the front of the window is too old it goes.  Stamps may go back,  *)
(* so an old stamp may stay behind a newer one.                            *)
EngTrimmed(window, ts, span) ==
    LET fresh == {i \in DOMAIN window : ts - window[i] <= span}
    IN IF fresh = {} THEN <<>> ELSE SubSeq(window, Min(fresh), Len(window))

EngWindow(run, key) ==
    IF key \in DOMAIN run.windows THEN run.windows[key] ELSE <<>>

(* A burst is reported when it begins, and again only after it has ended.  *)
EngBurst(run, group, key, line) ==
    LET window == Append(EngTrimmed(EngWindow(run, key), line.ts, group.span),
                         line.ts)
        burst == Len(window) >= group.threshold
        begins == burst /\ key \notin run.active
    IN [run EXCEPT
          !.windows = [k \in DOMAIN @ \cup {key} |->
                         IF k = key THEN window ELSE @[k]],
          !.active = IF burst THEN @ \cup {key} ELSE @ \ {key},
          !.emitted = IF begins
                        THEN Append(@, [num |-> line.num, what |-> "burst",
                                        key |-> key, n |-> Len(window)])
                        ELSE @]

EngAggregate(run, group, key, line) ==
    CASE group.type = "count" -> [run EXCEPT !.count = @ + 1]
      [] group.type = "count_by" ->
           IF key = EngNoKey THEN run
           ELSE [run EXCEPT !.emitted =
                   Append(@, [num |-> line.num, what |-> "count_by",
                              key |-> key, n |-> 1])]
      [] group.type = "burst" -> EngBurst(run, group, key, line)
      [] OTHER -> run

EngRunScript(run, key, line) ==
    IF line.word = "boom"
      THEN [run EXCEPT !.errors = @ + 1,
                       !.firstError = IF @ = "none" THEN line.word ELSE @]
      ELSE LET vars == EngScript(run.vars, key, line, run.history)
           IN [run EXCEPT !.vars = vars,
                          !.emitted = Append(@, [num |-> line.num,
                                                 what |-> "script",
                                                 key |-> key, n |-> vars])]

(* One stage: [run, key, rejected].  Correlate and output stages do        *)
(* nothing.                                                                *)
EngStage(acc, stage, line, ctx) ==
    CASE stage.kind = "filter" ->
           [acc EXCEPT !.rejected = ~EngMatches(stage.rules, line, ctx)]
      [] stage.kind = "extract" ->
           [acc EXCEPT !.key = EngExtract(stage.finds, line)]
      [] stage.kind = "script" ->
           [acc EXCEPT !.run = EngRunScript(@, acc.key, line)]
      [] stage.kind = "aggregate" ->
           [acc EXCEPT !.run = FoldLeft(
              LAMBDA run, group : EngAggregate(run, group, acc.key, line),
              @, stage.groups)]
      [] OTHER -> acc

EngKeepLast(s, n) == IF Len(s) > n THEN Tail(s) ELSE s

EngReport(def, run, line, ctx) ==
    LET acc == FoldLeft(LAMBDA a, stage : IF a.rejected THEN a
                                          ELSE EngStage(a, stage, line, ctx),
                        [run |-> run, key |-> EngNoKey, rejected |-> FALSE],
                        def.pipeline)
    IN IF acc.rejected THEN acc.run
       ELSE [acc.run EXCEPT
               !.matched = Append(@, line.num),
               !.history = EngKeepLast(Append(@, line), EngHistory)]

(* What a run answers, and what it hands to the next batch of a stream.    *)
EngResult(run) ==
    [vars |-> run.vars, count |-> run.count, emitted |-> run.emitted,
     matched |-> run.matched, errors |-> run.errors,
     firstError |-> run.firstError]

MutEngContinued(run) ==
    [run EXCEPT !.emitted = <<>>, !.matched = <<>>, !.active = {}]

EngContinued(run) == [run EXCEPT !.emitted = <<>>, !.matched = <<>>]

(* RunResult::merge: the variables are replaced, the rest accumulates. *)
EngMerged(sofar, batch) ==
    [vars |-> batch.vars, count |-> batch.count,
     emitted |-> sofar.emitted \o batch.emitted,
     matched |-> sofar.matched \o batch.matched,
     errors |-> sofar.errors + batch.errors,
     firstError |-> IF sofar.firstError = "none" THEN batch.firstError
                                                 ELSE sofar.firstError]

----------------------------------------
(* correlator/engine.rs: a line of the trigger source is reported with the *)
(* lines every other source has in the window.                             *)

EngOthers(def) == {def.sources[i].id : i \in DOMAIN def.sources}
                      \ {def.trigger}

EngCorrelatorNew(def) ==
    [buffers |-> [s \in EngOthers(def) |-> <<>>], events |-> <<>>]

(* An error in the condition is a no. *)
EngSourceMatches(source, line) ==
    EngMatches(source.rules, line, EngNoContext) /\ line.word \in source.cond

EngInWindow(def, r, line) ==
    /\ def.lines >= 0 => line.num - r.num <= def.lines
    /\ def.span >= 0 => line.ts - r.ts <= def.span

MutEngTrigger(def, run, line) ==
    LET complete == DOMAIN run.buffers # {}
                      /\ \A s \in DOMAIN run.buffers : run.buffers[s] # <<>>
    IN IF complete
         THEN [buffers |-> [s \in DOMAIN run.buffers |-> <<>>],
               events |-> Append(run.events,
                                 [num |-> line.num, ts |-> line.ts,
                                  with |-> run.buffers])]
         ELSE run

EngTrigger(def, run, line) ==
    LET kept == [s \in DOMAIN run.buffers |->
                   SelectSeq(run.buffers[s],
                             LAMBDA r : EngInWindow(def, r, line))]
        complete == DOMAIN kept # {} /\ \A s \in DOMAIN kept : kept[s] # <<>>
    IN IF complete
         THEN [buffers |-> [s \in DOMAIN kept |-> <<>>],
               events |-> Append(run.events,
                                 [num |-> line.num, ts |-> line.ts,
                                  with |-> kept])]
         ELSE [run EXCEPT !.buffers = kept]

(* The sources a line matches are taken in the order of their definition.  *)
EngCorrelate(def, run, line) ==
    FoldLeft(LAMBDA r, source :
               IF source.id = def.trigger THEN EngTrigger(def, r, line)
               ELSE [r EXCEPT !.buffers[source.id] =
                       Append(@, [num |-> line.num, ts |-> line.ts])],
             run,
             SelectSeq(def.sources, LAMBDA s : EngSourceMatches(s, line)))

(* A line takes part in one event at most, before or at its trigger and    *)
(* within the window.                                                      *)
EngEventsSound(def, events) ==
    \A i \in DOMAIN events : \A s \in DOMAIN events[i].with :
      /\ events[i].with[s] # <<>>
      /\ \A r \in Range(events[i].with[s]) :
           /\ r.num <= events[i].num
           /\ EngInWindow(def, r, events[i])
           /\ \A j \in DOMAIN events \ {i} : r \notin Range(events[j].with[s])
=============================================================================
