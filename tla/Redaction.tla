------------------------------ MODULE Redaction ------------------------------
(***************************************************************************)
(* The anonymizer and the settings that decide who reads raw text          *)
(* (services/policy.rs, services/settings.rs, anonymizer/, the pages of    *)
(* services/lines.rs, and settings/settingsStore.ts in the window).        *)
(*                                                                         *)
(* A line is a sequence of words, and a detector finds some sequences of   *)
(* words.  The window's commands for these settings are synchronous: they  *)
(* run one after the other, each in two steps, the file and the memory,    *)
(* and their answers arrive in the same order.  A read runs beside them    *)
(* and looks at the settings whenever it has to decide.                    *)
(***************************************************************************)
EXTENDS Integers, Sequences, FiniteSets, SequencesExt, FiniteSetsExt, Functions

CONSTANTS
    RdxReaders,    \* reads under way at a time, a subset of RdxKinds
    RdxDetectors,  \* the detectors in order: [finds, cat, on], on by default or not
    RdxPage,       \* the lines of a page: [raw |-> words, from |-> the message's first]
    RdxBudget      \* how often each of the events below may happen

RdxKinds == {"agent", "window", "copy"}
RdxModes == {"all", "external", "none"}

ASSUME RdxAssumption == RdxReaders \subseteq RdxKinds

VARIABLES
    rdxMem,      \* [mode, on, raw]: the settings in memory
    rdxDisk,     \* [config, raw]: their two files
    rdxWin,      \* the window's copy of the configuration
    rdxAsked,    \* commands of the window that have not finished, the first running
    rdxPut,      \* the first of them has written its file
    rdxAnswers,  \* answers the window has not handled
    rdxOpen,     \* the session: "open", "closing" or "closed"
    rdxAnon,     \* its anonymizer (mcp_anonymizers)
    rdxRead,     \* where each read is
    rdxPages,    \* [gen, held]: the window's pages of the session, redacted or not
    rdxAstray,   \* a change was made over an answer that undid another one
    rdxLeft      \* what is left of the budget

rdxVars == <<rdxMem, rdxDisk, rdxWin, rdxAsked, rdxPut, rdxAnswers, rdxOpen,
             rdxAnon, rdxRead, rdxPages, rdxAstray, rdxLeft>>
rdxSettings == <<rdxMem, rdxDisk, rdxWin, rdxAsked, rdxPut, rdxAnswers, rdxAstray>>

RdxAll == DOMAIN RdxDetectors
RdxTorn == [mode |-> "torn", on |-> {}]
RdxUnknown == [mode |-> "unknown", on |-> {}]
RdxConfig(mem) == [mode |-> mem.mode, on |-> mem.on]
RdxMemory(config, raw) == [mode |-> config.mode, on |-> config.on, raw |-> raw]
RdxDefault == [mode |-> "external", on |-> {d \in RdxAll : RdxDetectors[d].on}]

----------------------------------------
(* The anonymizer                                                          *)

RdxNoAnon == [on |-> {}, none |-> TRUE, fwd |-> <<>>, count |-> <<>>]
RdxCats == {RdxDetectors[d].cat : d \in RdxAll}
RdxNewAnon(config) ==
    [on |-> config.on, none |-> FALSE, fwd |-> <<>>, count |-> [c \in RdxCats |-> 0]]

(* A word is <<word, 0>>, a token <<category, number>>.                    *)
RdxWords(words) == [i \in DOMAIN words |-> <<words[i], 0>>]

RdxMatches(on, text) ==
    {m \in [det : on, from : DOMAIN text, to : DOMAIN text] :
        SubSeq(text, m.from, m.to) \in
            {RdxWords(w) : w \in RdxDetectors[m.det].finds}}

(* Longest first, then by position, then in the order of the detectors.    *)
RdxBefore(a, b) ==
    LET len(m) == m.to - m.from
    IN  \/ len(a) > len(b)
        \/ len(a) = len(b) /\ a.from < b.from
        \/ len(a) = len(b) /\ a.from = b.from /\ a.det < b.det

RdxOverlap(a, b) == a.from <= b.to /\ a.to >= b.from

(* The longest match wins over those it overlaps.                          *)
RdxChosen(on, text) ==
    FoldLeft(LAMBDA used, m : IF \E u \in used : RdxOverlap(m, u) THEN used ELSE used \union {m},
             {}, SetToSortSeq(RdxMatches(on, text), RdxBefore))

(* A bug: the counter of the category is not advanced.                     *)
MutRdxTokenFor(anon, value, cat) ==
    IF value \in DOMAIN anon.fwd THEN anon
    ELSE [anon EXCEPT !.fwd = (value :> <<cat, anon.count[cat] + 1>>) @@ @]

(* The anonymizer after it was asked for the token of a value.             *)
RdxTokenFor(anon, value, cat) ==
    IF value \in DOMAIN anon.fwd THEN anon
    ELSE [anon EXCEPT !.count[cat] = @ + 1,
                      !.fwd = (value :> <<cat, anon.count[cat] + 1>>) @@ @]

(* One text: [anon, out, at], replaced from left to right.                 *)
RdxReplace(text, done, m) ==
    LET value == SubSeq(text, m.from, m.to)
        anon == RdxTokenFor(done.anon, value, RdxDetectors[m.det].cat)
    IN  [anon |-> anon, at |-> m.to + 1,
         out |-> done.out \o SubSeq(text, done.at, m.from - 1) \o <<anon.fwd[value]>>]

RdxAnonymize(anon, text) ==
    LET Earlier(a, b) == a.from < b.from
        Step(done, m) == RdxReplace(text, done, m)
        done == FoldLeft(Step, [anon |-> anon, at |-> 1, out |-> <<>>],
                         SetToSortSeq(RdxChosen(anon.on, text), Earlier))
    IN  [anon |-> done.anon, out |-> done.out \o SubSeq(text, done.at, Len(text))]

(* Every text in order, with the anonymizer the session has, or a new one. *)
RdxPass(texts) ==
    LET first == IF rdxAnon.none THEN RdxNewAnon(RdxConfig(rdxMem)) ELSE rdxAnon
        Step(done, text) == LET a == RdxAnonymize(done.anon, text)
                            IN  [anon |-> a.anon, out |-> Append(done.out, a.out)]
    IN  FoldLeft(Step, [anon |-> first, out |-> <<>>], texts)

----------------------------------------
(* Reading                                                                 *)

RdxRaws == [i \in DOMAIN RdxPage |-> RdxWords(RdxPage[i].raw)]
RdxMessages ==
    [i \in DOMAIN RdxPage |->
        SubSeq(RdxRaws[i], RdxPage[i].from, Len(RdxRaws[i]))]

RdxIdle == [at |-> "idle"]
RdxSpend(what) == rdxLeft[what] > 0 /\ rdxLeft' = [rdxLeft EXCEPT ![what] = @ - 1]

(* Agents may read raw text under these settings.                          *)
RdxAllows(mem) == mem.mode = "none" \/ mem.raw

RdxInit ==
    /\ rdxMem = RdxMemory(RdxDefault, FALSE)
    /\ rdxDisk = [config |-> RdxDefault, raw |-> "off"]
    /\ rdxWin = RdxDefault
    /\ rdxAsked = <<>> /\ rdxAnswers = <<>> /\ rdxPut = FALSE
    /\ rdxOpen = "open"
    /\ rdxAnon = RdxNoAnon
    /\ rdxRead = [r \in RdxReaders |-> RdxIdle]
    /\ rdxPages = [gen |-> 0, held |-> {}]
    /\ rdxAstray = FALSE
    /\ rdxLeft \in RdxBudget

(* A page is asked for, its lines cut or not, or a text to be copied.      *)
RdxBegin(r) ==
    /\ rdxRead[r].at = "idle"
    /\ RdxSpend("reads")
    /\ \E cut \in IF r = "agent" THEN BOOLEAN ELSE {FALSE} :
         rdxRead' = [rdxRead EXCEPT ![r] =
           [at |-> "mode", step |-> 1, cut |-> cut, yes |-> FALSE,
            raws |-> RdxRaws, messages |-> RdxMessages, used |-> <<>>,
            gen |-> rdxPages.gen, may |-> RdxAllows(rdxMem), calm |-> TRUE]]
    /\ UNCHANGED <<rdxSettings, rdxOpen, rdxAnon, rdxPages>>

(* should_anonymize_for: the mode is read first, the flag of the agents in *)
(* a step of its own.                                                      *)
RdxReadMode(r) ==
    /\ rdxRead[r].at = "mode"
    /\ LET mode == rdxMem.mode
       IN  rdxRead' = [rdxRead EXCEPT
             ![r].at = IF r = "agent" /\ mode # "none" THEN "flag" ELSE "act",
             ![r].yes = CASE r = "window" -> mode = "all"
                          [] r = "copy" -> mode # "none"
                          [] r = "agent" -> FALSE]
    /\ UNCHANGED <<rdxSettings, rdxOpen, rdxAnon, rdxPages, rdxLeft>>

RdxReadFlag(r) ==
    /\ rdxRead[r].at = "flag"
    /\ rdxRead' = [rdxRead EXCEPT ![r].at = "act", ![r].yes = ~rdxMem.raw]
    /\ UNCHANGED <<rdxSettings, rdxOpen, rdxAnon, rdxPages, rdxLeft>>

(* The lines are collected from the session, if it is still there.         *)
RdxCollect(r) ==
    /\ rdxRead[r].at = "act" /\ rdxRead[r].step = 1 /\ r # "copy"
    /\ rdxRead' = [rdxRead EXCEPT ![r] =
         IF rdxOpen # "open" THEN RdxIdle
         ELSE IF @.yes \/ @.cut THEN [@ EXCEPT !.step = 2, !.at = "mode"]
         ELSE [@ EXCEPT !.at = "answered"]]
    /\ UNCHANGED <<rdxSettings, rdxOpen, rdxAnon, rdxPages, rdxLeft>>

RdxCopy(r) ==
    /\ rdxRead[r].at = "act" /\ r = "copy"
    /\ LET pass == RdxPass(RdxRaws)
           yes == rdxRead[r].yes
       IN  /\ rdxAnon' = IF yes THEN pass.anon ELSE rdxAnon
           /\ rdxRead' = [rdxRead EXCEPT ![r].at = "answered",
                ![r].raws = IF yes THEN pass.out ELSE @,
                ![r].used = IF yes THEN <<pass.anon.on>> ELSE @]
    /\ UNCHANGED <<rdxSettings, rdxOpen, rdxPages, rdxLeft>>

(* The lines with a message of their own that the first pass changed.      *)
RdxOwn(raws) ==
    {i \in DOMAIN RdxPage : RdxMessages[i] # RdxRaws[i] /\ raws[i] # RdxRaws[i]}

(* The first pass over a page: its raw lines.                              *)
RdxPassRaws(r) ==
    /\ rdxRead[r].at = "act" /\ rdxRead[r].step = 2
    /\ LET pass == RdxPass(RdxRaws)
           yes == rdxRead[r].yes
           raws == IF yes THEN pass.out ELSE RdxRaws
       IN  /\ rdxAnon' = IF yes THEN pass.anon ELSE rdxAnon
           /\ rdxRead' = [rdxRead EXCEPT
                ![r].raws = raws,
                ![r].messages = [i \in DOMAIN RdxPage |->
                                   IF @[i] = RdxRaws[i] THEN raws[i] ELSE @[i]],
                ![r].used = IF yes THEN <<pass.anon.on>> ELSE @,
                ![r].step = 3,
                ![r].at = IF RdxOwn(raws) = {} THEN "answered" ELSE "mode"]
    /\ UNCHANGED <<rdxSettings, rdxOpen, rdxPages, rdxLeft>>

(* The second: the messages, decided anew and with the anonymizer there is.*)
RdxPassMessages(r) ==
    /\ rdxRead[r].at = "act" /\ rdxRead[r].step = 3
    /\ LET own == SetToSortSeq(RdxOwn(rdxRead[r].raws), <)
           pass == RdxPass([k \in DOMAIN own |-> RdxMessages[own[k]]])
           yes == rdxRead[r].yes
       IN  /\ rdxAnon' = IF yes THEN pass.anon ELSE rdxAnon
           /\ rdxRead' = [rdxRead EXCEPT
                ![r].at = "answered",
                ![r].messages = [i \in DOMAIN RdxPage |->
                    IF yes /\ i \in Range(own)
                      THEN pass.out[CHOOSE k \in DOMAIN own : own[k] = i] ELSE @[i]],
                ![r].used = IF yes THEN Append(@, pass.anon.on) ELSE @]
    /\ UNCHANGED <<rdxSettings, rdxOpen, rdxPages, rdxLeft>>

(* The answer is taken; the window keeps a page it still wants.            *)
RdxTake(r) ==
    /\ rdxRead[r].at = "answered"
    /\ rdxRead' = [rdxRead EXCEPT ![r] = RdxIdle]
    /\ rdxPages' = IF r = "window" /\ rdxRead[r].gen = rdxPages.gen
                     THEN [rdxPages EXCEPT !.held = @ \union {rdxRead[r].used # <<>>}]
                     ELSE rdxPages
    /\ UNCHANGED <<rdxSettings, rdxOpen, rdxAnon, rdxLeft>>

----------------------------------------
(* The session                                                             *)

RdxClose ==
    /\ rdxOpen = "open"
    /\ RdxSpend("closes")
    /\ rdxOpen' = "closing"
    /\ UNCHANGED <<rdxSettings, rdxAnon, rdxRead, rdxPages>>

(* The anonymizer goes some steps after the session.                       *)
RdxDrop ==
    /\ rdxOpen = "closing"
    /\ rdxOpen' = "closed"
    /\ rdxAnon' = RdxNoAnon
    /\ rdxRead' = [r \in RdxReaders |->
         IF rdxRead[r].at = "idle" THEN RdxIdle ELSE [rdxRead[r] EXCEPT !.calm = FALSE]]
    /\ UNCHANGED <<rdxSettings, rdxPages, rdxLeft>>

(* The file is opened again, with the id it had.                           *)
RdxOpenAgain ==
    /\ rdxOpen = "closed"
    /\ rdxOpen' = "open"
    /\ rdxPages' = [gen |-> rdxPages.gen + 1, held |-> {}]
    /\ UNCHANGED <<rdxSettings, rdxAnon, rdxRead, rdxLeft>>

----------------------------------------
(* The settings                                                            *)

RdxCall(kind, config, prev, raw) ==
    [kind |-> kind, config |-> config, prev |-> prev, raw |-> raw, ok |-> TRUE]

(* An answer on its way will put another value over the window's copy.     *)
RdxUnsettled ==
    \E c \in Range(rdxAsked) \union Range(rdxAnswers) : c.kind = "get" \/ ~c.ok

RdxChange(call) ==
    /\ rdxAsked' = Append(rdxAsked, call)
    /\ rdxWin' = call.config
    /\ rdxAstray' = (rdxAstray \/ RdxUnsettled)

(* setAnonymizerMode                                                       *)
RdxSetMode ==
    /\ rdxWin # RdxUnknown
    /\ RdxSpend("sets")
    /\ \E mode \in RdxModes \ {rdxWin.mode} :
         RdxChange(RdxCall("mode", [rdxWin EXCEPT !.mode = mode], rdxWin, FALSE))
    /\ UNCHANGED <<rdxMem, rdxDisk, rdxPut, rdxAnswers, rdxOpen, rdxAnon, rdxRead, rdxPages>>

(* toggleDetector: the mode the window shows rides along.                  *)
RdxToggle ==
    /\ rdxWin # RdxUnknown
    /\ RdxSpend("sets")
    /\ \E d \in RdxAll :
         LET on == IF d \in rdxWin.on THEN rdxWin.on \ {d} ELSE rdxWin.on \union {d}
         IN  RdxChange(RdxCall("toggle", [rdxWin EXCEPT !.on = on], rdxWin, FALSE))
    /\ UNCHANGED <<rdxMem, rdxDisk, rdxPut, rdxAnswers, rdxOpen, rdxAnon, rdxRead, rdxPages>>

RdxSetRaw ==
    /\ RdxSpend("sets")
    /\ \E raw \in BOOLEAN : rdxAsked' = Append(rdxAsked, RdxCall("raw", rdxWin, rdxWin, raw))
    /\ UNCHANGED <<rdxMem, rdxDisk, rdxWin, rdxPut, rdxAnswers, rdxOpen, rdxAnon, rdxRead,
                   rdxPages, rdxAstray>>

(* The settings are opened.                                                *)
RdxRefresh ==
    /\ RdxSpend("refreshes")
    /\ rdxAsked' = Append(rdxAsked, RdxCall("get", RdxUnknown, RdxUnknown, FALSE))
    /\ UNCHANGED <<rdxMem, rdxDisk, rdxWin, rdxPut, rdxAnswers, rdxOpen, rdxAnon, rdxRead,
                   rdxPages, rdxAstray>>

RdxFinish(call) ==
    /\ rdxAsked' = Tail(rdxAsked)
    /\ rdxAnswers' = Append(rdxAnswers, call)
    /\ rdxPut' = FALSE

RdxGet ==
    /\ rdxAsked # <<>> /\ Head(rdxAsked).kind = "get"
    /\ RdxFinish([Head(rdxAsked) EXCEPT !.config = RdxConfig(rdxMem)])
    /\ UNCHANGED <<rdxMem, rdxDisk, rdxWin, rdxOpen, rdxAnon, rdxRead, rdxPages, rdxAstray, rdxLeft>>

RdxWritten(call) ==
    IF call.kind = "raw"
      THEN [rdxDisk EXCEPT !.raw = IF call.raw THEN "on" ELSE "off"]
      ELSE [rdxDisk EXCEPT !.config = call.config]

RdxHalfWritten(call) ==
    IF call.kind = "raw" THEN [rdxDisk EXCEPT !.raw = "torn"]
    ELSE [rdxDisk EXCEPT !.config = RdxTorn]

RdxWriting == rdxAsked # <<>> /\ Head(rdxAsked).kind # "get" /\ ~rdxPut

RdxPersist ==
    /\ RdxWriting
    /\ rdxDisk' = RdxWritten(Head(rdxAsked))
    /\ rdxPut' = TRUE
    /\ UNCHANGED <<rdxMem, rdxWin, rdxAsked, rdxAnswers, rdxOpen, rdxAnon, rdxRead,
                   rdxPages, rdxAstray, rdxLeft>>

(* The file cannot be written, or only half of it: nothing else changes.   *)
RdxPersistFails ==
    /\ RdxWriting
    /\ RdxSpend("fails")
    /\ LET call == Head(rdxAsked)
       IN  /\ rdxDisk' \in {rdxDisk, RdxHalfWritten(call)}
           /\ RdxFinish([call EXCEPT !.ok = FALSE])
           /\ rdxAstray' = (rdxAstray \/ \E c \in Range(Tail(rdxAsked)) : c.kind \in {"mode", "toggle"})
    /\ UNCHANGED <<rdxMem, rdxWin, rdxOpen, rdxAnon, rdxRead, rdxPages>>

RdxStore ==
    /\ rdxPut
    /\ LET call == Head(rdxAsked)
       IN  /\ rdxMem' = IF call.kind = "raw" THEN [rdxMem EXCEPT !.raw = call.raw]
                        ELSE RdxMemory(call.config, rdxMem.raw)
           /\ RdxFinish(call)
    /\ rdxRead' = [r \in RdxReaders |->
         IF rdxRead[r].at = "idle" THEN RdxIdle
         ELSE [rdxRead[r] EXCEPT !.may = @ \/ RdxAllows(rdxMem'), !.calm = FALSE]]
    /\ UNCHANGED <<rdxDisk, rdxWin, rdxOpen, rdxAnon, rdxPages, rdxAstray, rdxLeft>>

(* onAnonymizerModeChanged: the pages are read again when "all" is entered *)
(* or left.                                                                *)
RdxRefetches(prev, next) == "all" \in {prev, next}

(* The window hears of the first answer.                                   *)
RdxHear ==
    /\ rdxAnswers # <<>>
    /\ rdxAnswers' = Tail(rdxAnswers)
    /\ LET a == Head(rdxAnswers)
           again == a.kind \in {"mode", "toggle"} /\ ~a.ok
       IN  /\ rdxWin' = IF a.kind = "get" THEN a.config
                        ELSE IF a.kind = "mode" /\ ~a.ok THEN a.prev ELSE rdxWin
           /\ rdxAsked' = IF again
                            THEN Append(rdxAsked, RdxCall("get", RdxUnknown, RdxUnknown, FALSE))
                            ELSE rdxAsked
           /\ rdxPages' = IF a.kind = "mode" /\ a.ok /\ RdxRefetches(a.prev.mode, a.config.mode)
                            THEN [gen |-> rdxPages.gen + 1, held |-> {}] ELSE rdxPages
    /\ UNCHANGED <<rdxMem, rdxDisk, rdxPut, rdxOpen, rdxAnon, rdxRead, rdxAstray, rdxLeft>>

(* A bug: a file that cannot be read opens the gate instead of closing it. *)
MutRdxLoaded(disk) ==
    RdxMemory(IF disk.config = RdxTorn THEN RdxDefault ELSE disk.config, disk.raw # "off")

(* What the start of the application makes of the two files.               *)
RdxLoaded(disk) ==
    RdxMemory(IF disk.config = RdxTorn THEN RdxDefault ELSE disk.config, disk.raw = "on")

(* The process dies, in the middle of a write perhaps, and starts again.   *)
RdxRestart ==
    /\ RdxSpend("crashes")
    /\ \E disk \in {rdxDisk} \union (IF RdxWriting THEN {RdxHalfWritten(Head(rdxAsked))} ELSE {}) :
         /\ rdxDisk' = disk
         /\ rdxMem' = RdxLoaded(disk)
    /\ rdxWin' = RdxUnknown
    /\ rdxAsked' = <<>> /\ rdxAnswers' = <<>> /\ rdxPut' = FALSE
    /\ rdxOpen' = "closed" /\ rdxAnon' = RdxNoAnon
    /\ rdxRead' = [r \in RdxReaders |-> RdxIdle]
    /\ rdxPages' = [gen |-> rdxPages.gen + 1, held |-> {}]
    /\ rdxAstray' = FALSE

RdxNext ==
    \/ \E r \in RdxReaders :
         \/ RdxBegin(r) \/ RdxReadMode(r) \/ RdxReadFlag(r) \/ RdxCollect(r)
         \/ RdxCopy(r) \/ RdxPassRaws(r) \/ RdxPassMessages(r) \/ RdxTake(r)
    \/ RdxClose \/ RdxDrop \/ RdxOpenAgain
    \/ RdxSetMode \/ RdxToggle \/ RdxSetRaw \/ RdxRefresh
    \/ RdxGet \/ RdxPersist \/ RdxPersistFails \/ RdxStore \/ RdxHear
    \/ RdxRestart

RdxSpec == RdxInit /\ [][RdxNext]_rdxVars

----------------------------------------
(* What the settings and the tokens promise                                *)

RdxTypeOK ==
    /\ rdxMem.mode \in RdxModes /\ rdxMem.on \subseteq RdxAll /\ rdxMem.raw \in BOOLEAN
    /\ rdxDisk.config \in {RdxTorn} \union [mode : RdxModes, on : SUBSET RdxAll]
    /\ rdxDisk.raw \in {"on", "off", "torn"}
    /\ rdxWin \in {RdxUnknown} \union [mode : RdxModes, on : SUBSET RdxAll]
    /\ rdxPut => rdxAsked # <<>>
    /\ rdxOpen \in {"open", "closing", "closed"}
    /\ rdxPages.held \subseteq BOOLEAN

(* Nothing the anonymizer that was used looks for is left in these texts.  *)
RdxHides(on, texts) == \A i \in DOMAIN texts : RdxMatches(on, texts[i]) = {}

(* An agent gets raw text only if the settings allowed that at some moment *)
(* of its call, although mode and flag are read apart and several times:   *)
(* else the detectors that were on find nothing in it.                     *)
RdxAgentRaw ==
    \A r \in RdxReaders \intersect {"agent"} :
        rdxRead[r].at = "answered" /\ ~rdxRead[r].may =>
            /\ rdxRead[r].used # <<>>
            /\ RdxHides(Head(rdxRead[r].used), rdxRead[r].raws)
            /\ RdxHides(Last(rdxRead[r].used), rdxRead[r].messages)

(* No pass over such a page is left out, that over the messages included,  *)
(* although each pass decides for itself.                                  *)
RdxAgentGated ==
    \A r \in RdxReaders \intersect {"agent"} :
        rdxRead[r].at = "answered" /\ ~rdxRead[r].may =>
            /\ rdxRead[r].used # <<>>
            /\ RdxOwn(rdxRead[r].raws) # {} => Len(rdxRead[r].used) = 2

(* A token stands for one value as long as the session is open, and the    *)
(* two passes over a page write the same tokens unless a setting changed   *)
(* or the session was closed between them.                                 *)
RdxTokens ==
    /\ \A v, w \in DOMAIN rdxAnon.fwd : rdxAnon.fwd[v] = rdxAnon.fwd[w] => v = w
    /\ \A r \in RdxReaders \ {"copy"} :
         rdxRead[r].at = "answered" /\ rdxRead[r].calm =>
             \A i \in DOMAIN RdxPage : IsSuffix(rdxRead[r].messages[i], rdxRead[r].raws[i])

(* A start of the application never allows agents more than they may read  *)
(* now, or than the command under way is about to allow.                   *)
RdxRestartSafe == RdxAllows(RdxLoaded(rdxDisk)) => RdxAllows(rdxMem) \/ rdxPut

(* When nothing is under way the window shows the settings there are, and  *)
(* its pages are redacted as they say, unless a change was made while an   *)
(* answer was on its way that put back an older value.                     *)
RdxWindowAgrees ==
    /\ rdxAsked = <<>> /\ rdxAnswers = <<>> /\ ~rdxAstray =>
         /\ rdxWin \in {RdxUnknown, RdxConfig(rdxMem)}
         /\ rdxPages.held \subseteq {rdxMem.mode = "all"}

(* What is in a page: nothing an agent may not read, and a token stands    *)
(* for one value (anonymizer/mod.rs, the pages of services/lines.rs).      *)
RedactionSound == RdxAgentRaw /\ RdxTokens

(* Whose page is redacted, whatever the detectors find: the settings as    *)
(* they were and are decide over every pass, a restart and the window      *)
(* (services/policy.rs, services/settings.rs, settingsStore.ts).           *)
RdxGateSound == RdxAgentGated /\ RdxRestartSafe /\ RdxWindowAgrees

=============================================================================
