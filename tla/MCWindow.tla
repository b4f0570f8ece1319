------------------------------- MODULE MCWindow -------------------------------
(***************************************************************************)
(* What the window keeps true, on a small instance of each of its parts.   *)
(*                                                                         *)
(* As in MCServices, the behaviours are the sum of the parts': `part' says *)
(* which one runs, and the others stay as they began.                      *)
(***************************************************************************)
EXTENDS MCFilterScan, Analyzers, Tabs, Capture, Viewer, Redaction, DeviceState

VARIABLE part

windowVars == <<part, fscVars, anzVars, tabVars, capVars, vwVars, rdxVars,
                devVars>>

Parts == {"expr", "filter", "analyzers", "tabs", "capture", "viewer",
          "redaction", "device"}

(* Runs of the user or of agents; one with edits on both sides; one with a *)
(* processor that is uninstalled; and edits alone, of which two by agents  *)
(* may be told in the other order.                                         *)
AnalyzerBudgets ==
    {[runs |-> 2, edits |-> 0, agent |-> 0, gone |-> 0],
     [runs |-> 1, edits |-> 1, agent |-> 0, gone |-> 0],
     [runs |-> 1, edits |-> 0, agent |-> 1, gone |-> 0],
     [runs |-> 1, edits |-> 0, agent |-> 0, gone |-> 1],
     [runs |-> 0, edits |-> 1, agent |-> 2, gone |-> 1]}

(* "a" and "r" are the ids of one file under two types, "b" is another.    *)
TabFiles == [i \in TabIds |-> IF i = "b" THEN "b" ELSE "a"]
TabSizes == [i \in TabIds |-> IF i = "a" THEN 3 ELSE 1]
TabBudget(ids, calls, opens, agentCloses, closes, focus) ==
    [ids |-> ids, calls |-> calls, opens |-> opens, agentCloses |-> agentCloses,
     closes |-> closes, focus |-> focus]
TabBudgetSet ==
    {TabBudget({"a", "b"}, 2, 0, 0, 2, 1), TabBudget({"a", "r"}, 2, 0, 0, 1, 0),
     TabBudget({"a"}, 1, 1, 1, 1, 0), TabBudget({"a", "r"}, 1, 1, 1, 0, 0)}

CaptureBudgets ==
    {[starts |-> 2, stops |-> 1, closes |-> 0, agent |-> 0],
     [starts |-> 1, stops |-> 1, closes |-> 1, agent |-> 1]}

ViewerLineSets == {{1, 5, 8}}
ViewerBudget(scrolls, sets, fails, texts, lines) ==
    [scrolls |-> scrolls, sets |-> sets, fails |-> fails, texts |-> texts, lines |-> lines]
ViewerBudgets ==
    {ViewerBudget(2, 0, 1, 0, 0), ViewerBudget(1, 0, 0, 1, 1), ViewerBudget(0, 1, 0, 1, 0),
     ViewerBudget(2, 0, 0, 0, 1), ViewerBudget(1, 1, 0, 0, 0)}

(* Detectors of which one finds the beginning of what the other finds, and *)
(* a line whose message leaves out a value.                                *)
Detectors ==
    <<[finds |-> {<<"u", "at">>, <<"v">>}, cat |-> "E", on |-> TRUE],
      [finds |-> {<<"u", "at", "h">>}, cat |-> "U", on |-> FALSE]>>
RedactedPage ==
    <<[raw |-> <<"v", "u", "at">>, from |-> 2], [raw |-> <<"u", "at", "h">>, from |-> 1]>>
RedactionBudget(reads, sets, fails, closes, crashes, refreshes) ==
    [reads |-> reads, sets |-> sets, fails |-> fails, closes |-> closes,
     crashes |-> crashes, refreshes |-> refreshes]
RedactionBudgets ==
    {RedactionBudget(1, 2, 0, 0, 0, 0), RedactionBudget(1, 1, 1, 0, 1, 0),
     RedactionBudget(0, 3, 1, 0, 0, 1), RedactionBudget(1, 1, 0, 1, 0, 0),
     RedactionBudget(2, 0, 0, 1, 0, 0)}

(* Line n of a device's log has a transition of the nth field.             *)
DeviceFields == <<"f", "g">>
DeviceFinds == {{1}, {1, 2}}
DeviceBudget(runs, batches, edits, picks, moves, looks) ==
    [runs |-> runs, batches |-> batches, edits |-> edits, picks |-> picks, moves |-> moves,
     looks |-> looks]
DeviceBudgets ==
    {DeviceBudget(2, 0, 0, 0, 1, 1), DeviceBudget(1, 0, 0, 1, 2, 0),
     DeviceBudget(0, 2, 0, 1, 0, 0), DeviceBudget(1, 1, 1, 0, 1, 0)}

WindowInit ==
    /\ part \in Parts
    /\ FscInit
    /\ part = "expr" \/ fltExpr = FltText("ab")
    /\ part = "filter" \/ ~fscLive
    /\ AnzInit
    /\ part = "analyzers" \/
         /\ anzChain = AnzEmpty /\ anzTemplate = AnzEmpty /\ anzEvents = <<>>
         /\ anzLeft = CHOOSE b \in AnalyzerBudgets : TRUE
    /\ TabInit
    /\ part = "tabs" \/ tabLeft = CHOOSE b \in TabBudgetSet : TRUE
    /\ CapInit
    /\ part = "capture" \/ capLeft = CHOOSE b \in CaptureBudgets : TRUE
    /\ VwInit
    /\ part = "viewer" \/ vwLeft = CHOOSE b \in ViewerBudgets : TRUE
    /\ RdxInit
    /\ part = "redaction" \/ rdxLeft = CHOOSE b \in RedactionBudgets : TRUE
    /\ DevInit
    /\ part = "device" \/
         /\ ~devLive /\ devChain = <<>>
         /\ devLeft = CHOOSE b \in DeviceBudgets : TRUE

(* What stays as it is when part p takes a step.                           *)
OthersStay(p) ==
    /\ IF p = "filter" THEN TRUE ELSE UNCHANGED fscVars
    /\ IF p = "analyzers" THEN TRUE ELSE UNCHANGED anzVars
    /\ IF p = "tabs" THEN TRUE ELSE UNCHANGED tabVars
    /\ IF p = "capture" THEN TRUE ELSE UNCHANGED capVars
    /\ IF p = "viewer" THEN TRUE ELSE UNCHANGED vwVars
    /\ IF p = "redaction" THEN TRUE ELSE UNCHANGED rdxVars
    /\ IF p = "device" THEN TRUE ELSE UNCHANGED devVars

WindowNext ==
    /\ UNCHANGED part
    /\ OthersStay(part)
    /\ \/ part = "filter" /\ FscNext
       \/ part = "analyzers" /\ AnzNext
       \/ part = "tabs" /\ TabNext
       \/ part = "capture" /\ CapNext
       \/ part = "viewer" /\ VwNext
       \/ part = "redaction" /\ RdxNext
       \/ part = "device" /\ DevNext

WindowSpec == WindowInit /\ [][WindowNext]_windowVars

(* Every variable has its type, whichever part runs.                       *)
WindowTypeOK ==
    CASE part = "expr" -> TRUE
      [] part = "filter" -> FscTypeOK
      [] part = "analyzers" -> AnzTypeOK
      [] part = "tabs" -> TabTypeOK
      [] part = "capture" -> CapTypeOK
      [] part = "viewer" -> VwTypeOK
      [] part = "redaction" -> RdxTypeOK
      [] part = "device" -> DevTypeOK

(* What a filter shows is what its expression wants, whichever side        *)
(* evaluates it: the extraction of criteria and the scan together          *)
(* (query/backendFilter.ts, query/filterScan.ts).                          *)
FiltersSound ==
    /\ part = "expr" => FltExtractSound
    /\ part = "filter" => FscScanSound

=============================================================================
