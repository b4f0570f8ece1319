---------------------------- MODULE Window_proofs ----------------------------
\* Proofs about the stores of the window.
EXTENDS DeviceState, Artifacts, Tabs, FiniteSetTheorems, WellFoundedInduction, TLAPS

----------------------------------------
\* The device state panel.

LEMMA DevLeast ==
    ASSUME NEW S \in SUBSET Nat, S # {}
    PROVE  \E x \in S : \A y \in S : x <= y
<1> DEFINE R == OpToRel(<, Nat)
<1>1. \A x, y \in Nat : y < x => <<y, x>> \in R BY Zenon DEF OpToRel
<1>2. \E x \in S : \A y \in S : ~ (<<y, x>> \in R)
  <2>1. IsWellFoundedOn(R, Nat) BY NatLessThanWellFounded
  <2> HIDE DEF R
  <2> QED BY <2>1, WFMin
<1> HIDE DEF R
<1>3. PICK x \in S : \A y \in S : ~ (<<y, x>> \in R) BY <1>2
<1>4. \A y \in S : ~ (y < x) BY <1>1, <1>3
<1> QED BY <1>4

LEMMA DevMinIsThere ==
    ASSUME NEW S \in SUBSET Nat, S # {}
    PROVE  Min(S) \in S BY DevLeast DEF Min

\* A finite set of numbers has a greatest element: of two, the smaller one
\* has more numbers above it.
LEMMA DevMaxIsThere ==
    ASSUME NEW S \in SUBSET Nat, S # {}, IsFiniteSet(S)
    PROVE  Max(S) \in S /\ \A y \in S : Max(S) >= y
<1> DEFINE Above(x) == {y \in S : y > x}
           Size(x) == Cardinality(Above(x))
           Sizes == {Size(x) : x \in S}
<1>1. \A x \in S : IsFiniteSet(Above(x)) /\ Size(x) \in Nat
  <2> TAKE x \in S
  <2>1. Above(x) \in SUBSET S OBVIOUS
  <2> HIDE DEF Above
  <2> QED BY <2>1, FS_Subset, FS_CardinalityType
<1>2. \A x, y \in S : y > x => Size(y) < Size(x)
  <2> SUFFICES ASSUME NEW x \in S, NEW y \in S, y > x PROVE Size(y) < Size(x) OBVIOUS
  <2>1. Above(y) \in SUBSET Above(x) /\ Above(y) # Above(x)
    <3>1. \A z \in S : z \in Nat OBVIOUS
    <3>2. ASSUME NEW z \in Above(y) PROVE z \in Above(x)
      <4>1. z \in Nat /\ x \in Nat /\ y \in Nat /\ z > y /\ y > x BY <3>1
      <4> QED BY <4>1
    <3>3. y \in Above(x) /\ y \notin Above(y) BY <3>1
    <3> QED BY <3>2, <3>3
  <2>2. IsFiniteSet(Above(x)) /\ Size(x) \in Nat /\ Size(y) \in Nat BY <1>1
  <2> HIDE DEF Above
  <2> QED BY <2>1, <2>2, FS_Subset
<1>3. \E k \in Sizes : \A l \in Sizes : k <= l
  <2>1. Sizes \in SUBSET Nat /\ Sizes # {} BY <1>1
  <2> HIDE DEF Sizes
  <2> QED BY <2>1, DevLeast
<1>4. PICK x \in S : \A y \in S : Size(x) <= Size(y) BY <1>3
<1>5. \A y \in S : x >= y
  <2> SUFFICES ASSUME NEW y \in S, y > x PROVE FALSE OBVIOUS
  <2>1. Size(x) \in Nat /\ Size(y) \in Nat /\ Size(y) < Size(x) /\ Size(x) <= Size(y)
    BY <1>1, <1>2, <1>4
  <2> HIDE DEF Size
  <2> QED BY <2>1
<1> QED BY <1>5 DEF Max

LEMMA DevLinesFacts ==
    ASSUME NEW lines \in SUBSET DevLines, lines # {}
    PROVE  Max(lines) \in lines /\ Min(lines) \in lines /\ \A y \in lines : Max(lines) >= y
<1>1. IsFiniteSet(lines) /\ lines \in SUBSET Nat BY DevAssumption, FS_Subset
<1> QED BY <1>1, DevMaxIsThere, DevMinIsThere

LEMMA DevReplayType ==
    ASSUME NEW lines \in SUBSET DevLines, NEW upto
    PROVE  DevReplay(lines, upto) \in DevSnaps
<1> DEFINE folded == {n \in lines : n <= upto}
           Of(f) == {n \in folded : DevField[n] = f}
           top == IF folded = {} THEN 0 ELSE Max(folded)
           Top(f) == IF Of(f) = {} THEN 0 ELSE Max(Of(f))
<1>1. top \in Nat
  <2>1. folded \in SUBSET DevLines OBVIOUS
  <2> HIDE DEF folded
  <2> QED BY <2>1, DevLinesFacts, DevAssumption
<1>2. \A f \in DevFields : Top(f) \in Nat
  <2> TAKE f \in DevFields
  <2>1. Of(f) \in SUBSET DevLines OBVIOUS
  <2> HIDE DEF Of
  <2> QED BY <2>1, DevLinesFacts, DevAssumption
<1>3. DevReplay(lines, upto) = [at |-> top, fields |-> [f \in DevFields |-> Top(f)]]
  BY DEF DevReplay
<1> HIDE DEF top, Top
<1> QED BY <1>1, <1>2, <1>3 DEF DevSnaps

\* The transition of the line is part of the state at the line.
LEMMA DevReplayHasTheLine ==
    ASSUME NEW lines \in SUBSET DevLines, NEW line \in lines
    PROVE  DevReplay(lines, line).fields[DevField[line]] = line
<1> DEFINE folded == {n \in lines : n <= line}
           Of(f) == {n \in folded : DevField[n] = f}
<1>1. line \in Of(DevField[line]) /\ \A n \in Of(DevField[line]) : n \in Nat /\ n <= line
  BY DevAssumption
<1>2. Max(Of(DevField[line])) = line
  <2>1. Max(Of(DevField[line])) \in Of(DevField[line]) /\ Max(Of(DevField[line])) >= line
    <3>1. Of(DevField[line]) \in SUBSET DevLines /\ Of(DevField[line]) # {} BY <1>1
    <3> HIDE DEF Of
    <3> QED BY <1>1, <3>1, DevLinesFacts
  <2> HIDE DEF Of
  <2> QED BY <1>1, <2>1, DevAssumption
<1>3. DevField[line] \in DevFields BY DEF DevFields
<1>4. DevReplay(lines, line).fields[DevField[line]]
        = IF Of(DevField[line]) = {} THEN 0 ELSE Max(Of(DevField[line])) BY <1>3 DEF DevReplay
<1> HIDE DEF Of
<1> QED BY <1>1, <1>2, <1>4

\* Types.
DevLineSets == (SUBSET DevLines) \cup {DevNone}
DevCaches == [run : Nat, snap : DevSnaps]
DevPanels ==
  [snap : DevSnaps \cup {DevNone}, of : DevTrackers \cup {DevNone}, changes : SUBSET DevFields,
   loading : BOOLEAN, timer : DevAsks \cup {DevNone}, calls : SUBSET DevAsks,
   throttled : BOOLEAN, tracked : BOOLEAN,
   cache : [DevTrackers -> DevCaches \cup {DevNone}]]
DevHistAsks == [run : Nat, answer : DevLineSets \cup {DevFailed}]
DevHists ==
  [made : BOOLEAN, fetched : Nat, lines : SUBSET DevLines, loading : BOOLEAN,
   calls : SUBSET DevHistAsks]

DevStateType ==
  /\ devRuns \in [DevTrackers -> DevLineSets] /\ devStream \in [DevTrackers -> DevLineSets]
  /\ devStored \in Nat /\ devSeen \in 0 .. devStored
  /\ devChain \in DevChains /\ devPick \in DevTrackers \cup {DevNone}
  /\ devLive \in BOOLEAN /\ devCursor \in {DevElsewhere, 0} \cup DevLines /\ devUpdates \in Nat

DevTypeInv ==
  /\ DevStateType
  /\ devPanel \in DevPanels /\ (devPanel.snap = DevNone <=> devPanel.of = DevNone)
  /\ devHist \in [DevTrackers -> DevHists]
  /\ \A t \in DevTrackers : devHist[t].fetched \in 0 .. devSeen

\* What the window has heard of is the last run, and it has the tracker.
DevRan(t) == devSeen = devStored /\ devRuns[t] # DevNone
DevRight(c) == DevRan(c.of) /\ c.answer # DevNone => c.answer = DevStateAt(c.of, c.line)

\* Something was asked for, or is kept, under the run the window knows:
\* nothing older is on its way then.
DevCurrentKeep ==
  \/ \E u \in DevTrackers : devPanel.cache[u] # DevNone /\ devPanel.cache[u].run = devSeen
  \/ devPanel.timer # DevNone /\ devPanel.timer.keep = devSeen
  \/ \E c \in devPanel.calls : c.keep = devSeen

DevAtCursor == ~devLive /\ DevSelected # DevNone /\ devCursor > 0
DevShows(t, line) == devPanel.of = t /\ devPanel.snap = DevStateAt(t, line)

\* Only dumps are kept, under a run that was heard of, none of a capture;
\* what loads is on its way.
DevKeeps(c) == c.keep # DevNone => c.keep \in 0 .. devSeen /\ c.of \in DevDumps
DevKeepInv ==
  /\ devPanel.loading => devPanel.timer # DevNone \/ devPanel.calls # {}
  /\ devPanel.timer # DevNone =>
       ~devLive /\ devPanel.timer.answer = DevNone /\ DevKeeps(devPanel.timer)
  /\ \A c \in devPanel.calls : DevKeeps(c)
  /\ \A u \in DevTrackers : devPanel.cache[u] # DevNone => devPanel.cache[u].run <= devSeen
  /\ devLive => /\ \A u \in DevTrackers : devPanel.cache[u] = DevNone /\ devStream[u] # DevNone
                /\ \A c \in devPanel.calls : c.keep = DevNone
  /\ DevAtCursor => devPanel.tracked

\* What was answered under the last run is the state the run found.
DevAnswerInv ==
  /\ ~devLive /\ (devPanel.tracked \/ DevCurrentKeep) => \A c \in devPanel.calls : DevRight(c)
  /\ devSeen = devStored =>
       \A u \in DevTrackers :
         devPanel.cache[u] # DevNone /\ devPanel.cache[u].run = devSeen /\ devRuns[u] # DevNone =>
           u \in DevDumps /\ devPanel.cache[u].snap = DevStateAt(u, DevNow)

\* At a line of a file the state there is shown or on its way; an answer
\* about another tracker may come first when this one is a dump.
DevCursorInv ==
  DevAtCursor =>
    /\ devPanel.timer # DevNone =>
         devPanel.timer.of = DevSelected /\ devPanel.timer.line = devCursor
    /\ DevSelected \notin DevDumps =>
         /\ \A c \in devPanel.calls : c.of = DevSelected /\ c.line = devCursor
         /\ \/ devPanel.timer # DevNone \/ devPanel.calls # {}
            \/ DevRan(DevSelected) => DevShows(DevSelected, devCursor)
    /\ DevSelected \in DevDumps =>
         \/ devPanel.timer # DevNone \/ \E c \in devPanel.calls : c.of = DevSelected
         \/ DevRan(DevSelected) /\ devPanel.of = DevSelected =>
              devPanel.snap = DevStateAt(DevSelected, devCursor)

\* In a capture the state now is shown or on its way.
DevLiveInv ==
  devLive /\ DevSelected # DevNone =>
    /\ \A c \in devPanel.calls : c.of = DevSelected /\ c.line = DevNow
    /\ devRuns[DevSelected] = DevNone /\ devUpdates = 0 /\ ~devPanel.throttled =>
         /\ \A c \in devPanel.calls :
              c.answer # DevNone => c.answer = DevStateAt(DevSelected, DevNow)
         /\ devPanel.calls # {} \/ DevShows(DevSelected, DevNow)

DevHistInv ==
  \A t \in DevTrackers :
    /\ devHist[t].loading => devHist[t].calls # {}
    /\ ~devHist[t].made =>
         devHist[t].calls = {} /\ ~devHist[t].loading /\ devHist[t].fetched = 0
    /\ devHist[t].made /\ devSeen > 0 =>
         /\ devHist[t].fetched = devSeen
         /\ DevRan(t) =>
              /\ \A c \in devHist[t].calls : c.answer # DevNone => c.answer = devRuns[t]
              /\ devHist[t].calls = {} => devHist[t].lines = devRuns[t]

DevPanelInv == DevKeepInv /\ DevAnswerInv /\ DevCursorInv /\ DevLiveInv
DevInv == DevTypeInv /\ DevPanelInv /\ DevHistInv

----------------------------------------
\* What the operators return.

LEMMA DevSelectType ==
    ASSUME NEW chain \in DevChains, NEW pick \in DevTrackers \cup {DevNone}
    PROVE  /\ DevSelect(chain, pick) \in DevTrackers \cup {DevNone}
           /\ DevSelect(chain, pick) # DevNone =>
                DevSelect(chain, pick) \in DevTrackers /\ DevInChain(chain, DevSelect(chain, pick))
<1>1. PICK n \in Nat : chain \in [1 .. n -> DevTrackers]
  <2>1. Cardinality(DevTrackers) \in Nat BY DevAssumption, FS_CardinalityType
  <2>2. PICK n \in 0 .. Cardinality(DevTrackers) :
          chain \in {c \in [1 .. n -> DevTrackers] : Cardinality({c[i] : i \in 1 .. n}) = n}
    BY Zenon DEF DevChains
  <2>3. n \in Nat BY <2>1, <2>2
  <2>4. chain \in [1 .. n -> DevTrackers] BY Zenon, <2>2
  <2> QED BY <2>3, <2>4
<1>2. CASE n = 0
  <2>1. chain = <<>> \/ 1 \notin DOMAIN chain BY <1>1, <1>2
  <2>2. DOMAIN chain = {} BY <1>1, <1>2
  <2>3. chain = <<>> BY <1>1, <1>2, <2>2
  <2> QED BY <1>1, <2>2, <2>3, DevNoneAssumption DEF DevSelect, DevInChain
<1>3. CASE n > 0
  <2>1. 1 \in DOMAIN chain /\ chain[1] \in DevTrackers BY <1>1, <1>3
  <2> QED BY <1>1, <2>1, DevNoneAssumption DEF DevSelect, DevInChain
<1> QED BY <1>1, <1>2, <1>3

LEMMA DevStateAtType ==
    ASSUME DevStateType, NEW t \in DevTrackers, NEW line
    PROVE  /\ DevStateAt(t, line) \in DevSnaps \cup {DevFailed} /\ DevStateAt(t, line) # DevNone
           /\ DevResolve(t) # DevNone => DevStateAt(t, line) \in DevSnaps
<1>1. DevResolve(t) \in DevLineSets BY DEF DevStateType, DevResolve
<1>2. ASSUME DevResolve(t) # DevNone PROVE DevStateAt(t, line) \in DevSnaps
  <2>1. DevResolve(t) \in SUBSET DevLines BY Zenon, <1>1, <1>2 DEF DevLineSets
  <2>2. \A upto : DevReplay(DevResolve(t), upto) \in DevSnaps BY <2>1, DevReplayType
  <2> QED BY <1>2, <2>2 DEF DevStateAt
<1> QED BY <1>2, DevNoneAssumption DEF DevStateAt

\* A snapshot is neither nothing nor a failure.
LEMMA DevSnapIsSome ==
    ASSUME NEW snap \in DevSnaps
    PROVE  snap # DevNone /\ snap # DevFailed BY DevNoneAssumption

LEMMA DevAskIsSome ==
    ASSUME NEW ask \in DevAsks
    PROVE  ask # DevNone BY DevNoneAssumption

LEMMA DevLinesAreSome ==
    ASSUME NEW lines \in SUBSET DevLines
    PROVE  lines # DevNone /\ lines # DevFailed BY DevNoneAssumption

LEMMA DevDiffType ==
    ASSUME NEW p, NEW t, NEW snap
    PROVE  DevDiff(p, t, snap) \in SUBSET DevFields BY DEF DevDiff

LEMMA DevApplyFields ==
    ASSUME NEW p \in DevPanels, NEW t \in DevTrackers, NEW snap \in DevSnaps
    PROVE  LET e == DevApply(p, t, snap) IN
           /\ e \in DevPanels /\ (e.snap = DevNone <=> e.of = DevNone)
           /\ e.snap = snap /\ e.of = t /\ ~e.loading
           /\ e.timer = p.timer /\ e.calls = p.calls /\ e.cache = p.cache
           /\ e.tracked = p.tracked /\ e.throttled = p.throttled
<1> DEFINE e == DevApply(p, t, snap)
<1> DEFINE diff == DevDiff(p, t, snap)
<1>1. diff \in SUBSET DevFields BY DevDiffType
<1>2. e = [p EXCEPT !.changes = diff, !.snap = snap, !.loading = FALSE, !.of = t] BY DEF DevApply
<1>3. snap # DevNone /\ t # DevNone BY DevNoneAssumption
<1> HIDE DEF diff, e
<1>4. /\ e \in DevPanels /\ (e.snap = DevNone <=> e.of = DevNone)
      /\ e.snap = snap /\ e.of = t /\ ~e.loading
      /\ e.timer = p.timer /\ e.calls = p.calls /\ e.cache = p.cache
      /\ e.tracked = p.tracked /\ e.throttled = p.throttled BY <1>1, <1>2, <1>3 DEF DevPanels
<1> QED BY <1>4 DEF e

LEMMA DevClearFields ==
    ASSUME NEW p \in DevPanels
    PROVE  LET e == DevClear(p) IN
           /\ e \in DevPanels /\ (e.snap = DevNone <=> e.of = DevNone)
           /\ e.of = DevNone /\ ~e.loading
           /\ e.timer = p.timer /\ e.calls = p.calls /\ e.cache = p.cache
           /\ e.tracked = p.tracked /\ e.throttled = p.throttled BY DEF DevClear, DevPanels

LEMMA DevAskType ==
    ASSUME NEW t \in DevTrackers, NEW line \in DevLines \cup {DevNow}, NEW keep \in Nat \cup {DevNone}
    PROVE  /\ DevAsk(t, line, keep) \in DevAsks
           /\ DevAsk(t, line, keep).of = t /\ DevAsk(t, line, keep).line = line
           /\ DevAsk(t, line, keep).keep = keep /\ DevAsk(t, line, keep).answer = DevNone
BY DEF DevAsk, DevAsks

LEMMA DevFetchFields ==
    ASSUME NEW p \in DevPanels, p.snap = DevNone <=> p.of = DevNone,
           NEW t \in DevTrackers
    PROVE  LET e == DevFetchNow(p, t) IN
           /\ e \in DevPanels /\ (e.snap = DevNone <=> e.of = DevNone)
           /\ e.snap = p.snap /\ e.of = p.of /\ e.loading
           /\ e.timer = p.timer /\ e.calls = {DevAsk(t, DevNow, DevNone)} /\ e.cache = p.cache
           /\ e.tracked = p.tracked /\ e.throttled = p.throttled
<1> DEFINE e == DevFetchNow(p, t)
           q == [p EXCEPT !.calls = {}]
           ask == DevAsk(t, DevNow, DevNone)
<1>1. ask \in DevAsks BY DevAskType
<1>2. e = [q EXCEPT !.loading = TRUE, !.calls = @ \cup {ask}] BY DEF DevFetchNow, DevBump
<1>3. q \in DevPanels /\ q.snap = p.snap /\ q.of = p.of /\ q.timer = p.timer /\ q.calls = {}
      /\ q.cache = p.cache /\ q.tracked = p.tracked /\ q.throttled = p.throttled BY DEF DevPanels
<1> HIDE DEF ask, e, q
<1>4. /\ e \in DevPanels /\ e.snap = q.snap /\ e.of = q.of /\ e.loading
      /\ e.timer = q.timer /\ e.calls = {ask} /\ e.cache = q.cache
      /\ e.tracked = q.tracked /\ e.throttled = q.throttled BY <1>1, <1>2, <1>3 DEF DevPanels
<1>5. /\ e \in DevPanels /\ (e.snap = DevNone <=> e.of = DevNone)
      /\ e.snap = p.snap /\ e.of = p.of /\ e.loading
      /\ e.timer = p.timer /\ e.calls = {ask} /\ e.cache = p.cache
      /\ e.tracked = p.tracked /\ e.throttled = p.throttled BY <1>3, <1>4
<1> QED BY <1>5 DEF e, ask

\* What the cursor's effect makes of a panel, by its paths.
DevPathElsewhere(p, e, t, cursor, live) ==
  /\ cursor = DevElsewhere /\ ~live /\ t # DevNone
  /\ e.timer = p.timer /\ e.calls = p.calls /\ ~e.tracked /\ e.loading = p.loading
DevPathLive(p, e, live) ==
  /\ live /\ e.timer = DevNone /\ e.calls = p.calls /\ ~e.tracked /\ e.loading = p.loading
  /\ e.snap = p.snap /\ e.of = p.of
DevPathNone(p, e, t, live) ==
  /\ ~live /\ t = DevNone /\ e.timer = DevNone /\ e.calls = p.calls /\ ~e.tracked /\ ~e.loading
DevPathIdle(p, e, cursor, live) ==
  /\ ~live /\ cursor <= 0 /\ e.timer = DevNone /\ e.calls = p.calls /\ ~e.tracked
  /\ e.loading <=> p.loading /\ p.timer = DevNone
DevPathKept(p, e, t, cursor, live, run) ==
  /\ ~live /\ t \in DevDumps /\ cursor > 0 /\ e.tracked /\ ~e.loading
  /\ p.cache[t] # DevNone /\ p.cache[t].run = run
  /\ e.timer = DevNone /\ e.calls = p.calls /\ e.of = t /\ e.snap = p.cache[t].snap
DevPathArmed(p, e, t, cursor, live, run) ==
  /\ ~live /\ t # DevNone /\ cursor > 0 /\ e.tracked /\ e.loading /\ e.calls = {}
  /\ e.timer \in DevAsks /\ e.timer.of = t /\ e.timer.line = cursor /\ e.timer.answer = DevNone
  /\ e.timer.keep = IF t \in DevDumps THEN run ELSE DevNone

LEMMA DevCursorEffectFields ==
    ASSUME NEW p \in DevPanels, p.snap = DevNone <=> p.of = DevNone,
           NEW t \in DevTrackers \cup {DevNone}, NEW cursor \in {DevElsewhere, 0} \cup DevLines,
           NEW live \in BOOLEAN, NEW run \in Nat,
           NEW e, e = DevCursorEffect(p, t, cursor, live, run)
    PROVE  /\ e \in DevPanels /\ (e.snap = DevNone <=> e.of = DevNone)
           /\ e.cache = p.cache /\ e.throttled = p.throttled
           /\ \/ DevPathElsewhere(p, e, t, cursor, live) \/ DevPathLive(p, e, live)
              \/ DevPathNone(p, e, t, live) \/ DevPathIdle(p, e, cursor, live)
              \/ DevPathKept(p, e, t, cursor, live, run) \/ DevPathArmed(p, e, t, cursor, live, run)
<1> DEFINE q == [p EXCEPT !.timer = DevNone, !.tracked = FALSE]
<1>0. cursor \in Int BY DevAssumption DEF DevElsewhere
<1>1. CASE cursor = DevElsewhere /\ ~live /\ t # DevNone
  <2>1. e = [p EXCEPT !.tracked = FALSE] BY <1>1 DEF DevCursorEffect
  <2>2. e \in DevPanels /\ e.snap = p.snap /\ e.of = p.of
        /\ e.cache = p.cache /\ e.throttled = p.throttled
        /\ e.timer = p.timer /\ e.calls = p.calls /\ ~e.tracked /\ e.loading = p.loading
    BY <2>1 DEF DevPanels
  <2> QED BY <1>1, <2>2 DEF DevPathElsewhere
<1>2. CASE live
  <2>1. e = q BY <1>2 DEF DevCursorEffect
  <2>2. e \in DevPanels /\ e.snap = p.snap /\ e.of = p.of
        /\ e.cache = p.cache /\ e.throttled = p.throttled
        /\ e.timer = DevNone /\ e.calls = p.calls /\ ~e.tracked /\ e.loading = p.loading
    BY <2>1 DEF DevPanels
  <2> QED BY <1>2, <2>2 DEF DevPathLive
<1>3. CASE ~live /\ t = DevNone
  <2>1. e = DevClear(q) BY <1>3 DEF DevCursorEffect
  <2>2. q \in DevPanels /\ q.cache = p.cache /\ q.throttled = p.throttled
        /\ q.timer = DevNone /\ q.calls = p.calls /\ ~q.tracked BY DEF DevPanels
  <2> HIDE DEF q
  <2>3. e \in DevPanels /\ (e.snap = DevNone <=> e.of = DevNone) /\ ~e.loading
        /\ e.timer = q.timer /\ e.calls = q.calls /\ e.cache = q.cache
        /\ e.tracked = q.tracked /\ e.throttled = q.throttled BY <2>1, <2>2, DevClearFields
  <2> QED BY <1>3, <2>2, <2>3 DEF DevPathNone
<1>4. CASE ~live /\ t # DevNone /\ cursor # DevElsewhere /\ cursor <= 0
  <2>1. e = [q EXCEPT !.loading = @ /\ p.timer = DevNone] BY <1>4 DEF DevCursorEffect
  <2>2. q \in DevPanels /\ q.snap = p.snap /\ q.of = p.of
        /\ q.cache = p.cache /\ q.throttled = p.throttled
        /\ q.timer = DevNone /\ q.calls = p.calls /\ ~q.tracked /\ q.loading = p.loading
    BY DEF DevPanels
  <2> HIDE DEF q
  <2>3. e.snap = q.snap /\ e.of = q.of
        /\ e.cache = q.cache /\ e.throttled = q.throttled
        /\ e.timer = q.timer /\ e.calls = q.calls /\ e.tracked = q.tracked
    BY <2>1, <2>2 DEF DevPanels
  <2>4. e.loading = (q.loading /\ p.timer = DevNone) /\ e \in DevPanels
    <3> DEFINE l == q.loading /\ p.timer = DevNone
    <3>1. e = [q EXCEPT !.loading = l] /\ l \in BOOLEAN BY <2>1
    <3> HIDE DEF l
    <3>2. e.loading = l /\ e \in DevPanels BY <2>2, <3>1 DEF DevPanels
    <3> QED BY <3>2 DEF l
  <2>5. e.loading <=> p.loading /\ p.timer = DevNone BY <2>2, <2>4
  <2> QED BY <1>4, <2>2, <2>3, <2>4, <2>5 DEF DevPathIdle
<1>5. CASE ~live /\ t # DevNone /\ cursor > 0
  <2> DEFINE r == [q EXCEPT !.tracked = TRUE]
  <2>0. t \in DevTrackers /\ cursor \in DevLines BY <1>0, <1>5 DEF DevElsewhere
  <2>1. CASE t \in DevDumps /\ p.cache[t] # DevNone /\ p.cache[t].run = run
    <3>1. e = DevApply(r, t, p.cache[t].snap) BY <1>0, <1>5, <2>1 DEF DevCursorEffect, DevElsewhere
    <3>2. r \in DevPanels /\ r.cache = p.cache /\ r.throttled = p.throttled
          /\ r.timer = DevNone /\ r.calls = p.calls /\ r.tracked BY DEF DevPanels
    <3>3. p.cache[t].snap \in DevSnaps
      <4>1. p.cache[t] \in DevCaches \cup {DevNone} BY <2>0 DEF DevPanels
      <4> QED BY <2>1, <4>1 DEF DevCaches
    <3> HIDE DEF r
    <3>5. PICK snap \in DevSnaps : snap = p.cache[t].snap BY <3>3
    <3>6. DevApply(r, t, snap) = e BY <3>1, <3>5
    <3>4. /\ e \in DevPanels /\ (e.snap = DevNone <=> e.of = DevNone)
          /\ e.snap = snap /\ e.of = t /\ ~e.loading
          /\ e.timer = r.timer /\ e.calls = r.calls /\ e.cache = r.cache
          /\ e.tracked = r.tracked /\ e.throttled = r.throttled
      <4> DEFINE x == DevApply(r, t, snap)
      <4>1. r \in DevPanels /\ t \in DevTrackers BY <2>0, <3>2
      <4>2. /\ x \in DevPanels /\ (x.snap = DevNone <=> x.of = DevNone)
            /\ x.snap = snap /\ x.of = t /\ ~x.loading
            /\ x.timer = r.timer /\ x.calls = r.calls /\ x.cache = r.cache
            /\ x.tracked = r.tracked /\ x.throttled = r.throttled BY Zenon, <4>1, DevApplyFields
      <4>3. x = e BY <3>6
      <4> HIDE DEF x
      <4> QED BY <4>2, <4>3
    <3> QED BY <1>5, <2>1, <3>2, <3>4, <3>5 DEF DevPathKept
  <2>2. CASE ~ (t \in DevDumps /\ p.cache[t] # DevNone /\ p.cache[t].run = run)
    <3> DEFINE keep == IF t \in DevDumps THEN run ELSE DevNone
               ask == DevAsk(t, cursor, keep)
    <3>1. e = [[q EXCEPT !.calls = {}] EXCEPT !.tracked = TRUE, !.loading = TRUE, !.timer = ask]
      BY <1>0, <1>5, <2>2 DEF DevCursorEffect, DevElsewhere, DevBump
    <3>2. ask \in DevAsks /\ ask.of = t /\ ask.line = cursor /\ ask.keep = keep
          /\ ask.answer = DevNone
      <4>1. keep \in Nat \cup {DevNone} OBVIOUS
      <4> HIDE DEF keep
      <4> QED BY <2>0, <4>1, DevAskType
    <3> HIDE DEF ask
    <3>3. e \in DevPanels /\ e.snap = p.snap /\ e.of = p.of
          /\ e.cache = p.cache /\ e.throttled = p.throttled
          /\ e.timer = ask /\ e.calls = {} /\ e.tracked /\ e.loading BY <3>1, <3>2 DEF DevPanels
    <3> QED BY <1>5, <3>2, <3>3 DEF DevPathArmed
  <2> QED BY <2>1, <2>2
<1> QED BY <1>0, <1>1, <1>2, <1>3, <1>4, <1>5

----------------------------------------
\* A flush of the two effects.

\* What may move in it: the cursor, the chain, the pick, and one of: the
\* window hears of the last run, the capture ends.
DevMoves(moved) ==
  /\ UNCHANGED <<devRuns, devStream, devStored, devUpdates>>
  /\ devSeen' = devSeen \/ (devSeen < devStored /\ devSeen' = devStored)
  /\ devLive' = devLive \/ (devLive /\ ~devLive')
  /\ devCursor' = devCursor \/ moved

\* What it leaves: the panel, what the first effect makes of it in a
\* capture, or what the second makes of it.
DevFlushedLive(t) ==
  /\ devLive' /\ devLive /\ devPanel'.timer = DevNone /\ ~devPanel'.tracked
  /\ \/ t # DevNone /\ devPanel'.calls = {DevAsk(t, DevNow, DevNone)}
     \/ t = DevNone /\ ~devPanel'.loading /\ devPanel'.calls = devPanel.calls
     \/ /\ t = DevSelected
        /\ devPanel'.calls = devPanel.calls /\ devPanel'.loading = devPanel.loading
        /\ devPanel'.snap = devPanel.snap /\ devPanel'.of = devPanel.of

DevFlushedStill(t) ==
  /\ devPanel' = devPanel /\ t = DevSelected /\ devLive' = devLive /\ devCursor' = devCursor
  /\ devPanel.tracked => devSeen' = devSeen

DevFlushedFile(t) ==
  /\ ~devLive'
  /\ \/ DevPathElsewhere(devPanel, devPanel', t, devCursor', devLive')
     \/ DevPathNone(devPanel, devPanel', t, devLive')
     \/ DevPathIdle(devPanel, devPanel', devCursor', devLive')
     \/ DevPathKept(devPanel, devPanel', t, devCursor', devLive', devSeen')
     \/ DevPathArmed(devPanel, devPanel', t, devCursor', devLive', devSeen')

\* What an effect on the cursor leaves behind, the way it took named by one operator.
DevPaths(p, e, t, cursor, live, run) ==
    \/ DevPathElsewhere(p, e, t, cursor, live) \/ DevPathLive(p, e, live)
    \/ DevPathNone(p, e, t, live) \/ DevPathIdle(p, e, cursor, live)
    \/ DevPathKept(p, e, t, cursor, live, run) \/ DevPathArmed(p, e, t, cursor, live, run)

LEMMA DevCursorEffectPaths ==
    ASSUME NEW p, p \in DevPanels, p.snap = DevNone <=> p.of = DevNone,
           NEW t, t \in DevTrackers \cup {DevNone},
           NEW cursor, cursor \in {DevElsewhere, 0} \cup DevLines,
           NEW live, live \in BOOLEAN, NEW run, run \in Nat,
           NEW e, e = DevCursorEffect(p, t, cursor, live, run)
    PROVE  /\ e \in DevPanels /\ (e.snap = DevNone <=> e.of = DevNone)
           /\ e.cache = p.cache /\ e.throttled = p.throttled
           /\ DevPaths(p, e, t, cursor, live, run) BY DevCursorEffectFields DEF DevPaths

LEMMA DevReactFields ==
    ASSUME DevTypeInv, DevStateType', NEW moved \in BOOLEAN, DevMoves(moved), DevReact(moved)
    PROVE  /\ devPanel' \in DevPanels /\ (devPanel'.snap = DevNone <=> devPanel'.of = DevNone)
           /\ devPanel'.cache = devPanel.cache /\ devPanel'.throttled = devPanel.throttled
           /\ DevFlushedLive(DevSelected') \/ DevFlushedStill(DevSelected')
                \/ DevFlushedFile(DevSelected')
<1> DEFINE t == DevSelected'
           switched == t # DevSelected \/ devLive' # devLive
           p == IF switched /\ devLive' THEN DevLiveEffect(devPanel, t) ELSE devPanel
           read == devPanel.tracked /\ (devChain' # devChain \/ devSeen' # devSeen)
<1>1. devPanel' = IF switched \/ moved \/ read
                  THEN DevCursorEffect(p, t, devCursor', devLive', devSeen') ELSE p
  BY DEF DevReact, DevSelected
<1>2. t \in DevTrackers \cup {DevNone}
  <2>1. devChain' \in DevChains /\ devPick' \in DevTrackers \cup {DevNone} BY DEF DevStateType
  <2> QED BY <2>1, DevSelectType DEF DevSelected
<1>3. /\ devPanel \in DevPanels /\ (devPanel.snap = DevNone <=> devPanel.of = DevNone)
      /\ devLive \in BOOLEAN /\ devLive' \in BOOLEAN /\ devSeen' \in Nat
      /\ devCursor' \in {DevElsewhere, 0} \cup DevLines BY DEF DevTypeInv, DevStateType
<1> HIDE DEF t
<1>4. CASE ~ (switched \/ moved \/ read)
  <2>1. devPanel' = devPanel /\ t = DevSelected /\ devLive' = devLive /\ devCursor' = devCursor
    BY <1>1, <1>4 DEF DevMoves
  <2>2. devPanel.tracked => devSeen' = devSeen BY <1>4
  <2> QED BY <1>3, <2>1, <2>2 DEF DevFlushedStill, t
<1>5. CASE (switched \/ moved \/ read) /\ ~devLive'
  <2>1. devPanel' = DevCursorEffect(devPanel, t, devCursor', devLive', devSeen') BY <1>1, <1>5
  <2>2. /\ devPanel' \in DevPanels /\ (devPanel'.snap = DevNone <=> devPanel'.of = DevNone)
        /\ devPanel'.cache = devPanel.cache /\ devPanel'.throttled = devPanel.throttled
        /\ \/ DevPathElsewhere(devPanel, devPanel', t, devCursor', devLive')
           \/ DevPathLive(devPanel, devPanel', devLive')
           \/ DevPathNone(devPanel, devPanel', t, devLive')
           \/ DevPathIdle(devPanel, devPanel', devCursor', devLive')
           \/ DevPathKept(devPanel, devPanel', t, devCursor', devLive', devSeen')
           \/ DevPathArmed(devPanel, devPanel', t, devCursor', devLive', devSeen')
    BY <1>2, <1>3, <2>1, DevCursorEffectFields
  <2>3. ~DevPathLive(devPanel, devPanel', devLive') BY <1>5 DEF DevPathLive
  <2> QED BY Zenon, <1>5, <2>2, <2>3 DEF DevFlushedFile, t
<1>6. CASE (switched \/ moved \/ read) /\ devLive'
  <2>0. devLive BY <1>3, <1>6 DEF DevMoves
  <2>1. devPanel' = DevCursorEffect(p, t, devCursor', devLive', devSeen') BY <1>1, <1>6
  <2>2. /\ p \in DevPanels /\ (p.snap = DevNone <=> p.of = DevNone)
        /\ p.cache = devPanel.cache /\ p.throttled = devPanel.throttled
        /\ \/ t # DevNone /\ p.calls = {DevAsk(t, DevNow, DevNone)}
           \/ t = DevNone /\ ~p.loading /\ p.calls = devPanel.calls
           \/ t = DevSelected /\ p = devPanel
    <3>1. CASE switched /\ t # DevNone
      <4>1. p = DevFetchNow(devPanel, t) /\ t \in DevTrackers BY <1>2, <1>6, <3>1 DEF DevLiveEffect
      <4> DEFINE x == DevFetchNow(devPanel, t)
      <4>2. /\ x \in DevPanels /\ (x.snap = DevNone <=> x.of = DevNone)
            /\ x.calls = {DevAsk(t, DevNow, DevNone)} /\ x.cache = devPanel.cache
            /\ x.throttled = devPanel.throttled BY Zenon, <1>3, <4>1, DevFetchFields
      <4>3. p = x BY <4>1
      <4> HIDE DEF p, x
      <4> QED BY <3>1, <4>2, <4>3
    <3>2. CASE switched /\ t = DevNone
      <4>1. p = DevClear(devPanel) BY <1>6, <3>2 DEF DevLiveEffect
      <4> DEFINE x == DevClear(devPanel)
      <4>2. /\ x \in DevPanels /\ (x.snap = DevNone <=> x.of = DevNone)
            /\ ~x.loading /\ x.calls = devPanel.calls /\ x.cache = devPanel.cache
            /\ x.throttled = devPanel.throttled BY Zenon, <1>3, DevClearFields
      <4>3. p = x BY <4>1
      <4> HIDE DEF p, x
      <4> QED BY <3>2, <4>2, <4>3
    <3>3. CASE ~switched BY <1>3, <3>3
    <3> QED BY <3>1, <3>2, <3>3
  <2> HIDE DEF p
  <2>3. /\ devPanel' \in DevPanels /\ (devPanel'.snap = DevNone <=> devPanel'.of = DevNone)
        /\ devPanel'.cache = p.cache /\ devPanel'.throttled = p.throttled
        /\ \/ DevPathElsewhere(p, devPanel', t, devCursor', devLive')
           \/ DevPathLive(p, devPanel', devLive')
           \/ DevPathNone(p, devPanel', t, devLive')
           \/ DevPathIdle(p, devPanel', devCursor', devLive')
           \/ DevPathKept(p, devPanel', t, devCursor', devLive', devSeen')
           \/ DevPathArmed(p, devPanel', t, devCursor', devLive', devSeen')
    <3>1. p \in DevPanels /\ (p.snap = DevNone <=> p.of = DevNone) BY <2>2
    <3>2. devCursor' \in {DevElsewhere, 0} \cup DevLines /\ devLive' \in BOOLEAN /\ devSeen' \in Nat
      BY <1>3
    <3>3. t \in DevTrackers \cup {DevNone} BY <1>2
    <3>4. PICK cursor, live, run, e :
            cursor = devCursor' /\ live = devLive' /\ run = devSeen' /\ e = devPanel'
      OBVIOUS
    <3>5. cursor \in {DevElsewhere, 0} \cup DevLines /\ live \in BOOLEAN /\ run \in Nat
      BY <3>2, <3>4
    <3>6. e = DevCursorEffect(p, t, cursor, live, run) BY <2>1, <3>4
    <3>7. /\ e \in DevPanels /\ (e.snap = DevNone <=> e.of = DevNone)
          /\ e.cache = p.cache /\ e.throttled = p.throttled
          /\ DevPaths(p, e, t, cursor, live, run) BY <3>1, <3>3, <3>5, <3>6, DevCursorEffectPaths
    <3> QED BY <3>4, <3>7 DEF DevPaths
  <2>4. DevPathLive(p, devPanel', devLive')
    BY <1>6, <2>3 DEF DevPathElsewhere, DevPathNone, DevPathIdle, DevPathKept, DevPathArmed
  <2>5. DevFlushedLive(t) BY <1>6, <2>0, <2>2, <2>4 DEF DevPathLive, DevFlushedLive
  <2> QED BY <2>2, <2>3, <2>5 DEF t
<1> QED BY <1>4, <1>5, <1>6

LEMMA DevStateStays ==
    ASSUME UNCHANGED <<devRuns, devStream>>, NEW t, NEW line
    PROVE  DevStateAt(t, line)' = DevStateAt(t, line) BY DEF DevStateAt, DevResolve

LEMMA DevReactKeepInv ==
    ASSUME DevTypeInv, DevKeepInv, DevStateType', NEW moved \in BOOLEAN,
           DevMoves(moved), DevReact(moved)
    PROVE  DevKeepInv'
<1> DEFINE t == DevSelected'
<1>1. /\ devPanel' \in DevPanels /\ devPanel'.cache = devPanel.cache
      /\ DevFlushedLive(t) \/ DevFlushedStill(t) \/ DevFlushedFile(t) BY Zenon, DevReactFields
<1>2. /\ devSeen \in Nat /\ devSeen' \in Nat /\ devSeen <= devSeen'
      /\ devLive \in BOOLEAN /\ devLive' \in BOOLEAN /\ (devLive' => devLive)
      /\ devCursor' \in Int /\ devStream' = devStream
  BY DevAssumption DEF DevTypeInv, DevStateType, DevMoves, DevElsewhere
<1>3. \A c : DevKeeps(c) => DevKeeps(c)'
  <2> TAKE c
  <2>1. 0 .. devSeen \subseteq 0 .. devSeen' BY <1>2
  <2> QED BY <2>1 DEF DevKeeps
<1>4. \A u \in DevTrackers : devPanel.cache[u] # DevNone =>
        devPanel.cache[u].run <= devSeen /\ devPanel.cache[u].run \in Nat
  <2> TAKE u \in DevTrackers
  <2>1. devPanel.cache[u] \in DevCaches \cup {DevNone} BY DEF DevTypeInv, DevPanels
  <2> QED BY <2>1 DEF DevKeepInv, DevCaches
<1>5. \A u \in DevTrackers : devPanel'.cache[u] # DevNone => devPanel'.cache[u].run <= devSeen'
  BY <1>1, <1>2, <1>4
<1>6. t \in DevTrackers \cup {DevNone}
  <2>1. devChain' \in DevChains /\ devPick' \in DevTrackers \cup {DevNone} BY DEF DevStateType
  <2> QED BY <2>1, DevSelectType DEF DevSelected
<1>7. DevAtCursor' <=> ~devLive' /\ t # DevNone /\ devCursor' > 0 BY DEF DevAtCursor
<1> HIDE DEF t
<1>8. CASE DevFlushedLive(t)
  <2>1. devLive' /\ devLive /\ devPanel'.timer = DevNone BY <1>8 DEF DevFlushedLive
  <2>2. devPanel'.loading => devPanel'.calls # {} BY <1>2, <1>8, <2>1 DEF DevFlushedLive, DevKeepInv
  <2>3. \A c \in devPanel'.calls : c.keep = DevNone
    <3>1. \A c \in devPanel.calls : c.keep = DevNone BY <2>1 DEF DevKeepInv
    <3>2. t # DevNone => DevAsk(t, DevNow, DevNone).keep = DevNone BY DEF DevAsk
    <3> QED BY <1>8, <3>1, <3>2 DEF DevFlushedLive
  <2>4. \A c \in devPanel'.calls : DevKeeps(c)' BY <2>3 DEF DevKeeps
  <2>5. \A u \in DevTrackers : devPanel'.cache[u] = DevNone /\ devStream'[u] # DevNone
    BY <1>1, <1>2, <2>1 DEF DevKeepInv
  <2> QED BY <1>5, <1>7, <2>1, <2>2, <2>3, <2>4, <2>5 DEF DevKeepInv
<1>9. CASE DevFlushedStill(t)
  <2>1. devPanel' = devPanel /\ t = DevSelected /\ devLive' = devLive /\ devCursor' = devCursor
    BY <1>9 DEF DevFlushedStill
  <2>2. DevAtCursor' <=> DevAtCursor BY <1>7, <2>1 DEF DevAtCursor
  <2> QED BY <1>2, <1>3, <1>5, <2>1, <2>2 DEF DevKeepInv
<1>10. CASE DevFlushedFile(t)
  <2>1. ~devLive' BY <1>10 DEF DevFlushedFile
  <2>2. CASE DevPathArmed(devPanel, devPanel', t, devCursor', devLive', devSeen')
    <3>1. devPanel'.timer # DevNone /\ devPanel'.calls = {} /\ devPanel'.tracked
          /\ devPanel'.timer.answer = DevNone BY <2>2, DevAskIsSome DEF DevPathArmed
    <3>2. DevKeeps(devPanel.timer)'
      <4>1. devPanel'.timer.of = t
            /\ devPanel'.timer.keep = IF t \in DevDumps THEN devSeen' ELSE DevNone
        BY <2>2 DEF DevPathArmed
      <4>2. devSeen' \in 0 .. devSeen' BY <1>2
      <4> QED BY <4>1, <4>2 DEF DevKeeps
    <3> QED BY <1>5, <2>1, <3>1, <3>2 DEF DevKeepInv
  <2>3. CASE ~DevPathArmed(devPanel, devPanel', t, devCursor', devLive', devSeen')
    <3>1. devPanel'.calls = devPanel.calls
          /\ (devPanel'.timer = DevNone \/ devPanel'.timer = devPanel.timer)
      BY <1>10, <2>3 DEF DevFlushedFile, DevPathElsewhere, DevPathNone, DevPathIdle, DevPathKept
    <3>2. devPanel'.loading => devPanel'.timer # DevNone \/ devPanel'.calls # {}
      <4>1. devPanel'.loading =>
              devPanel.loading /\ (devPanel'.timer = devPanel.timer \/ devPanel.timer = DevNone)
        BY <1>10, <2>3 DEF DevFlushedFile, DevPathElsewhere, DevPathNone, DevPathIdle, DevPathKept
      <4> QED BY <3>1, <4>1 DEF DevKeepInv
    <3>3. DevAtCursor' => devPanel'.tracked BY <1>2, <1>7, <1>10, <2>3 DEF DevFlushedFile,
         DevPathElsewhere, DevPathNone, DevPathIdle, DevPathKept, DevElsewhere
    <3>4. devPanel'.timer # DevNone =>
            devPanel'.timer.answer = DevNone /\ DevKeeps(devPanel.timer)'
      BY <1>3, <3>1 DEF DevKeepInv
    <3>5. \A c \in devPanel'.calls : DevKeeps(c)' BY <1>3, <3>1 DEF DevKeepInv
    <3> QED BY <1>5, <2>1, <3>2, <3>3, <3>4, <3>5 DEF DevKeepInv
  <2> QED BY <2>2, <2>3
<1> QED BY <1>1, <1>8, <1>9, <1>10

LEMMA DevReactAnswerInv ==
    ASSUME DevTypeInv, DevKeepInv, DevAnswerInv, DevStateType', NEW moved \in BOOLEAN,
           DevMoves(moved), DevReact(moved)
    PROVE  DevAnswerInv'
<1> DEFINE t == DevSelected'
<1>1. /\ devPanel' \in DevPanels /\ devPanel'.cache = devPanel.cache
      /\ DevFlushedLive(t) \/ DevFlushedStill(t) \/ DevFlushedFile(t) BY Zenon, DevReactFields
<1>2. /\ devSeen \in Nat /\ devSeen' \in Nat /\ devStored \in Nat
      /\ devSeen' = devSeen \/ devSeen < devSeen'
      /\ devLive \in BOOLEAN /\ devLive' \in BOOLEAN /\ (devLive' => devLive)
      /\ devStored' = devStored /\ devRuns' = devRuns BY DEF DevTypeInv, DevStateType, DevMoves
<1>3. \A u, line : DevStateAt(u, line)' = DevStateAt(u, line) BY DevStateStays DEF DevMoves
<1>4. ASSUME devSeen' = devSeen PROVE \A c : DevRight(c) => DevRight(c)'
  BY <1>2, <1>3, <1>4 DEF DevRight, DevRan
<1>5. \A u \in DevTrackers : devPanel.cache[u] # DevNone =>
        ~devLive /\ devPanel.cache[u].run <= devSeen /\ devPanel.cache[u].run \in Nat
  <2> TAKE u \in DevTrackers
  <2>1. devPanel.cache[u] \in DevCaches \cup {DevNone} BY DEF DevTypeInv, DevPanels
  <2> QED BY <2>1 DEF DevKeepInv, DevCaches
<1>6. ASSUME devSeen' = devStored', NEW u \in DevTrackers, devPanel'.cache[u] # DevNone,
             devPanel'.cache[u].run = devSeen', devRuns'[u] # DevNone
      PROVE  u \in DevDumps /\ devPanel'.cache[u].snap = DevStateAt(u, DevNow)'
  <2>1. devPanel.cache[u] # DevNone /\ devPanel.cache[u].run = devSeen' BY <1>1, <1>6
  <2>2. devSeen' = devSeen BY <1>2, <1>5, <2>1
  <2> QED BY <1>1, <1>2, <1>3, <1>6, <2>1, <2>2 DEF DevAnswerInv
\* What is known of the requests stays known while none is added.
<1>7. ASSUME devPanel'.calls = devPanel.calls,
             devPanel'.timer = devPanel.timer \/ devPanel'.timer = DevNone,
             ~devLive', DevCurrentKeep'
      PROVE  ~devLive /\ devSeen' = devSeen /\ DevCurrentKeep
  <2>1. ~devLive
    <3> SUFFICES ASSUME devLive PROVE FALSE OBVIOUS
    <3>1. /\ \A u \in DevTrackers : devPanel.cache[u] = DevNone
          /\ \A c \in devPanel.calls : c.keep = DevNone
          /\ devPanel.timer = DevNone BY DEF DevKeepInv
    <3>2. devSeen' # DevNone BY <1>2, DevNoneAssumption
    <3> QED BY <1>1, <1>7, <3>1, <3>2 DEF DevCurrentKeep
  <2>2. devSeen' \in 0 .. devSeen
    <3>1. CASE \E u \in DevTrackers : devPanel'.cache[u] # DevNone /\ devPanel'.cache[u].run = devSeen'
      BY <1>1, <1>2, <1>5, <3>1
    <3>2. CASE devPanel'.timer # DevNone /\ devPanel'.timer.keep = devSeen'
      <4>1. DevKeeps(devPanel.timer) /\ devPanel.timer.keep = devSeen' /\ devSeen' # DevNone
        BY <1>2, <1>7, <3>2, DevNoneAssumption DEF DevKeepInv
      <4> QED BY <4>1 DEF DevKeeps
    <3>3. CASE \E c \in devPanel'.calls : c.keep = devSeen'
      <4>1. PICK c \in devPanel.calls : c.keep = devSeen' BY <1>7, <3>3
      <4>2. DevKeeps(c) /\ devSeen' # DevNone BY <1>2, DevNoneAssumption DEF DevKeepInv
      <4> QED BY <4>1, <4>2 DEF DevKeeps
    <3> QED BY <1>7, <3>1, <3>2, <3>3 DEF DevCurrentKeep
  <2>3. devSeen' = devSeen BY <1>2, <2>2
  <2>4. DevCurrentKeep BY <1>1, <1>7, <2>3 DEF DevCurrentKeep
  <2> QED BY <2>1, <2>3, <2>4
<1>8. ASSUME ~devLive', devPanel'.tracked \/ DevCurrentKeep' PROVE \A c \in devPanel'.calls : DevRight(c)'
  <2>1. CASE DevFlushedLive(t) BY <1>8, <2>1 DEF DevFlushedLive
  <2>2. CASE DevFlushedStill(t)
    <3>1. devPanel' = devPanel /\ devLive' = devLive /\ (devPanel.tracked => devSeen' = devSeen)
      BY <2>2 DEF DevFlushedStill
    <3>2. devSeen' = devSeen /\ (devPanel.tracked \/ DevCurrentKeep) BY <1>7, <1>8, <3>1
    <3> QED BY <1>4, <1>8, <3>1, <3>2 DEF DevAnswerInv
  <2>3. CASE DevFlushedFile(t)
    <3>1. CASE DevPathArmed(devPanel, devPanel', t, devCursor', devLive', devSeen')
      BY <3>1 DEF DevPathArmed
    <3>2. CASE DevPathKept(devPanel, devPanel', t, devCursor', devLive', devSeen')
      <4>1. t \in DevTrackers /\ devPanel.cache[t] # DevNone /\ devPanel.cache[t].run = devSeen'
            /\ devPanel'.calls = devPanel.calls BY <3>2, DevAssumption DEF DevPathKept
      <4>2. ~devLive /\ devSeen' = devSeen BY <1>2, <1>5, <4>1
      <4>3. DevCurrentKeep BY <4>1, <4>2 DEF DevCurrentKeep
      <4> QED BY <1>4, <4>1, <4>2, <4>3 DEF DevAnswerInv
    <3>3. CASE ~DevPathArmed(devPanel, devPanel', t, devCursor', devLive', devSeen')
               /\ ~DevPathKept(devPanel, devPanel', t, devCursor', devLive', devSeen')
      <4>1. devPanel'.calls = devPanel.calls /\ ~devPanel'.tracked
            /\ (devPanel'.timer = DevNone \/ devPanel'.timer = devPanel.timer)
        BY <2>3, <3>3 DEF DevFlushedFile, DevPathElsewhere, DevPathNone, DevPathIdle
      <4>2. ~devLive /\ devSeen' = devSeen /\ DevCurrentKeep BY <1>7, <1>8, <4>1
      <4> QED BY <1>4, <4>1, <4>2 DEF DevAnswerInv
    <3> QED BY <3>1, <3>2, <3>3
  <2> QED BY <1>1, <2>1, <2>2, <2>3
<1> HIDE DEF t
<1> QED BY <1>6, <1>8 DEF DevAnswerInv

LEMMA DevReactCursorInv ==
    ASSUME DevTypeInv, DevKeepInv, DevAnswerInv, DevCursorInv, DevStateType', NEW moved \in BOOLEAN,
           DevMoves(moved), DevReact(moved)
    PROVE  DevCursorInv'
<1>0. PICK t : t = DevSelected' OBVIOUS
<1>1. /\ devPanel' \in DevPanels /\ devPanel'.cache = devPanel.cache
      /\ DevFlushedLive(t) \/ DevFlushedStill(t) \/ DevFlushedFile(t) BY Zenon, <1>0, DevReactFields
<1>2. /\ devSeen \in Nat /\ devSeen' \in Nat /\ devStored \in Nat /\ devSeen <= devSeen'
      /\ devStored' = devStored /\ devRuns' = devRuns /\ devCursor' \in Int
      /\ devLive \in BOOLEAN /\ devLive' \in BOOLEAN /\ (devLive' => devLive)
  BY DevAssumption DEF DevTypeInv, DevStateType, DevMoves, DevElsewhere
<1>3. \A u, line : DevStateAt(u, line)' = DevStateAt(u, line) BY DevStateStays DEF DevMoves
<1>4. SUFFICES ASSUME DevAtCursor'
      PROVE /\ devPanel'.timer # DevNone =>
                 devPanel'.timer.of = t /\ devPanel'.timer.line = devCursor'
            /\ t \notin DevDumps =>
                 /\ \A c \in devPanel'.calls : c.of = t /\ c.line = devCursor'
                 /\ \/ devPanel'.timer # DevNone \/ devPanel'.calls # {}
                    \/ DevRan(t)' => DevShows(t, devCursor)'
            /\ t \in DevDumps =>
                 \/ devPanel'.timer # DevNone \/ \E c \in devPanel'.calls : c.of = t
                 \/ DevRan(t)' /\ devPanel'.of = t =>
                      devPanel'.snap = DevStateAt(t, devCursor)' BY <1>0 DEF DevCursorInv
<1>5. ~devLive' /\ t # DevNone /\ devCursor' > 0 BY <1>0, <1>4 DEF DevAtCursor
<1>6. CASE DevFlushedLive(t) BY <1>5, <1>6 DEF DevFlushedLive
<1>7. CASE DevFlushedStill(t)
  <2>1. devPanel' = devPanel /\ t = DevSelected /\ devLive' = devLive /\ devCursor' = devCursor
    BY <1>7 DEF DevFlushedStill
  <2>2. DevAtCursor BY <1>5, <2>1 DEF DevAtCursor
  <2>3. devSeen' = devSeen BY <1>7, <2>2 DEF DevFlushedStill, DevKeepInv
  <2>4. DevRan(t)' <=> DevRan(t) BY <1>2, <2>1, <2>3 DEF DevRan
  <2>5. DevStateAt(t, devCursor)' = DevStateAt(t, devCursor) BY <1>3, <2>1
  <2>6. DevShows(t, devCursor)' <=> DevShows(t, devCursor) BY <2>1, <2>5 DEF DevShows
  <2> QED BY <2>1, <2>2, <2>4, <2>5, <2>6 DEF DevCursorInv
<1>8. CASE DevFlushedFile(t)
  <2>1. CASE DevPathArmed(devPanel, devPanel', t, devCursor', devLive', devSeen')
    <3>1. devPanel'.timer # DevNone /\ devPanel'.calls = {}
          /\ devPanel'.timer.of = t /\ devPanel'.timer.line = devCursor'
      BY <2>1, DevAskIsSome DEF DevPathArmed
    <3> QED BY <3>1
  <2>2. CASE DevPathKept(devPanel, devPanel', t, devCursor', devLive', devSeen')
    <3>1. /\ t \in DevDumps /\ t \in DevTrackers
          /\ devPanel.cache[t] # DevNone /\ devPanel.cache[t].run = devSeen'
          /\ devPanel'.timer = DevNone /\ devPanel'.of = t /\ devPanel'.snap = devPanel.cache[t].snap
      BY <2>2, DevAssumption DEF DevPathKept
    <3>2. devSeen' = devSeen
      <4>1. devPanel.cache[t].run <= devSeen BY <3>1 DEF DevKeepInv
      <4> QED BY <1>2, <3>1, <4>1
    <3>3. ASSUME DevRan(t)' PROVE devPanel'.snap = DevStateAt(t, devCursor)'
      <4>1. devSeen = devStored /\ devRuns[t] # DevNone BY <1>2, <3>2, <3>3 DEF DevRan
      <4>2. devPanel.cache[t].snap = DevStateAt(t, DevNow) BY <3>1, <3>2, <4>1 DEF DevAnswerInv
      <4>3. DevStateAt(t, devCursor)' = DevStateAt(t, DevNow)' BY <3>1 DEF DevStateAt
      <4> QED BY <1>3, <3>1, <4>2, <4>3
    <3> QED BY <3>1, <3>3
  <2> QED BY <1>2, <1>5, <1>8, <2>1, <2>2 DEF DevFlushedFile, DevPathElsewhere, DevPathNone,
       DevPathIdle, DevElsewhere
<1> QED BY <1>1, <1>6, <1>7, <1>8

LEMMA DevReactLiveInv ==
    ASSUME DevTypeInv, DevLiveInv, DevStateType', NEW moved \in BOOLEAN,
           DevMoves(moved), DevReact(moved)
    PROVE  DevLiveInv'
<1>0. PICK t : t = DevSelected' OBVIOUS
<1>1. /\ devPanel' \in DevPanels /\ devPanel'.throttled = devPanel.throttled
      /\ DevFlushedLive(t) \/ DevFlushedStill(t) \/ DevFlushedFile(t) BY Zenon, <1>0, DevReactFields
<1>2. devRuns' = devRuns /\ devUpdates' = devUpdates BY DEF DevMoves
<1>3. \A u, line : DevStateAt(u, line)' = DevStateAt(u, line) BY DevStateStays DEF DevMoves
<1>4. SUFFICES ASSUME devLive', t # DevNone
      PROVE /\ \A c \in devPanel'.calls : c.of = t /\ c.line = DevNow
            /\ devRuns'[t] = DevNone /\ devUpdates' = 0 /\ ~devPanel'.throttled =>
                 /\ \A c \in devPanel'.calls :
                      c.answer # DevNone => c.answer = DevStateAt(t, DevNow)'
                 /\ devPanel'.calls # {} \/ DevShows(t, DevNow)' BY <1>0 DEF DevLiveInv
<1>5. DevStateAt(t, DevNow)' = DevStateAt(t, DevNow) BY <1>3
<1>6. CASE devPanel'.calls = {DevAsk(t, DevNow, DevNone)}
  <2>1. DevAsk(t, DevNow, DevNone).of = t /\ DevAsk(t, DevNow, DevNone).line = DevNow
        /\ DevAsk(t, DevNow, DevNone).answer = DevNone BY DEF DevAsk
  <2> QED BY <1>6, <2>1
<1>7. CASE /\ devLive /\ t = DevSelected /\ devPanel'.calls = devPanel.calls
           /\ devPanel'.snap = devPanel.snap /\ devPanel'.of = devPanel.of
  <2>1. DevShows(t, DevNow)' <=> DevShows(t, DevNow) BY <1>5, <1>7 DEF DevShows
  <2> QED BY <1>1, <1>2, <1>4, <1>5, <1>7, <2>1 DEF DevLiveInv
<1> QED BY <1>1, <1>4, <1>6, <1>7 DEF DevFlushedLive, DevFlushedStill, DevFlushedFile

\* A flush keeps what is known of the panel.
LEMMA DevReactInv ==
    ASSUME DevTypeInv, DevPanelInv, DevStateType', NEW moved \in BOOLEAN,
           DevMoves(moved), DevReact(moved)
    PROVE  DevPanelInv'
BY DevReactKeepInv, DevReactAnswerInv, DevReactCursorInv, DevReactLiveInv DEF DevPanelInv

LEMMA DevReactType ==
    ASSUME DevTypeInv, DevStateType', NEW moved \in BOOLEAN, DevMoves(moved), DevReact(moved),
           devHist' = devHist
    PROVE  DevTypeInv'
<1>1. devPanel' \in DevPanels /\ (devPanel'.snap = DevNone <=> devPanel'.of = DevNone)
  BY DevReactFields
<1>2. devSeen \in Nat /\ devSeen' \in Nat /\ devSeen <= devSeen'
  BY DEF DevTypeInv, DevStateType, DevMoves
<1>3. \A t \in DevTrackers : devHist[t].fetched \in 0 .. devSeen' BY <1>2 DEF DevTypeInv
<1> QED BY <1>1, <1>3 DEF DevTypeInv

LEMMA DevReactHist ==
    ASSUME DevHistInv, UNCHANGED <<devHist, devSeen, devStored, devRuns>>
    PROVE  DevHistInv' BY DEF DevHistInv, DevRan

\* The steps with a flush.
LEMMA DevMoveToKeeps ==
    ASSUME DevInv, NEW line \in {DevElsewhere, 0} \cup DevLines, DevMoveTo(line)
    PROVE  DevInv'
<1>1. DevMoves(TRUE) /\ DevReact(TRUE) /\ UNCHANGED <<devHist, devSeen, devStored, devRuns>>
  BY DEF DevMoveTo, DevMoves
<1>2. DevStateType' BY DEF DevInv, DevTypeInv, DevStateType, DevMoveTo
<1>3. DevTypeInv' BY <1>1, <1>2, DevReactType DEF DevInv
<1>4. DevPanelInv' BY <1>1, <1>2, DevReactInv DEF DevInv
<1>5. DevHistInv' BY <1>1, DevReactHist DEF DevInv
<1> QED BY <1>3, <1>4, <1>5 DEF DevInv

LEMMA DevStopKeeps == ASSUME DevInv, DevStop PROVE DevInv'
<1>1. DevMoves(FALSE) /\ DevReact(FALSE) /\ UNCHANGED <<devHist, devSeen, devStored, devRuns>>
  BY DEF DevStop, DevMoves
<1>2. DevStateType' BY DEF DevInv, DevTypeInv, DevStateType, DevStop
<1>3. DevTypeInv' BY <1>1, <1>2, DevReactType DEF DevInv
<1>4. DevPanelInv' BY <1>1, <1>2, DevReactInv DEF DevInv
<1>5. DevHistInv' BY <1>1, DevReactHist DEF DevInv
<1> QED BY <1>3, <1>4, <1>5 DEF DevInv

LEMMA DevEditChainKeeps ==
    ASSUME DevInv, NEW chain \in DevChains, DevEditChain(chain)
    PROVE  DevInv'
<1>1. DevMoves(FALSE) /\ DevReact(FALSE) /\ UNCHANGED <<devHist, devSeen, devStored, devRuns>>
  BY DEF DevEditChain, DevMoves
<1>2. DevStateType' BY DEF DevInv, DevTypeInv, DevStateType, DevEditChain
<1>3. DevTypeInv' BY <1>1, <1>2, DevReactType DEF DevInv
<1>4. DevPanelInv' BY <1>1, <1>2, DevReactInv DEF DevInv
<1>5. DevHistInv' BY <1>1, DevReactHist DEF DevInv
<1> QED BY <1>3, <1>4, <1>5 DEF DevInv

LEMMA DevSetSelectedKeeps ==
    ASSUME DevInv, NEW t \in DevTrackers, DevSetSelected(t)
    PROVE  DevInv'
<1>1. DevMoves(FALSE) /\ DevReact(FALSE) /\ UNCHANGED <<devHist, devSeen, devStored, devRuns>>
  BY DEF DevSetSelected, DevMoves
<1>2. DevStateType' BY DEF DevInv, DevTypeInv, DevStateType, DevSetSelected
<1>3. DevTypeInv' BY <1>1, <1>2, DevReactType DEF DevInv
<1>4. DevPanelInv' BY <1>1, <1>2, DevReactInv DEF DevInv
<1>5. DevHistInv' BY <1>1, DevReactHist DEF DevInv
<1> QED BY <1>3, <1>4, <1>5 DEF DevInv

LEMMA DevJumpKeeps ==
    ASSUME DevInv, NEW direction, DevJump(direction)
    PROVE  DevInv'
<1> DEFINE lines == devHist[DevSelected].lines
           before == {n \in lines : devCursor > 0 /\ n < devCursor}
           after == {n \in lines : devCursor > 0 /\ n > devCursor}
<1>1. DevSelected \in DevTrackers
  <2>1. devChain \in DevChains /\ devPick \in DevTrackers \cup {DevNone}
    BY DEF DevInv, DevTypeInv, DevStateType
  <2> QED BY <2>1, DevSelectType DEF DevSelected, DevJump
<1>2. lines \in SUBSET DevLines /\ lines # {} BY <1>1 DEF DevInv, DevTypeInv, DevHists, DevJump
<1>3. before \in SUBSET DevLines /\ after \in SUBSET DevLines BY <1>2
<1>4. DevTarget(lines, devCursor, direction)
        = IF direction = "prev" THEN Max(IF before = {} THEN lines ELSE before)
          ELSE Min(IF after = {} THEN lines ELSE after) BY DEF DevTarget
<1>5. DevMoveTo(DevTarget(lines, devCursor, direction)) BY DEF DevJump
<1> HIDE DEF lines, before, after
<1>6. /\ Max(lines) \in DevLines /\ Min(lines) \in DevLines
      /\ before # {} => Max(before) \in DevLines
      /\ after # {} => Min(after) \in DevLines BY <1>2, <1>3, DevLinesFacts
<1>7. DevTarget(lines, devCursor, direction) \in {DevElsewhere, 0} \cup DevLines BY <1>4, <1>6
<1> QED BY <1>5, <1>7, DevMoveToKeeps

LEMMA DevRunSeenKeeps == ASSUME DevInv, DevRunSeen PROVE DevInv'
<1>1. DevMoves(FALSE) /\ DevReact(FALSE) /\ devStored' = devStored /\ devRuns' = devRuns
      /\ devSeen < devSeen' /\ devSeen' = devStored
      /\ devHist' = [t \in DevTrackers |-> DevRefetch(devHist[t], devSeen')]
  BY DEF DevRunSeen, DevMoves
<1>2. DevStateType' BY DEF DevInv, DevTypeInv, DevStateType, DevRunSeen
<1>3. devSeen \in Nat /\ devSeen' \in Nat /\ devHist \in [DevTrackers -> DevHists]
  BY <1>1 DEF DevInv, DevTypeInv, DevStateType
<1>4. DevPanelInv' BY <1>1, <1>2, DevReactInv DEF DevInv
<1>5. ASSUME NEW t \in DevTrackers
      PROVE  /\ devHist'[t] \in DevHists /\ devHist'[t].fetched \in 0 .. devSeen'
             /\ ~devHist'[t].made => devHist'[t] = devHist[t]
             /\ devHist'[t].made =>
                  /\ devHist'[t].fetched = devSeen'
                  /\ devHist'[t].calls = {[run |-> devSeen', answer |-> DevNone]}
  <2> DEFINE h == devHist[t]
             ask == [run |-> devSeen', answer |-> DevNone]
  <2>1. h \in DevHists /\ h.fetched \in 0 .. devSeen BY <1>3 DEF DevInv, DevTypeInv
  <2>2. devHist'[t] = IF ~h.made THEN h
                      ELSE [h EXCEPT !.fetched = devSeen', !.loading = TRUE, !.calls = {ask}]
    <3>1. devHist'[t] = DevRefetch(h, devSeen') BY <1>1
    <3>2. h.fetched # devSeen' /\ devSeen' # 0 BY <1>1, <1>3, <2>1
    <3> HIDE DEF h
    <3> QED BY <3>1, <3>2 DEF DevRefetch
  <2>3. ask \in DevHistAsks BY <1>3 DEF DevHistAsks, DevLineSets
  <2>4. h.fetched \in 0 .. devSeen' BY <1>1, <1>3, <2>1
  <2>5. devSeen' \in 0 .. devSeen' BY <1>3
  <2> HIDE DEF h, ask
  <2>6. CASE ~h.made BY <2>1, <2>2, <2>4, <2>6 DEF h
  <2>7. CASE h.made
    <3>1. devHist'[t] = [h EXCEPT !.fetched = devSeen', !.loading = TRUE, !.calls = {ask}]
      BY <2>2, <2>7
    <3>2. devHist'[t] \in DevHists /\ devHist'[t].fetched = devSeen' /\ devHist'[t].calls = {ask}
          /\ devHist'[t].made = h.made
      <4>1. devSeen' \in Nat /\ {ask} \in SUBSET DevHistAsks /\ h \in DevHists BY <1>3, <2>1, <2>3
      <4> QED BY <3>1, <4>1 DEF DevHists
    <3> QED BY <2>5, <2>7, <3>2 DEF ask
  <2> QED BY <2>6, <2>7
<1>6. DevTypeInv'
  <2>1. devPanel' \in DevPanels /\ (devPanel'.snap = DevNone <=> devPanel'.of = DevNone)
    BY <1>1, <1>2, DevReactFields DEF DevInv
  <2>2. devHist' \in [DevTrackers -> DevHists] BY <1>1, <1>5
  <2> QED BY <1>2, <1>5, <2>1, <2>2 DEF DevTypeInv
<1>7. DevHistInv'
  <2> SUFFICES ASSUME NEW t \in DevTrackers
               PROVE  /\ devHist'[t].loading => devHist'[t].calls # {}
                      /\ ~devHist'[t].made =>
                           devHist'[t].calls = {} /\ ~devHist'[t].loading
                             /\ devHist'[t].fetched = 0
                      /\ devHist'[t].made /\ devSeen' > 0 =>
                           /\ devHist'[t].fetched = devSeen'
                           /\ DevRan(t)' =>
                                /\ \A c \in devHist'[t].calls :
                                     c.answer # DevNone => c.answer = devRuns'[t]
                                /\ devHist'[t].calls = {} => devHist'[t].lines = devRuns'[t]
    BY DEF DevHistInv
  <2>1. CASE ~devHist'[t].made BY <1>5, <2>1 DEF DevInv, DevHistInv
  <2>2. CASE devHist'[t].made
    <3>1. devHist'[t].calls = {[run |-> devSeen', answer |-> DevNone]}
          /\ devHist'[t].fetched = devSeen' BY <1>5, <2>2
    <3>2. \A c \in devHist'[t].calls : c.answer = DevNone BY <3>1
    <3>3. devHist'[t].calls # {} BY <3>1
    <3> QED BY <2>2, <3>1, <3>2, <3>3
  <2> QED BY <2>1, <2>2
<1> QED BY <1>4, <1>6, <1>7 DEF DevInv

----------------------------------------
\* The steps of the back end and of the panel's own timers and answers.

LEMMA DevSelectedFacts ==
    ASSUME DevStateType
    PROVE  /\ DevSelected \in DevTrackers \cup {DevNone}
           /\ DevSelected # DevNone =>
                DevSelected \in DevTrackers /\ DevInChain(devChain, DevSelected)
<1>1. devChain \in DevChains /\ devPick \in DevTrackers \cup {DevNone} BY DEF DevStateType
<1> QED BY <1>1, DevSelectType DEF DevSelected

LEMMA DevRunStoresKeeps == ASSUME DevInv, DevRunStores PROVE DevInv'
<1>1. PICK lines \in DevFinds :
        devRuns' = [t \in DevTrackers |-> IF DevInChain(devChain, t) THEN lines ELSE DevNone]
  BY DEF DevRunStores
<1>2. /\ UNCHANGED <<devStream, devSeen, devChain, devPick, devLive, devCursor, devPanel,
                     devHist, devUpdates>>
      /\ devStored' = devStored + 1 BY DEF DevRunStores
<1>3. lines \in SUBSET DevLines /\ lines # DevNone
  <2>1. lines \in SUBSET DevLines BY DevAssumption
  <2> QED BY <2>1, DevLinesAreSome
<1>4. devSeen \in Nat /\ devStored \in Nat /\ devSeen <= devStored
  BY DEF DevInv, DevTypeInv, DevStateType
<1>5. devSeen' # devStored' /\ devSeen' \in 0 .. devStored' /\ devStored' \in Nat BY <1>2, <1>4
<1>6. DevTypeInv'
  <2>1. devRuns' \in [DevTrackers -> DevLineSets] BY <1>1, <1>3 DEF DevLineSets
  <2>2. DevStateType' BY <1>2, <1>5, <2>1 DEF DevInv, DevTypeInv, DevStateType
  <2> QED BY <1>2, <2>2 DEF DevInv, DevTypeInv
<1>7. \A t : ~DevRan(t)' BY <1>5 DEF DevRan
<1>8. DevSelected' = DevSelected /\ (DevAtCursor' <=> DevAtCursor)
  BY <1>2 DEF DevSelected, DevAtCursor
<1>9. DevKeepInv' BY <1>2, <1>8 DEF DevInv, DevPanelInv, DevKeepInv, DevKeeps
<1>10. DevAnswerInv' BY <1>5, <1>7 DEF DevAnswerInv, DevRight
<1>11. DevCursorInv' BY <1>2, <1>7, <1>8 DEF DevInv, DevPanelInv, DevCursorInv
<1>12. DevLiveInv'
  <2>1. DevSelected # DevNone => devRuns'[DevSelected] # DevNone
    BY <1>1, <1>3, DevSelectedFacts DEF DevInv, DevTypeInv
  <2> QED BY <1>2, <1>8, <2>1 DEF DevInv, DevPanelInv, DevLiveInv
<1>13. DevHistInv' BY <1>2, <1>7 DEF DevInv, DevHistInv
<1> QED BY <1>6, <1>9, <1>10, <1>11, <1>12, <1>13 DEF DevInv, DevPanelInv

\* A step that touches neither the runs nor the panel, for a state of the
\* panel that stays what it was.
LEMMA DevBatchKeeps ==
    ASSUME DevInv, NEW t \in DevTrackers, NEW n \in DevLines, DevBatch(t, n)
    PROVE  DevInv'
<1>1. /\ UNCHANGED <<devRuns, devStored, devSeen, devChain, devPick, devLive, devCursor,
                     devPanel, devHist>>
      /\ devLive /\ devStream[t] # DevNone /\ devUpdates' = devUpdates + 1
      /\ devStream' = [devStream EXCEPT ![t] = @ \cup {n}] BY DEF DevBatch
<1>2. devStream \in [DevTrackers -> DevLineSets] /\ devUpdates \in Nat
  BY DEF DevInv, DevTypeInv, DevStateType
<1>3. \A u \in DevTrackers : devStream'[u] = devStream[u] \/ devStream'[u] \in SUBSET DevLines
  <2>1. devStream[t] \in SUBSET DevLines BY <1>1, <1>2 DEF DevLineSets
  <2>2. \A u \in DevTrackers :
          devStream'[u] = IF u = t THEN devStream[t] \cup {n} ELSE devStream[u] BY <1>1, <1>2
  <2> QED BY <2>1, <2>2
<1>4. DevTypeInv'
  <2>1. devStream' \in [DevTrackers -> DevLineSets] BY <1>1, <1>2, <1>3 DEF DevLineSets
  <2>2. DevStateType' BY <1>1, <1>2, <2>1 DEF DevInv, DevTypeInv, DevStateType
  <2> QED BY <1>1, <2>2 DEF DevInv, DevTypeInv
<1>5. ~DevAtCursor' /\ devLive' BY <1>1 DEF DevAtCursor
<1>6. DevKeepInv'
  <2>1. \A u \in DevTrackers : devStream'[u] # DevNone
    BY <1>1, <1>3, DevLinesAreSome DEF DevInv, DevPanelInv, DevKeepInv
  <2> QED BY <1>1, <1>5, <2>1 DEF DevInv, DevPanelInv, DevKeepInv, DevKeeps
<1>7. DevAnswerInv'
  <2>1. \A u \in DevTrackers : devPanel'.cache[u] = DevNone
    BY <1>1 DEF DevInv, DevPanelInv, DevKeepInv
  <2> QED BY <1>5, <2>1 DEF DevAnswerInv
<1>8. DevCursorInv' BY <1>5 DEF DevCursorInv
<1>9. DevLiveInv'
  <2>1. devUpdates' # 0 /\ DevSelected' = DevSelected BY <1>1, <1>2 DEF DevSelected
  <2> QED BY <1>1, <2>1 DEF DevInv, DevPanelInv, DevLiveInv
<1>10. DevHistInv' BY <1>1, DevReactHist DEF DevInv
<1> QED BY <1>4, <1>6, <1>7, <1>8, <1>9, <1>10 DEF DevInv, DevPanelInv

\* A step of the panel alone.
DevAlone ==
  UNCHANGED <<devRuns, devStream, devStored, devSeen, devChain, devPick, devLive, devCursor,
              devHist>>

LEMMA DevAloneFacts ==
    ASSUME DevInv, DevAlone, devUpdates' \in Nat
    PROVE  /\ DevSelected' = DevSelected /\ (DevAtCursor' <=> DevAtCursor)
           /\ \A u, line : DevStateAt(u, line)' = DevStateAt(u, line)
           /\ \A c : DevRight(c)' <=> DevRight(c)
           /\ \A c : DevKeeps(c)' <=> DevKeeps(c)
           /\ \A u : DevRan(u)' <=> DevRan(u)
           /\ DevStateType' /\ DevHistInv'
           /\ devPanel' \in DevPanels /\ (devPanel'.snap = DevNone <=> devPanel'.of = DevNone)
                => DevTypeInv'
<1>1. DevSelected' = DevSelected /\ (DevAtCursor' <=> DevAtCursor)
  BY DEF DevAlone, DevSelected, DevAtCursor
<1>2. \A u, line : DevStateAt(u, line)' = DevStateAt(u, line) BY DevStateStays DEF DevAlone
<1>3. \A u : DevRan(u)' <=> DevRan(u) BY DEF DevAlone, DevRan
<1>4. \A c : DevRight(c)' <=> DevRight(c) BY <1>2, <1>3 DEF DevRight
<1>5. \A c : DevKeeps(c)' <=> DevKeeps(c) BY DEF DevAlone, DevKeeps
<1>6. DevStateType' BY DEF DevInv, DevTypeInv, DevAlone, DevStateType
<1>7. DevHistInv' BY DevReactHist DEF DevInv, DevAlone
<1>8. devPanel' \in DevPanels /\ (devPanel'.snap = DevNone <=> devPanel'.of = DevNone)
        => DevTypeInv' BY <1>6 DEF DevInv, DevTypeInv, DevAlone
<1> QED BY <1>1, <1>2, <1>3, <1>4, <1>5, <1>6, <1>7, <1>8

\* Only the mark of the throttle, and the number of updates, move.
LEMMA DevThrottleKeeps ==
    ASSUME DevInv, DevAlone, devUpdates' \in Nat, NEW mark \in BOOLEAN,
           devPanel' = [devPanel EXCEPT !.throttled = mark],
           devLive /\ DevSelected # DevNone => mark
    PROVE  DevInv'
<1>1. devPanel \in DevPanels /\ (devPanel.snap = DevNone <=> devPanel.of = DevNone)
  BY DEF DevInv, DevTypeInv
<1>2. /\ devPanel' \in DevPanels /\ devPanel'.throttled = mark
      /\ devPanel'.snap = devPanel.snap /\ devPanel'.of = devPanel.of
      /\ devPanel'.loading = devPanel.loading /\ devPanel'.timer = devPanel.timer
      /\ devPanel'.calls = devPanel.calls /\ devPanel'.tracked = devPanel.tracked
      /\ devPanel'.cache = devPanel.cache BY <1>1 DEF DevPanels
<1>3. /\ DevSelected' = DevSelected /\ (DevAtCursor' <=> DevAtCursor)
      /\ \A u, line : DevStateAt(u, line)' = DevStateAt(u, line)
      /\ \A c : DevRight(c)' <=> DevRight(c)
      /\ \A c : DevKeeps(c)' <=> DevKeeps(c)
      /\ \A u : DevRan(u)' <=> DevRan(u)
      /\ DevHistInv' /\ DevTypeInv' BY <1>1, <1>2, DevAloneFacts
<1>4. /\ devLive' = devLive /\ devSeen' = devSeen /\ devStored' = devStored
      /\ devRuns' = devRuns /\ devStream' = devStream /\ devCursor' = devCursor BY DEF DevAlone
<1>5. DevKeepInv' BY <1>2, <1>3, <1>4 DEF DevInv, DevPanelInv, DevKeepInv
<1>6. DevAnswerInv'
  <2>1. DevCurrentKeep' <=> DevCurrentKeep BY <1>2, <1>4 DEF DevCurrentKeep
  <2> QED BY <1>2, <1>3, <1>4, <2>1 DEF DevInv, DevPanelInv, DevAnswerInv
<1>7. DevCursorInv'
  <2>1. \A u : DevShows(u, devCursor)' <=> DevShows(u, devCursor) BY <1>2, <1>3, <1>4 DEF DevShows
  <2>2. DevStateAt(DevSelected, devCursor)' = DevStateAt(DevSelected, devCursor) BY <1>3, <1>4
  <2> QED BY <1>2, <1>3, <1>4, <2>1, <2>2 DEF DevInv, DevPanelInv, DevCursorInv
<1>8. DevLiveInv' BY <1>2, <1>3, <1>4 DEF DevInv, DevPanelInv, DevLiveInv
<1> QED BY <1>3, <1>5, <1>6, <1>7, <1>8 DEF DevInv, DevPanelInv

LEMMA DevUpdateKeeps == ASSUME DevInv, DevUpdate PROVE DevInv'
<1>1. DevAlone /\ devUpdates > 0 /\ devUpdates' = devUpdates - 1
      /\ devPanel' = IF devLive THEN [devPanel EXCEPT !.throttled = TRUE] ELSE devPanel
  BY DEF DevUpdate, DevAlone
<1>2. devUpdates' \in Nat /\ devPanel \in DevPanels BY <1>1 DEF DevInv, DevTypeInv, DevStateType
<1>3. CASE devLive BY <1>1, <1>2, <1>3, DevThrottleKeeps
<1>4. CASE ~devLive
  <2>1. devPanel' = [devPanel EXCEPT !.throttled = devPanel.throttled]
        /\ devPanel.throttled \in BOOLEAN BY <1>1, <1>2, <1>4 DEF DevPanels
  <2> QED BY <1>1, <1>2, <1>4, <2>1, DevThrottleKeeps
<1> QED BY <1>3, <1>4

LEMMA DevRefreshKeeps == ASSUME DevInv, DevRefresh PROVE DevInv'
<1> DEFINE p == [devPanel EXCEPT !.throttled = FALSE]
<1>1. DevAlone /\ devUpdates' = devUpdates
      /\ devPanel' = IF devLive /\ DevSelected # DevNone THEN DevFetchNow(p, DevSelected) ELSE p
  BY DEF DevRefresh, DevAlone
<1>2. devUpdates' \in Nat /\ devPanel \in DevPanels
      /\ (devPanel.snap = DevNone <=> devPanel.of = DevNone)
  BY <1>1 DEF DevInv, DevTypeInv, DevStateType
<1>3. CASE ~ (devLive /\ DevSelected # DevNone) BY <1>1, <1>2, <1>3, DevThrottleKeeps
<1>4. CASE devLive /\ DevSelected # DevNone
  <2>0. DevSelected \in DevTrackers BY <1>4, DevSelectedFacts DEF DevInv, DevTypeInv
  <2>1. p \in DevPanels /\ p.snap = devPanel.snap /\ p.of = devPanel.of /\ p.cache = devPanel.cache
        /\ p.timer = devPanel.timer BY <1>2 DEF DevPanels
  <2> HIDE DEF p
  <2>2. p.snap = DevNone <=> p.of = DevNone BY <1>2, <2>1
  <2> DEFINE x == DevFetchNow(p, DevSelected)
             ask == DevAsk(DevSelected, DevNow, DevNone)
  <2>3. /\ x \in DevPanels /\ (x.snap = DevNone <=> x.of = DevNone)
        /\ x.loading /\ x.timer = p.timer /\ x.calls = {ask} /\ x.cache = p.cache
    BY Zenon, <2>0, <2>1, <2>2, DevFetchFields
  <2>4. devPanel' = x BY <1>1, <1>4
  <2>5. ask.of = DevSelected /\ ask.line = DevNow /\ ask.keep = DevNone /\ ask.answer = DevNone
    BY DEF DevAsk
  <2> HIDE DEF x, ask
  <2>6. devPanel' \in DevPanels /\ (devPanel'.snap = DevNone <=> devPanel'.of = DevNone)
        /\ devPanel'.timer = devPanel.timer /\ devPanel'.calls = {ask}
        /\ devPanel'.cache = devPanel.cache BY <2>1, <2>3, <2>4
  <2>7. /\ DevSelected' = DevSelected /\ (DevAtCursor' <=> DevAtCursor)
        /\ DevHistInv' /\ DevTypeInv' BY <1>1, <1>2, <2>6, DevAloneFacts
  <2>8. devLive' /\ devStream' = devStream /\ devSeen' = devSeen /\ ~DevAtCursor'
        /\ devPanel.timer = DevNone
        /\ \A u \in DevTrackers : devPanel.cache[u] = DevNone /\ devStream[u] # DevNone
    BY <1>1, <1>4, <2>7 DEF DevInv, DevPanelInv, DevKeepInv, DevAlone, DevAtCursor
  <2>9. DevKeepInv'
    <3>1. \A c \in devPanel'.calls : c.keep = DevNone BY <2>5, <2>6
    <3>2. \A c \in devPanel'.calls : DevKeeps(c)' BY <3>1 DEF DevKeeps
    <3> QED BY <2>6, <2>8, <3>1, <3>2 DEF DevKeepInv
  <2>10. DevAnswerInv' BY <2>6, <2>8 DEF DevAnswerInv
  <2>11. DevCursorInv' BY <2>8 DEF DevCursorInv
  <2>12. DevLiveInv' BY <2>5, <2>6, <2>7 DEF DevLiveInv
  <2> QED BY <2>7, <2>9, <2>10, <2>11, <2>12 DEF DevInv, DevPanelInv
<1> QED BY <1>3, <1>4

LEMMA DevDebouncedKeeps == ASSUME DevInv, DevDebounced PROVE DevInv'
<1> DEFINE ask == devPanel.timer
<1>1. DevAlone /\ devUpdates' = devUpdates /\ ask # DevNone
      /\ devPanel' = [devPanel EXCEPT !.timer = DevNone, !.calls = @ \cup {ask}]
  BY DEF DevDebounced, DevAlone
<1>2. devUpdates' \in Nat /\ devPanel \in DevPanels
      /\ (devPanel.snap = DevNone <=> devPanel.of = DevNone)
  BY <1>1 DEF DevInv, DevTypeInv, DevStateType
<1>3. ask \in DevAsks /\ ask.answer = DevNone /\ DevKeeps(ask) /\ ~devLive
  BY <1>1, <1>2 DEF DevPanels, DevInv, DevPanelInv, DevKeepInv
<1>4. DevAtCursor => ask.of = DevSelected /\ ask.line = devCursor
  BY <1>1 DEF DevInv, DevPanelInv, DevCursorInv
<1>5. DevCurrentKeep <=> \/ \E u \in DevTrackers :
                              devPanel.cache[u] # DevNone /\ devPanel.cache[u].run = devSeen
                         \/ ask.keep = devSeen \/ \E c \in devPanel.calls : c.keep = devSeen
  BY <1>1 DEF DevCurrentKeep
<1> HIDE DEF ask
<1>6. /\ devPanel' \in DevPanels /\ devPanel'.timer = DevNone
      /\ devPanel'.snap = devPanel.snap /\ devPanel'.of = devPanel.of
      /\ devPanel'.loading = devPanel.loading
      /\ devPanel'.calls = devPanel.calls \cup {ask} /\ devPanel'.tracked = devPanel.tracked
      /\ devPanel'.cache = devPanel.cache BY <1>1, <1>2, <1>3 DEF DevPanels
<1>7. /\ DevSelected' = DevSelected /\ (DevAtCursor' <=> DevAtCursor)
      /\ \A u, line : DevStateAt(u, line)' = DevStateAt(u, line)
      /\ \A c : DevRight(c)' <=> DevRight(c)
      /\ \A c : DevKeeps(c)' <=> DevKeeps(c)
      /\ DevHistInv' /\ DevTypeInv' BY <1>1, <1>2, <1>6, DevAloneFacts
<1>8. /\ devLive' = devLive /\ devSeen' = devSeen /\ devStored' = devStored
      /\ devRuns' = devRuns /\ devStream' = devStream /\ devCursor' = devCursor BY <1>1 DEF DevAlone
<1>9. DevKeepInv' BY <1>3, <1>6, <1>7, <1>8 DEF DevInv, DevPanelInv, DevKeepInv
<1>10. DevAnswerInv'
  <2>1. DevCurrentKeep' => DevCurrentKeep BY <1>5, <1>6, <1>8 DEF DevCurrentKeep
  <2>2. DevRight(ask) BY <1>3 DEF DevRight
  <2> QED BY <1>6, <1>7, <1>8, <2>1, <2>2 DEF DevInv, DevPanelInv, DevAnswerInv
<1>11. DevCursorInv' BY <1>4, <1>6, <1>7, <1>8 DEF DevInv, DevPanelInv, DevCursorInv
<1>12. DevLiveInv' BY <1>3, <1>8 DEF DevLiveInv
<1> QED BY <1>7, <1>9, <1>10, <1>11, <1>12 DEF DevInv, DevPanelInv

LEMMA DevReadsKeeps ==
    ASSUME DevInv, NEW c \in devPanel.calls, DevReads(c)
    PROVE  DevInv'
<1> DEFINE d == [c EXCEPT !.answer = DevStateAt(c.of, c.line)]
<1>1. DevAlone /\ devUpdates' = devUpdates /\ c.answer = DevNone
      /\ devPanel' = [devPanel EXCEPT !.calls = (@ \ {c}) \cup {d}] BY DEF DevReads, DevAlone
<1>2. devUpdates' \in Nat /\ devPanel \in DevPanels
      /\ (devPanel.snap = DevNone <=> devPanel.of = DevNone)
  BY <1>1 DEF DevInv, DevTypeInv, DevStateType
<1>3. c \in DevAsks /\ devPanel.calls \in SUBSET DevAsks BY <1>2 DEF DevPanels
<1>4. DevStateAt(c.of, c.line) \in DevSnaps \cup {DevFailed}
  <2>1. c.of \in DevTrackers BY <1>3 DEF DevAsks
  <2> QED BY <2>1, DevStateAtType DEF DevInv, DevTypeInv
<1>5. d \in DevAsks /\ d.of = c.of /\ d.line = c.line /\ d.keep = c.keep
      /\ d.answer = DevStateAt(c.of, c.line) BY <1>3, <1>4 DEF DevAsks
<1> HIDE DEF d
<1>6. /\ devPanel' \in DevPanels /\ devPanel'.timer = devPanel.timer
      /\ devPanel'.snap = devPanel.snap /\ devPanel'.of = devPanel.of
      /\ devPanel'.loading = devPanel.loading /\ devPanel'.tracked = devPanel.tracked
      /\ devPanel'.calls = (devPanel.calls \ {c}) \cup {d}
      /\ devPanel'.cache = devPanel.cache /\ devPanel'.throttled = devPanel.throttled
  BY <1>1, <1>2, <1>3, <1>5 DEF DevPanels
<1>7. /\ DevSelected' = DevSelected /\ (DevAtCursor' <=> DevAtCursor)
      /\ \A u, line : DevStateAt(u, line)' = DevStateAt(u, line)
      /\ \A x : DevRight(x)' <=> DevRight(x)
      /\ \A x : DevKeeps(x)' <=> DevKeeps(x)
      /\ DevHistInv' /\ DevTypeInv' BY <1>1, <1>2, <1>6, DevAloneFacts
<1>8. /\ devLive' = devLive /\ devSeen' = devSeen /\ devStored' = devStored
      /\ devRuns' = devRuns /\ devStream' = devStream /\ devCursor' = devCursor
      /\ devUpdates' = devUpdates BY <1>1 DEF DevAlone
<1>9. DevKeepInv'
  <2>1. DevKeeps(c) BY DEF DevInv, DevPanelInv, DevKeepInv
  <2>2. DevKeeps(d) BY <1>5, <2>1 DEF DevKeeps
  <2> QED BY <1>5, <1>6, <1>7, <1>8, <2>2 DEF DevInv, DevPanelInv, DevKeepInv
<1>10. DevAnswerInv'
  <2>1. DevCurrentKeep' => DevCurrentKeep BY <1>5, <1>6, <1>8 DEF DevCurrentKeep
  <2>2. DevRight(d) BY <1>5 DEF DevRight
  <2> QED BY <1>6, <1>7, <1>8, <2>1, <2>2 DEF DevInv, DevPanelInv, DevAnswerInv
<1>11. DevCursorInv'
  <2>1. SUFFICES ASSUME DevAtCursor
                 PROVE  (devPanel'.timer # DevNone =>
                           devPanel'.timer.of = DevSelected /\ devPanel'.timer.line = devCursor)
                        /\ (DevSelected \notin DevDumps =>
                             \A x \in devPanel'.calls : x.of = DevSelected /\ x.line = devCursor)
                        /\ (DevSelected \in DevDumps =>
                             \/ devPanel'.timer # DevNone
                             \/ \E x \in devPanel'.calls : x.of = DevSelected
                             \/ DevRan(DevSelected) /\ devPanel'.of = DevSelected =>
                                  devPanel'.snap = DevStateAt(DevSelected, devCursor))
    <3>1. devPanel'.calls # {} /\ DevStateAt(DevSelected, devCursor)' = DevStateAt(DevSelected, devCursor)
          /\ (DevRan(DevSelected)' <=> DevRan(DevSelected)) BY <1>6, <1>7, <1>8 DEF DevRan
    <3> QED BY <1>7, <1>8, <3>1 DEF DevCursorInv
  <2> QED BY <1>5, <1>6, <2>1 DEF DevInv, DevPanelInv, DevCursorInv
<1>12. DevLiveInv' BY <1>5, <1>6, <1>7, <1>8 DEF DevInv, DevPanelInv, DevLiveInv
<1> QED BY <1>7, <1>9, <1>10, <1>11, <1>12 DEF DevInv, DevPanelInv

\* An answer: what it leaves is known from what it was about.
LEMMA DevAnswerFields ==
    ASSUME DevInv, NEW c \in devPanel.calls, DevAnswer(c)
    PROVE  /\ devPanel' \in DevPanels /\ (devPanel'.snap = DevNone <=> devPanel'.of = DevNone)
           /\ ~devPanel'.loading /\ devPanel'.timer = devPanel.timer
           /\ devPanel'.calls = devPanel.calls \ {c} /\ devPanel'.tracked = devPanel.tracked
           /\ devPanel'.throttled = devPanel.throttled /\ c \in DevAsks /\ c.answer # DevNone
           /\ IF c.answer = DevFailed
              THEN devPanel'.snap = devPanel.snap /\ devPanel'.of = devPanel.of
              ELSE devPanel'.snap = c.answer /\ devPanel'.of = c.of
           /\ \A u \in DevTrackers :
                \/ devPanel'.cache[u] = devPanel.cache[u]
                \/ /\ c.keep \in Nat /\ c.answer \in DevSnaps /\ u = c.of
                   /\ devPanel'.cache[u] = [run |-> c.keep, snap |-> c.answer]
<1> DEFINE p == [devPanel EXCEPT !.calls = @ \ {c}]
           entry == [run |-> c.keep, snap |-> c.answer]
           q == IF c.keep = DevNone THEN p ELSE [p EXCEPT !.cache[c.of] = entry]
<1>1. c.answer # DevNone
      /\ devPanel' = IF c.answer = DevFailed THEN [p EXCEPT !.loading = FALSE]
                     ELSE DevApply(q, c.of, c.answer) BY DEF DevAnswer
<1>2. devPanel \in DevPanels /\ (devPanel.snap = DevNone <=> devPanel.of = DevNone)
  BY DEF DevInv, DevTypeInv
<1>3. c \in DevAsks BY <1>2 DEF DevPanels
<1>4. c.of \in DevTrackers /\ c.keep \in Nat \cup {DevNone}
      /\ c.answer \in DevSnaps \cup {DevNone, DevFailed} BY <1>3 DEF DevAsks
<1>5. /\ p \in DevPanels /\ p.snap = devPanel.snap /\ p.of = devPanel.of
      /\ p.timer = devPanel.timer /\ p.calls = devPanel.calls \ {c}
      /\ p.tracked = devPanel.tracked /\ p.throttled = devPanel.throttled
      /\ p.cache = devPanel.cache
  <2>1. devPanel.calls \ {c} \in SUBSET DevAsks BY <1>2 DEF DevPanels
  <2> QED BY <1>2, <2>1 DEF DevPanels
<1> HIDE DEF p
<1>6. CASE c.answer = DevFailed
  <2>1. devPanel' = [p EXCEPT !.loading = FALSE] BY <1>1, <1>6
  <2>2. /\ devPanel' \in DevPanels /\ ~devPanel'.loading
        /\ devPanel'.snap = p.snap /\ devPanel'.of = p.of
        /\ devPanel'.timer = p.timer /\ devPanel'.calls = p.calls
        /\ devPanel'.tracked = p.tracked /\ devPanel'.throttled = p.throttled
        /\ devPanel'.cache = p.cache BY <1>5, <2>1 DEF DevPanels
  <2> QED BY <1>1, <1>2, <1>3, <1>5, <1>6, <2>2
<1>7. CASE c.answer # DevFailed
  <2>1. c.answer \in DevSnaps BY <1>1, <1>4, <1>7
  <2>2. /\ q \in DevPanels /\ q.snap = p.snap /\ q.of = p.of
        /\ q.timer = p.timer /\ q.calls = p.calls
        /\ q.tracked = p.tracked /\ q.throttled = p.throttled
        /\ \A u \in DevTrackers :
             q.cache[u] = p.cache[u] \/ (c.keep \in Nat /\ u = c.of /\ q.cache[u] = entry)
    <3>1. CASE c.keep = DevNone BY <1>5, <3>1
    <3>2. CASE c.keep # DevNone
      <4>1. entry \in DevCaches BY <1>4, <2>1, <3>2 DEF DevCaches
      <4> DEFINE cache == [p.cache EXCEPT ![c.of] = entry]
      <4>2. q = [p EXCEPT !.cache = cache] BY <3>2
      <4>3. p.cache \in [DevTrackers -> DevCaches \cup {DevNone}] BY <1>5 DEF DevPanels
      <4> HIDE DEF entry, q
      <4>4. cache \in [DevTrackers -> DevCaches \cup {DevNone}]
            /\ \A u \in DevTrackers : cache[u] = IF u = c.of THEN entry ELSE p.cache[u]
        BY <1>4, <4>1, <4>3
      <4> HIDE DEF cache
      <4>5. /\ q \in DevPanels /\ q.snap = p.snap /\ q.of = p.of
            /\ q.timer = p.timer /\ q.calls = p.calls
            /\ q.tracked = p.tracked /\ q.throttled = p.throttled /\ q.cache = cache
        BY <1>5, <4>2, <4>4 DEF DevPanels
      <4> QED BY <1>4, <3>2, <4>4, <4>5
    <3> QED BY <3>1, <3>2
  <2> DEFINE x == DevApply(q, c.of, c.answer)
  <2>3. devPanel' = x BY <1>1, <1>7
  <2> HIDE DEF q
  <2>4. /\ x \in DevPanels /\ (x.snap = DevNone <=> x.of = DevNone)
        /\ x.snap = c.answer /\ x.of = c.of /\ ~x.loading
        /\ x.timer = q.timer /\ x.calls = q.calls /\ x.cache = q.cache
        /\ x.tracked = q.tracked /\ x.throttled = q.throttled
    BY Zenon, <1>4, <2>1, <2>2, DevApplyFields
  <2> HIDE DEF x
  <2>5. \A u \in DevTrackers :
           \/ devPanel'.cache[u] = devPanel.cache[u]
           \/ /\ c.keep \in Nat /\ c.answer \in DevSnaps /\ u = c.of
              /\ devPanel'.cache[u] = [run |-> c.keep, snap |-> c.answer]
    BY <1>5, <2>1, <2>2, <2>3, <2>4
  <2> QED BY <1>1, <1>3, <1>5, <1>7, <2>2, <2>3, <2>4, <2>5
<1> QED BY <1>6, <1>7

LEMMA DevAnswerKeeps ==
    ASSUME DevInv, NEW c \in devPanel.calls, DevAnswer(c)
    PROVE  DevInv'
<1>1. DevAlone /\ devUpdates' = devUpdates /\ devUpdates' \in Nat
  BY DEF DevAnswer, DevAlone, DevInv, DevTypeInv, DevStateType
<1>2. /\ devPanel' \in DevPanels /\ (devPanel'.snap = DevNone <=> devPanel'.of = DevNone)
      /\ ~devPanel'.loading /\ devPanel'.timer = devPanel.timer
      /\ devPanel'.calls = devPanel.calls \ {c} /\ devPanel'.tracked = devPanel.tracked
      /\ devPanel'.throttled = devPanel.throttled /\ c \in DevAsks /\ c.answer # DevNone
      /\ IF c.answer = DevFailed
         THEN devPanel'.snap = devPanel.snap /\ devPanel'.of = devPanel.of
         ELSE devPanel'.snap = c.answer /\ devPanel'.of = c.of BY DevAnswerFields
<1>3. \A u \in DevTrackers :
        \/ devPanel'.cache[u] = devPanel.cache[u]
        \/ /\ c.keep \in Nat /\ c.answer \in DevSnaps /\ u = c.of
           /\ devPanel'.cache[u] = [run |-> c.keep, snap |-> c.answer] BY DevAnswerFields
<1>4. /\ DevSelected' = DevSelected /\ (DevAtCursor' <=> DevAtCursor)
      /\ \A u, line : DevStateAt(u, line)' = DevStateAt(u, line)
      /\ \A x : DevRight(x)' <=> DevRight(x)
      /\ \A x : DevKeeps(x)' <=> DevKeeps(x)
      /\ \A u : DevRan(u)' <=> DevRan(u)
      /\ DevHistInv' /\ DevTypeInv' BY <1>1, <1>2, DevAloneFacts
<1>5. /\ devLive' = devLive /\ devSeen' = devSeen /\ devStored' = devStored
      /\ devRuns' = devRuns /\ devStream' = devStream /\ devCursor' = devCursor BY <1>1 DEF DevAlone
<1>6. c.keep \in Nat => c.keep \in 0 .. devSeen /\ c.of \in DevDumps /\ ~devLive
  <2>1. c.keep \in Nat => c.keep # DevNone BY DevNoneAssumption
  <2> QED BY <2>1 DEF DevInv, DevPanelInv, DevKeepInv, DevKeeps
<1>7. c.answer \in DevSnaps => c.answer # DevNone /\ c.answer # DevFailed BY DevSnapIsSome
<1>8. devSeen \in Nat BY DEF DevInv, DevTypeInv, DevStateType
<1>9. DevKeepInv'
  <2>1. \A u \in DevTrackers : devPanel'.cache[u] # DevNone => devPanel'.cache[u].run <= devSeen
    <3> TAKE u \in DevTrackers
    <3>1. CASE devPanel'.cache[u] = devPanel.cache[u] BY <3>1 DEF DevInv, DevPanelInv, DevKeepInv
    <3>2. CASE c.keep \in Nat /\ devPanel'.cache[u] = [run |-> c.keep, snap |-> c.answer]
      BY <1>6, <1>8, <3>2
    <3> QED BY <1>3, <3>1, <3>2
  <2>2. devLive => \A u \in DevTrackers : devPanel'.cache[u] = DevNone
    BY <1>3, <1>6 DEF DevInv, DevPanelInv, DevKeepInv
  <2> QED BY <1>2, <1>4, <1>5, <2>1, <2>2 DEF DevInv, DevPanelInv, DevKeepInv
<1>10. DevCurrentKeep' => DevCurrentKeep
  <2>1. ASSUME NEW u \in DevTrackers, devPanel'.cache[u] # DevNone,
               devPanel'.cache[u].run = devSeen
        PROVE  DevCurrentKeep
    <3>1. CASE devPanel'.cache[u] = devPanel.cache[u] BY <2>1, <3>1 DEF DevCurrentKeep
    <3>2. CASE devPanel'.cache[u] = [run |-> c.keep, snap |-> c.answer]
      BY <2>1, <3>2 DEF DevCurrentKeep
    <3> QED BY <1>3, <3>1, <3>2
  <2>2. devPanel'.timer # DevNone /\ devPanel'.timer.keep = devSeen => DevCurrentKeep
    BY <1>2 DEF DevCurrentKeep
  <2>3. (\E x \in devPanel'.calls : x.keep = devSeen) => DevCurrentKeep BY <1>2 DEF DevCurrentKeep
  <2> QED BY <1>5, <2>1, <2>2, <2>3 DEF DevCurrentKeep
<1>11. DevAnswerInv'
  <2>1. ~devLive' /\ (devPanel'.tracked \/ DevCurrentKeep') => \A x \in devPanel'.calls : DevRight(x)'
    BY <1>2, <1>4, <1>5, <1>10 DEF DevInv, DevPanelInv, DevAnswerInv
  <2>2. ASSUME devSeen = devStored, NEW u \in DevTrackers, devPanel'.cache[u] # DevNone,
               devPanel'.cache[u].run = devSeen, devRuns[u] # DevNone
        PROVE  u \in DevDumps /\ devPanel'.cache[u].snap = DevStateAt(u, DevNow)'
    <3>1. CASE devPanel'.cache[u] = devPanel.cache[u]
      BY <1>4, <2>2, <3>1 DEF DevInv, DevPanelInv, DevAnswerInv
    <3>2. CASE c.keep \in Nat /\ u = c.of /\ devPanel'.cache[u] = [run |-> c.keep, snap |-> c.answer]
      <4>1. c.keep = devSeen /\ devPanel'.cache[u].snap = c.answer BY <2>2, <3>2
      <4>2. DevCurrentKeep BY <4>1 DEF DevCurrentKeep
      <4>3. DevRight(c) BY <1>6, <3>2, <4>2 DEF DevInv, DevPanelInv, DevAnswerInv
      <4>4. c.answer = DevStateAt(u, c.line) BY <1>2, <2>2, <3>2, <4>3 DEF DevRight, DevRan
      <4>5. DevStateAt(u, c.line) = DevStateAt(u, DevNow) BY <1>6, <3>2 DEF DevStateAt
      <4> QED BY <1>4, <1>6, <3>2, <4>1, <4>4, <4>5
    <3> QED BY <1>3, <3>1, <3>2
  <2> QED BY <1>5, <2>1, <2>2 DEF DevAnswerInv
<1>12. DevCursorInv'
  <2> DEFINE t == DevSelected
  <2>1. SUFFICES ASSUME DevAtCursor
                 PROVE  (devPanel'.timer # DevNone =>
                           devPanel'.timer.of = t /\ devPanel'.timer.line = devCursor)
                        /\ (t \notin DevDumps =>
                             /\ \A x \in devPanel'.calls : x.of = t /\ x.line = devCursor
                             /\ \/ devPanel'.timer # DevNone \/ devPanel'.calls # {}
                                \/ DevRan(t) => devPanel'.of = t
                                                /\ devPanel'.snap = DevStateAt(t, devCursor))
                        /\ (t \in DevDumps =>
                             \/ devPanel'.timer # DevNone
                             \/ \E x \in devPanel'.calls : x.of = t
                             \/ DevRan(t) /\ devPanel'.of = t =>
                                  devPanel'.snap = DevStateAt(t, devCursor))
    <3>1. DevStateAt(t, devCursor)' = DevStateAt(t, devCursor) /\ (DevRan(t)' <=> DevRan(t))
          /\ (DevShows(t, devCursor)' <=>
                devPanel'.of = t /\ devPanel'.snap = DevStateAt(t, devCursor))
      BY <1>4, <1>5 DEF DevRan, DevShows
    <3> QED BY <1>4, <1>5, <3>1 DEF DevCursorInv
  <2>2. DevRight(c) /\ t \in DevTrackers /\ ~devLive
    BY <2>1, DevSelectedFacts DEF DevInv, DevTypeInv, DevPanelInv, DevKeepInv, DevAnswerInv,
      DevAtCursor
  <2>3. DevRan(t) => DevStateAt(t, devCursor) \in DevSnaps
    BY <2>2, DevStateAtType DEF DevInv, DevTypeInv, DevRan, DevResolve
  <2>4. ASSUME DevRan(t), c.of = t, c.line = devCursor \/ t \in DevDumps
        PROVE  devPanel'.of = t /\ devPanel'.snap = DevStateAt(t, devCursor)
    <3>1. c.answer = DevStateAt(t, c.line) BY <1>2, <2>2, <2>4 DEF DevRight
    <3>2. DevStateAt(t, c.line) = DevStateAt(t, devCursor) BY <2>4 DEF DevStateAt
    <3> QED BY <1>2, <2>3, <2>4, <3>1, <3>2, DevSnapIsSome
  <2> HIDE DEF t
  <2>5. devPanel'.timer # DevNone =>
          devPanel'.timer.of = t /\ devPanel'.timer.line = devCursor
    BY <1>2, <2>1 DEF DevInv, DevPanelInv, DevCursorInv, t
  <2>6. ASSUME t \notin DevDumps
        PROVE  /\ \A x \in devPanel'.calls : x.of = t /\ x.line = devCursor
               /\ DevRan(t) => devPanel'.of = t /\ devPanel'.snap = DevStateAt(t, devCursor)
    <3>1. \A x \in devPanel.calls : x.of = t /\ x.line = devCursor
      BY <2>1, <2>6 DEF DevInv, DevPanelInv, DevCursorInv, t
    <3> QED BY <1>2, <2>4, <3>1
  <2>7. ASSUME t \in DevDumps, devPanel'.timer = DevNone, \A x \in devPanel'.calls : x.of # t,
               DevRan(t), devPanel'.of = t
        PROVE  devPanel'.snap = DevStateAt(t, devCursor)
    <3>1. CASE c.of = t BY <2>4, <2>7, <3>1
    <3>2. CASE c.of # t
      <4>1. devPanel.timer = DevNone /\ \A x \in devPanel.calls : x.of # t BY <1>2, <2>7, <3>2
      <4>2. devPanel'.snap = devPanel.snap /\ devPanel'.of = devPanel.of BY <1>2, <2>7, <3>2
      <4> QED BY <2>1, <2>7, <4>1, <4>2 DEF DevInv, DevPanelInv, DevCursorInv, t
    <3> QED BY <3>1, <3>2
  <2> QED BY <2>5, <2>6, <2>7
<1>13. DevLiveInv'
  <2> DEFINE t == DevSelected
  <2>1. SUFFICES ASSUME devLive, t # DevNone
                 PROVE  /\ \A x \in devPanel'.calls : x.of = t /\ x.line = DevNow
                        /\ devRuns[t] = DevNone /\ devUpdates = 0 /\ ~devPanel'.throttled =>
                             /\ \A x \in devPanel'.calls :
                                  x.answer # DevNone => x.answer = DevStateAt(t, DevNow)
                             /\ devPanel'.of = t /\ devPanel'.snap = DevStateAt(t, DevNow)
    <3>1. DevStateAt(t, DevNow)' = DevStateAt(t, DevNow)
          /\ (DevShows(t, DevNow)' <=>
                devPanel'.of = t /\ devPanel'.snap = DevStateAt(t, DevNow)) BY <1>4 DEF DevShows
    <3> QED BY <1>1, <1>4, <1>5, <3>1 DEF DevLiveInv
  <2>2. t \in DevTrackers BY <2>1, DevSelectedFacts DEF DevInv, DevTypeInv
  <2>3. devStream[t] # DevNone BY <2>1, <2>2 DEF DevInv, DevPanelInv, DevKeepInv
  <2>4. DevStateAt(t, DevNow) \in DevSnaps
    BY <2>2, <2>3, DevStateAtType DEF DevInv, DevTypeInv, DevResolve
  <2>5. \A x \in devPanel.calls : x.of = t /\ x.line = DevNow
    BY <2>1 DEF DevInv, DevPanelInv, DevLiveInv
  <2>6. devRuns[t] = DevNone /\ devUpdates = 0 /\ ~devPanel.throttled =>
          \A x \in devPanel.calls : x.answer # DevNone => x.answer = DevStateAt(t, DevNow)
    BY <2>1 DEF DevInv, DevPanelInv, DevLiveInv
  <2> HIDE DEF t
  <2> QED BY <1>2, <2>4, <2>5, <2>6, DevSnapIsSome
<1> QED BY <1>4, <1>9, <1>11, <1>12, <1>13 DEF DevInv, DevPanelInv

\* The steps of the histories alone.
DevHistAlone ==
  UNCHANGED <<devRuns, devStream, devStored, devSeen, devChain, devPick, devLive, devCursor,
              devPanel, devUpdates>>

\* What is known of the history of one tracker.
DevHistRight(h, t) ==
  /\ h.loading => h.calls # {}
  /\ ~h.made => h.calls = {} /\ ~h.loading /\ h.fetched = 0
  /\ h.made /\ devSeen > 0 =>
       /\ h.fetched = devSeen
       /\ DevRan(t) => /\ \A c \in h.calls : c.answer # DevNone => c.answer = devRuns[t]
                       /\ h.calls = {} => h.lines = devRuns[t]

LEMMA DevHistStep ==
    ASSUME DevInv, DevHistAlone, NEW t \in DevTrackers, NEW h \in DevHists,
           devHist' = [devHist EXCEPT ![t] = h], h.fetched \in 0 .. devSeen, DevHistRight(h, t)
    PROVE  DevInv'
<1>1. devHist \in [DevTrackers -> DevHists] BY DEF DevInv, DevTypeInv
<1>2. devHist' \in [DevTrackers -> DevHists]
      /\ \A u \in DevTrackers : devHist'[u] = IF u = t THEN h ELSE devHist[u] BY <1>1
<1>3. DevTypeInv'
  <2>1. DevStateType' BY DEF DevInv, DevTypeInv, DevStateType, DevHistAlone
  <2>2. \A u \in DevTrackers : devHist'[u].fetched \in 0 .. devSeen'
    BY <1>2 DEF DevInv, DevTypeInv, DevHistAlone
  <2> QED BY <1>2, <2>1, <2>2 DEF DevInv, DevTypeInv, DevHistAlone
<1>4. DevPanelInv'
  <2>1. DevSelected' = DevSelected /\ (DevAtCursor' <=> DevAtCursor)
        /\ (DevCurrentKeep' <=> DevCurrentKeep)
    BY DEF DevHistAlone, DevSelected, DevAtCursor, DevCurrentKeep
  <2>2. \A u, line : DevStateAt(u, line)' = DevStateAt(u, line) BY DevStateStays DEF DevHistAlone
  <2>3. \A c : (DevRight(c)' <=> DevRight(c)) /\ (DevKeeps(c)' <=> DevKeeps(c))
    BY <2>2 DEF DevRight, DevRan, DevKeeps, DevHistAlone
  <2>4. \A u, line : DevShows(u, line)' <=> DevShows(u, line) BY <2>2 DEF DevShows, DevHistAlone
  <2>5. DevKeepInv' BY <2>1, <2>3 DEF DevInv, DevPanelInv, DevKeepInv, DevHistAlone
  <2>6. DevAnswerInv' BY <2>1, <2>2, <2>3 DEF DevInv, DevPanelInv, DevAnswerInv, DevHistAlone
  <2>7. DevCursorInv'
    <3>1. /\ DevStateAt(DevSelected, devCursor)' = DevStateAt(DevSelected, devCursor)
          /\ (DevShows(DevSelected, devCursor)' <=> DevShows(DevSelected, devCursor))
          /\ (DevRan(DevSelected)' <=> DevRan(DevSelected))
      BY <2>1, <2>2, <2>4 DEF DevHistAlone, DevRan, DevShows
    <3> QED BY <2>1, <3>1 DEF DevInv, DevPanelInv, DevCursorInv, DevHistAlone
  <2>8. DevLiveInv'
    <3>1. /\ DevStateAt(DevSelected, DevNow)' = DevStateAt(DevSelected, DevNow)
          /\ (DevShows(DevSelected, DevNow)' <=> DevShows(DevSelected, DevNow))
      BY <2>1, <2>2 DEF DevHistAlone, DevShows
    <3> QED BY <2>1, <3>1 DEF DevInv, DevPanelInv, DevLiveInv, DevHistAlone
  <2> QED BY <2>5, <2>6, <2>7, <2>8 DEF DevPanelInv
<1>5. DevHistInv'
  <2>1. \A u \in DevTrackers : DevHistRight(devHist[u], u) BY DEF DevInv, DevHistInv, DevHistRight
  <2>2. \A u \in DevTrackers : DevHistRight(devHist'[u], u) BY <1>2, <2>1
  <2> QED BY <2>2 DEF DevHistRight, DevHistInv, DevHistAlone, DevRan
<1> QED BY <1>3, <1>4, <1>5 DEF DevInv

LEMMA DevLookKeeps == ASSUME DevInv, DevLook PROVE DevInv'
<1> DEFINE t == DevSelected
           g == [devHist[t] EXCEPT !.made = TRUE]
           h == DevRefetch(g, devSeen)
           ask == [run |-> devSeen, answer |-> DevNone]
<1>1. DevHistAlone /\ t # DevNone /\ ~devHist[t].made
      /\ devHist' = [devHist EXCEPT ![t] = DevRefetch([@ EXCEPT !.made = TRUE], devSeen)]
  BY DEF DevLook, DevHistAlone
<1>2. t \in DevTrackers BY <1>1, DevSelectedFacts DEF DevInv, DevTypeInv
<1>3. devHist \in [DevTrackers -> DevHists] /\ devHist[t] \in DevHists /\ devSeen \in Nat
      /\ devHist[t].fetched \in 0 .. devSeen BY <1>2 DEF DevInv, DevTypeInv, DevStateType
<1>4. devHist' = [devHist EXCEPT ![t] = h] BY <1>1, <1>2, <1>3
<1>5. devHist[t].calls = {} /\ ~devHist[t].loading /\ devHist[t].fetched = 0
  BY <1>1, <1>2 DEF DevInv, DevHistInv
<1>6. g \in DevHists /\ g.made /\ g.calls = {} /\ ~g.loading /\ g.fetched = 0
  BY <1>3, <1>5 DEF DevHists
<1>7. ask \in DevHistAsks BY <1>3 DEF DevHistAsks, DevLineSets
<1>8. h = IF devSeen = 0 \/ g.fetched = devSeen THEN g
          ELSE [g EXCEPT !.fetched = devSeen, !.loading = TRUE, !.calls = {ask}]
  BY <1>6 DEF DevRefetch
<1> HIDE DEF g, h
<1>9. CASE devSeen = 0
  <2>1. h \in DevHists /\ h.fetched \in 0 .. devSeen /\ DevHistRight(h, t)
    BY <1>6, <1>8, <1>9 DEF DevHistRight
  <2> QED BY <1>1, <1>2, <1>4, <2>1, DevHistStep
<1>10. CASE devSeen > 0
  <2> HIDE DEF ask
  <2>1. h = [g EXCEPT !.fetched = devSeen, !.loading = TRUE, !.calls = {ask}] BY <1>6, <1>8, <1>10
  <2>2. {ask} \in SUBSET DevHistAsks /\ devSeen \in Nat BY <1>3, <1>7
  <2>3. h \in DevHists /\ h.fetched = devSeen /\ h.calls = {ask} /\ h.made
    BY <1>6, <2>1, <2>2 DEF DevHists
  <2>4. h.fetched \in 0 .. devSeen /\ DevHistRight(h, t)
    <3>1. ask.answer = DevNone BY DEF ask
    <3> QED BY <1>3, <2>3, <3>1 DEF DevHistRight
  <2> QED BY <1>1, <1>2, <1>4, <2>3, <2>4, DevHistStep
<1> QED BY <1>3, <1>9, <1>10

LEMMA DevReadsHistKeeps ==
    ASSUME DevInv, NEW t \in DevTrackers, NEW c \in devHist[t].calls, DevReadsHist(t, c)
    PROVE  DevInv'
<1> DEFINE g == devHist[t]
           answer == IF DevResolve(t) = DevNone THEN DevFailed ELSE DevResolve(t)
           d == [c EXCEPT !.answer = answer]
           h == [g EXCEPT !.calls = (@ \ {c}) \cup {d}]
<1>1. DevHistAlone /\ c.answer = DevNone /\ devHist' = [devHist EXCEPT ![t] = h]
  <2>1. devHist' = [devHist EXCEPT ![t].calls = (@ \ {c}) \cup
                      {[c EXCEPT !.answer = IF DevResolve(t) = DevNone THEN DevFailed
                                            ELSE DevResolve(t)]}] BY DEF DevReadsHist
  <2> QED BY <2>1 DEF DevReadsHist, DevHistAlone
<1>2. g \in DevHists /\ g.fetched \in 0 .. devSeen /\ DevHistRight(g, t)
  BY DEF DevInv, DevTypeInv, DevHistInv, DevHistRight
<1>3. c \in DevHistAsks /\ g.calls \in SUBSET DevHistAsks BY <1>2 DEF DevHists
<1>4. answer \in DevLineSets \cup {DevFailed} BY DEF DevResolve, DevInv, DevTypeInv, DevStateType
<1>5. DevRan(t) => answer = devRuns[t] BY DEF DevRan, DevResolve
<1> HIDE DEF answer
<1>6. d \in DevHistAsks /\ d.answer = answer BY <1>3, <1>4 DEF DevHistAsks
<1> HIDE DEF d
<1>7. (g.calls \ {c}) \cup {d} \in SUBSET DevHistAsks BY <1>3, <1>6
<1>8. h \in DevHists /\ h.fetched = g.fetched /\ h.made = g.made /\ h.loading = g.loading
      /\ h.lines = g.lines /\ h.calls = (g.calls \ {c}) \cup {d} BY <1>2, <1>7 DEF DevHists
<1> HIDE DEF g, h
<1>9. c \in g.calls BY DEF g
<1>10. DevHistRight(h, t) BY <1>2, <1>5, <1>6, <1>8, <1>9 DEF DevHistRight
<1> QED BY <1>1, <1>2, <1>8, <1>10, DevHistStep

LEMMA DevAnswerHistKeeps ==
    ASSUME DevInv, NEW t \in DevTrackers, NEW c \in devHist[t].calls, DevAnswerHist(t, c)
    PROVE  DevInv'
<1> DEFINE g == devHist[t]
           k == [g EXCEPT !.calls = @ \ {c}]
           lines == IF c.answer = DevFailed THEN k.lines ELSE c.answer
           h == [k EXCEPT !.loading = FALSE, !.lines = lines]
<1>1. DevHistAlone /\ c.answer # DevNone /\ devHist' = [devHist EXCEPT ![t] = h]
  BY DEF DevAnswerHist, DevHistAlone
<1>2. g \in DevHists /\ g.fetched \in 0 .. devSeen /\ DevHistRight(g, t)
  BY DEF DevInv, DevTypeInv, DevHistInv, DevHistRight
<1>3. c \in DevHistAsks /\ g.calls \in SUBSET DevHistAsks /\ c \in g.calls BY <1>2 DEF DevHists
<1>4. c.answer \in (SUBSET DevLines) \cup {DevFailed}
  <2>1. c.answer \in DevLineSets \cup {DevFailed} BY <1>3 DEF DevHistAsks
  <2> QED BY <1>1, <2>1 DEF DevLineSets
<1>5. g.calls \ {c} \in SUBSET DevHistAsks BY <1>3
<1> HIDE DEF g
<1>6. k \in DevHists /\ k.fetched = g.fetched /\ k.made = g.made
      /\ k.lines = g.lines /\ k.calls = g.calls \ {c} BY <1>2, <1>5 DEF DevHists
<1> HIDE DEF k
<1>7. lines \in SUBSET DevLines BY <1>4, <1>6 DEF DevHists
<1>8. DevRan(t) => devRuns[t] # DevFailed
  <2>1. devRuns[t] \in DevLineSets BY DEF DevInv, DevTypeInv, DevStateType
  <2>2. DevRan(t) => devRuns[t] \in SUBSET DevLines BY <2>1 DEF DevLineSets, DevRan
  <2> QED BY <2>2, DevLinesAreSome
<1>9. DevRan(t) /\ c.answer = devRuns[t] => lines = devRuns[t] BY <1>8
<1> HIDE DEF lines
<1>10. h \in DevHists /\ h.fetched = k.fetched /\ h.made = k.made /\ ~h.loading
       /\ h.lines = lines /\ h.calls = k.calls BY <1>6, <1>7 DEF DevHists
<1> HIDE DEF h
<1>11. DevHistRight(h, t) BY <1>1, <1>2, <1>3, <1>6, <1>9, <1>10 DEF DevHistRight
<1> QED BY <1>1, <1>2, <1>6, <1>10, <1>11, DevHistStep

----------------------------------------
LEMMA DevBlankType == DevBlank \in DevPanels /\ DevNoHist \in DevHists
<1>1. [t \in DevTrackers |-> DevNone] \in [DevTrackers -> DevCaches \cup {DevNone}] OBVIOUS
<1>2. DevBlank \in DevPanels BY <1>1 DEF DevBlank, DevPanels
<1>3. DevNoHist \in DevHists BY DEF DevNoHist, DevHists
<1> QED BY <1>2, <1>3

LEMMA DevInitHolds == ASSUME DevInit PROVE DevInv
<1> DEFINE t == DevSelected
<1>1. DevStateType
  <2>1. devStream \in [DevTrackers -> DevLineSets] BY DEF DevInit, DevLineSets
  <2>2. devRuns \in [DevTrackers -> DevLineSets] BY DEF DevInit, DevLineSets
  <2> QED BY <2>1, <2>2 DEF DevInit, DevStateType
<1>2. t \in DevTrackers \cup {DevNone} BY <1>1, DevSelectedFacts
<1>3. DevBlank \in DevPanels /\ DevBlank.snap = DevNone /\ DevBlank.of = DevNone
      /\ DevBlank.calls = {} /\ DevBlank.timer = DevNone /\ ~DevBlank.loading /\ ~DevBlank.throttled
      /\ DevBlank.cache = [u \in DevTrackers |-> DevNone] BY DevBlankType DEF DevBlank
<1>4. devCursor = 0 /\ devSeen = 0 /\ devStored = 0 /\ devUpdates = 0 /\ devLive \in BOOLEAN
      /\ devHist = [u \in DevTrackers |-> DevNoHist]
      /\ (devLive => devStream = [u \in DevTrackers |-> {}]) BY DEF DevInit
<1> HIDE DEF t
<1>5. /\ devPanel \in DevPanels /\ (devPanel.snap = DevNone <=> devPanel.of = DevNone)
      /\ devPanel.timer = DevNone /\ devPanel.cache = [u \in DevTrackers |-> DevNone]
      /\ IF devLive /\ t # DevNone
         THEN devPanel.calls = {DevAsk(t, DevNow, DevNone)}
         ELSE devPanel.calls = {} /\ ~devPanel.loading
  <2>1. CASE ~devLive
    <3>1. devPanel = DevCursorEffect(DevBlank, t, devCursor, devLive, devSeen)
      BY <1>4, <2>1 DEF DevInit, t
    <3>2. devCursor \in {DevElsewhere, 0} \cup DevLines /\ devSeen \in Nat BY <1>4
    <3>3. devLive \in BOOLEAN /\ (DevBlank.snap = DevNone <=> DevBlank.of = DevNone) BY <1>3, <1>4
    <3>4. /\ devPanel \in DevPanels /\ (devPanel.snap = DevNone <=> devPanel.of = DevNone)
          /\ devPanel.cache = DevBlank.cache
          /\ \/ DevPathElsewhere(DevBlank, devPanel, t, devCursor, devLive)
             \/ DevPathLive(DevBlank, devPanel, devLive)
             \/ DevPathNone(DevBlank, devPanel, t, devLive)
             \/ DevPathIdle(DevBlank, devPanel, devCursor, devLive)
             \/ DevPathKept(DevBlank, devPanel, t, devCursor, devLive, devSeen)
             \/ DevPathArmed(DevBlank, devPanel, t, devCursor, devLive, devSeen)
      BY <1>2, <1>3, <3>1, <3>2, <3>3, DevCursorEffectFields
    <3>5. devPanel.timer = DevNone /\ devPanel.calls = {} /\ ~devPanel.loading
      BY <1>3, <1>4, <2>1, <3>4 DEF DevPathElsewhere, DevPathLive, DevPathNone, DevPathIdle,
        DevPathKept, DevPathArmed, DevElsewhere
    <3> QED BY <1>3, <2>1, <3>4, <3>5
  <2>2. CASE devLive /\ t # DevNone
    <3> DEFINE e == DevFetchNow(DevBlank, t)
    <3>1. devPanel = e BY <2>2 DEF DevInit, DevLiveEffect, t
    <3>2. t \in DevTrackers BY <1>2, <2>2
    <3>3. /\ e \in DevPanels /\ (e.snap = DevNone <=> e.of = DevNone)
          /\ e.timer = DevBlank.timer /\ e.calls = {DevAsk(t, DevNow, DevNone)}
          /\ e.cache = DevBlank.cache BY Zenon, <1>3, <3>2, DevFetchFields
    <3> HIDE DEF e
    <3> QED BY <1>3, <2>2, <3>1, <3>3
  <2>3. CASE devLive /\ t = DevNone
    <3> DEFINE e == DevClear(DevBlank)
    <3>1. devPanel = e BY <2>3 DEF DevInit, DevLiveEffect, t
    <3>3. /\ e \in DevPanels /\ (e.snap = DevNone <=> e.of = DevNone) /\ ~e.loading
          /\ e.timer = DevBlank.timer /\ e.calls = DevBlank.calls /\ e.cache = DevBlank.cache
      BY Zenon, <1>3, DevClearFields
    <3> HIDE DEF e
    <3> QED BY <1>3, <2>3, <3>1, <3>3
  <2> QED BY <1>4, <2>1, <2>2, <2>3
<1>6. DevTypeInv
  <2>1. devHist \in [DevTrackers -> DevHists]
        /\ \A u \in DevTrackers : devHist[u].fetched \in 0 .. devSeen
    BY <1>4, DevBlankType DEF DevNoHist
  <2> QED BY <1>1, <1>5, <2>1 DEF DevTypeInv
<1>7. DevAsk(t, DevNow, DevNone).of = t /\ DevAsk(t, DevNow, DevNone).line = DevNow
      /\ DevAsk(t, DevNow, DevNone).keep = DevNone /\ DevAsk(t, DevNow, DevNone).answer = DevNone
  BY DEF DevAsk
<1>8. ~DevAtCursor BY <1>4 DEF DevAtCursor
<1>9. DevKeepInv
  <2>1. \A c \in devPanel.calls : c.keep = DevNone /\ DevKeeps(c) BY <1>5, <1>7 DEF DevKeeps
  <2>2. devLive => \A u \in DevTrackers : devStream[u] # DevNone BY <1>4, DevLinesAreSome
  <2> QED BY <1>5, <1>8, <2>1, <2>2 DEF DevKeepInv
<1>10. DevAnswerInv BY <1>5, <1>7 DEF DevAnswerInv, DevRight
<1>11. DevCursorInv BY <1>8 DEF DevCursorInv
<1>12. DevLiveInv BY <1>5, <1>7 DEF DevLiveInv, t
<1>13. DevHistInv BY <1>4 DEF DevHistInv, DevNoHist
<1> QED BY <1>6, <1>9, <1>10, <1>11, <1>12, <1>13 DEF DevInv, DevPanelInv

LEMMA DevStepKeeps == ASSUME DevInv, [DevNext]_devVars PROVE DevInv'
<1>1. CASE DevRunStores BY <1>1, DevRunStoresKeeps
<1>2. CASE DevRunSeen BY <1>2, DevRunSeenKeeps
<1>3. CASE DevUpdate BY <1>3, DevUpdateKeeps
<1>4. CASE DevRefresh BY <1>4, DevRefreshKeeps
<1>5. CASE DevStop BY <1>5, DevStopKeeps
<1>6. CASE DevLook BY <1>6, DevLookKeeps
<1>7. CASE DevDebounced BY <1>7, DevDebouncedKeeps
<1>8. CASE \E t \in DevTrackers, n \in DevLines : DevBatch(t, n) BY <1>8, DevBatchKeeps
<1>9. CASE \E chain \in DevChains : DevEditChain(chain) BY <1>9, DevEditChainKeeps
<1>10. CASE \E t \in DevTrackers : DevSetSelected(t) BY <1>10, DevSetSelectedKeeps
<1>11. CASE \E line \in {DevElsewhere} \cup DevLines : DevSetCursor(line)
  BY <1>11, DevMoveToKeeps DEF DevSetCursor
<1>12. CASE \E direction \in {"prev", "next"} : DevJump(direction) BY <1>12, DevJumpKeeps
<1>13. CASE \E c \in devPanel.calls : DevReads(c) \/ DevAnswer(c)
  BY <1>13, DevReadsKeeps, DevAnswerKeeps
<1>14. CASE \E t \in DevTrackers : \E c \in devHist[t].calls :
              DevReadsHist(t, c) \/ DevAnswerHist(t, c)
  BY <1>14, DevReadsHistKeeps, DevAnswerHistKeeps
<1>15. CASE UNCHANGED devVars
  BY <1>15 DEF devVars, DevInv, DevTypeInv, DevStateType, DevPanelInv, DevKeepInv, DevKeeps,
    DevAnswerInv, DevCursorInv, DevLiveInv, DevHistInv, DevCurrentKeep, DevRight, DevRan, DevShows,
    DevAtCursor, DevSelected, DevStateAt, DevResolve
<1> QED BY <1>1, <1>2, <1>3, <1>4, <1>5, <1>6, <1>7, <1>8, <1>9, <1>10, <1>11, <1>12, <1>13, <1>14,
     <1>15 DEF DevNext

\* The panel's state is what its code means it to be: the type invariant.
THEOREM DevTypeCorrect == DevSpec => []DevTypeOK
<1>1. DevInv => DevTypeOK
  <2> SUFFICES ASSUME DevInv PROVE DevTypeOK OBVIOUS
  <2>1. devPanel \in DevPanels /\ (devPanel.snap = DevNone <=> devPanel.of = DevNone)
        /\ DevStateType /\ \A t \in DevTrackers : devHist[t].fetched \in 0 .. devSeen
    BY DEF DevInv, DevTypeInv
  <2>2. devPanel.of \in DevTrackers \cup {DevNone} /\ devPanel.changes \subseteq DevFields
        /\ devPanel.loading \in BOOLEAN BY <2>1 DEF DevPanels
  <2> QED BY <2>1, <2>2 DEF DevTypeOK, DevStateType, DevLineSets
<1> QED BY <1>1, DevInitHolds, DevStepKeeps, PTL DEF DevSpec

\* The panel never stays loading with nothing on its way, and then shows the
\* state at its cursor, and the history it walks is that of the last run
\* (the two effects of the device state panel).
THEOREM DevPanelIsRight == DevSpec => []DevSound
<1>1. DevInv => DevPanelSettles
  <2> SUFFICES ASSUME DevInv, DevSettled PROVE DevPanelSettles BY DEF DevPanelSettles
  <2> DEFINE t == DevSelected
             line == IF devLive THEN DevNow ELSE devCursor
             claimed == t # DevNone /\
                          (IF devLive THEN devRuns[t] = DevNone
                           ELSE devCursor > 0 /\ devRuns[t] # DevNone)
  <2>1. ~devPanel.loading BY DEF DevSettled, DevInv, DevPanelInv, DevKeepInv
  <2>2. ASSUME claimed
        PROVE  /\ t \notin DevDumps => devPanel.of = t
               /\ devPanel.of = t => devPanel.snap = DevStateAt(t, line)
               /\ t \notin DevDumps /\ line \in DevResolve(t) =>
                     devPanel.snap.fields[DevField[line]] = line
    <3>1. t \in DevTrackers /\ devLive \in BOOLEAN
      BY <2>2, DevSelectedFacts DEF DevInv, DevTypeInv, DevStateType
    <3>2. /\ t \notin DevDumps => devPanel.of = t
          /\ devPanel.of = t => devPanel.snap = DevStateAt(t, line)
      <4>1. CASE devLive BY <2>2, <4>1 DEF DevSettled, DevInv, DevPanelInv, DevLiveInv, DevShows
      <4>2. CASE ~devLive
        <5>1. DevAtCursor /\ DevRan(t) BY <2>2, <4>2 DEF DevSettled, DevAtCursor, DevRan
        <5> QED BY <4>2, <5>1 DEF DevSettled, DevInv, DevPanelInv, DevCursorInv, DevShows
      <4> QED BY <3>1, <4>1, <4>2
    <3>3. DevResolve(t) \in SUBSET DevLines
      <4>1. DevResolve(t) \in DevLineSets BY <3>1 DEF DevResolve, DevInv, DevTypeInv, DevStateType
      <4>2. DevResolve(t) # DevNone BY <2>2, <3>1 DEF DevResolve, DevInv, DevPanelInv, DevKeepInv
      <4> QED BY <4>1, <4>2 DEF DevLineSets
    <3>4. ASSUME t \notin DevDumps, line \in DevResolve(t)
          PROVE  devPanel.snap.fields[DevField[line]] = line
      <4>1. DevResolve(t) # DevNone BY <3>3, DevLinesAreSome
      <4>2. devPanel.snap = DevReplay(DevResolve(t), line) BY <3>2, <3>4, <4>1 DEF DevStateAt
      <4> HIDE DEF line, t
      <4>3. DevReplay(DevResolve(t), line).fields[DevField[line]] = line
        BY <3>3, <3>4, DevReplayHasTheLine
      <4> QED BY <4>2, <4>3
    <3> QED BY <3>2, <3>4
  <2> QED BY <2>1, <2>2 DEF DevPanelSettles
<1>2. DevInv => DevHistorySettles
  <2> SUFFICES ASSUME DevInv, DevSettled, NEW t \in DevTrackers
               PROVE  /\ devHist[t].made /\ devSeen > 0 /\ devRuns[t] # DevNone =>
                           devHist[t].lines = devRuns[t] /\ ~devHist[t].loading
                      /\ t \in DOMAIN DevAllLines => DevAllLines[t] = DevResolve(t)
    BY DEF DevHistorySettles
  <2>1. devHist[t].made /\ devSeen > 0 /\ devRuns[t] # DevNone =>
          devHist[t].lines = devRuns[t] /\ ~devHist[t].loading
    BY DEF DevInv, DevHistInv, DevSettled, DevRan
  <2>2. t \in DOMAIN DevAllLines => DevAllLines[t] = DevResolve(t) BY DEF DevAllLines, DevResolve
  <2> QED BY <2>1, <2>2
<1>3. DevInv => DevSound BY <1>1, <1>2 DEF DevSound
<1> QED BY <1>3, DevInitHolds, DevStepKeeps, PTL DEF DevSpec

----------------------------------------
\* Bookmarks and analyses.

ArtOps == {"create", "update", "remove"}
ArtCalls == [pc : {"idle", "check", "change", "clear", "emit"}, entry : ArtEntries,
             op : ArtOps \cup {"restore", "close", ArtNoId}, id : ArtIds \cup {ArtNoId}]
ArtRequests == {r \in [op : ArtOps \cup {"list", "get"}, id : ArtIds \cup {ArtNoId}] :
                  r.op # "list" => r.id \in ArtIds}
ArtNews == [op : ArtOps \cup {"restore", "close"}, id : ArtIds, entry : ArtEntries]
ArtReplies == {a \in [op : ArtOps \cup {"list", "get"}, id : ArtIds \cup {ArtNoId},
                      told : [ArtIds -> ArtEntries]] : a.op # "list" => a.id \in ArtIds}
ArtLists == [ArtIds -> ArtEntries]

ArtCallOK(c) ==
    /\ artCall[c].pc # "idle" => artCall[c].id \in ArtIds /\ artCall[c].op # ArtNoId
    /\ artCall[c].pc = "clear" => artCall[c].op = "close"
    /\ artCall[c].pc = "check" => artCall[c].op = "create" /\ artKind = "bookmark"
    /\ artCall[c].op = "close" => artKind = "bookmark"
    /\ c = "ui" => artCall[c].op \notin {"restore", "close"}

ArtTypes ==
    /\ artKind \in ArtKinds /\ artOpen \in BOOLEAN /\ artStore \in ArtLists /\ artClock \in Nat
    /\ artCall \in [ArtCallers -> ArtCalls] /\ \A c \in ArtCallers : ArtCallOK(c)
    /\ artAsked \in Seq(ArtRequests) /\ artAnswers \in Seq(ArtReplies) /\ artEvents \in Seq(ArtNews)
    /\ \A e \in ToSet(artEvents) : e.op = "close" => artKind = "bookmark"
    /\ artKnown \in BOOLEAN /\ artHas \in BOOLEAN /\ artFetched \in BOOLEAN
    /\ artList \in ArtLists /\ artCache \in ArtLists
    /\ artSelected \in ArtIds \cup {ArtNoId} /\ artOvertaken \in SUBSET ArtIds
    /\ artSeen \in [ArtIds -> Nat] /\ artRestored \in 0 .. artClock /\ artStraddled \in BOOLEAN

\* What has been done to the artifact i and is still to be told, and the
\* versions of i that are anywhere.
ArtEmits(i, x) ==
    \/ \E c \in ArtCallers : /\ artCall[c].pc = "emit" /\ artCall[c].op \in ArtOps
                             /\ artCall[c].id = i /\ artCall[c].entry = x
    \/ \E e \in ToSet(artEvents) : e.op \in ArtOps /\ e.id = i /\ e.entry = x
ArtCopy(i, x) ==
    \/ x \in {ArtNever, artStore[i], artList[i], artCache[i]}
    \/ ArtEmits(i, x)
    \/ \E a \in ToSet(artAnswers) : a.told[i] = x
ArtPending(i, n) == \E x \in ArtEntries : ArtEmits(i, x) /\ x.at = n

\* A version is not newer than the store's, and there is one of each age;
\* the window has been told of no more than the store did.
ArtOrder ==
    \A i \in ArtIds :
      /\ artStore[i].at <= artClock /\ artSeen[i] <= artStore[i].at
      /\ \A x \in ArtEntries : ArtCopy(i, x) =>
           /\ x.at <= artStore[i].at /\ (x.at = artStore[i].at => x = artStore[i])
           /\ x.there => x.at > 0

\* What no restore has brought is told to the window or will be.
ArtHeard ==
    artOpen => \A i \in ArtIds, x \in ArtEntries :
      ArtCopy(i, x) /\ x.at > artRestored => artSeen[i] >= x.at \/ ArtPending(i, x.at)

\* The list of analyses: an answer that will be the last word on it, or
\* something that will ask for one.
ArtComing ==
    \/ \E c \in ArtCallers : artCall[c].pc = "emit"
    \/ artEvents # <<>>
    \/ \E r \in ToSet(artAsked) : r.op = "list"
ArtLastWord(k) ==
    /\ IF k = 0 THEN \A i \in ArtIds : ArtAgrees(artList, i)
       ELSE artAnswers[k].op = "list" /\ \A i \in ArtIds : ArtAgrees(artAnswers[k].told, i)
    /\ \A j \in k + 1 .. Len(artAnswers) : artAnswers[j].op = "get"
ArtListInv ==
    artKind = "analysis" =>
      /\ artOpen
      /\ ArtComing \/ \E k \in 0 .. Len(artAnswers) : ArtLastWord(k)

ArtCacheInv ==
    artKind = "analysis" => \A i \in ArtIds : artCache[i].there =>
      /\ artCache[i].at <= artSeen[i]
      /\ i \notin artOvertaken /\ artCache[i].at >= artRestored =>
           \/ artCache[i].at = artSeen[i]
           \/ \E x \in ArtEntries : ArtEmits(i, x) /\ x.at > artCache[i].at

\* The closing of the session of the bookmarks.
ArtClosing ==
    \/ \E c \in ArtCallers : artCall[c].op = "close" /\ artCall[c].pc \in {"clear", "emit"}
    \/ \E e \in ToSet(artEvents) : e.op = "close"
ArtClosedInv ==
    artKind = "bookmark" =>
      /\ artFetched => artKnown /\ artHas
      /\ ~artHas => artList = ArtNothing
      /\ ~artKnown \/ ArtClosing => ~artOpen
      /\ ~artOpen => ArtClosing \/ (~artKnown /\ (~artStraddled => ~artHas))
      /\ ~artOpen /\ ~artStraddled => ArtHeld = {} \/ \E c \in ArtCallers : artCall[c].pc = "clear"

\* Ids that were drawn and are not in the store yet.
ArtMaking(c) == artCall[c].op \in {"create", "restore"} /\ artCall[c].pc \in {"check", "change"}
ArtFreshInv ==
    artKind = "bookmark" =>
      /\ \A c \in ArtCallers : ArtMaking(c) =>
           /\ artStore[artCall[c].id] = ArtNever
           /\ \A d \in ArtCallers : d # c /\ ArtMaking(d) => artCall[d].id # artCall[c].id
           /\ \A k \in DOMAIN artAsked : artAsked[k].op = "create" => artAsked[k].id # artCall[c].id
      /\ \A k \in DOMAIN artAsked : artAsked[k].op = "create" =>
           /\ artStore[artAsked[k].id] = ArtNever
           /\ \A l \in DOMAIN artAsked : l # k /\ artAsked[l].op = "create" =>
                artAsked[l].id # artAsked[k].id

\* The bookmark i as it was made, and the life of a bookmark: it is made
\* once, and when it is gone it stays gone.
ArtBirth(i, x) ==
    \/ \E c \in ArtCallers : /\ artCall[c].pc = "emit" /\ artCall[c].op = "create"
                             /\ artCall[c].id = i /\ artCall[c].entry = x
    \/ \E e \in ToSet(artEvents) : e.op = "create" /\ e.id = i /\ e.entry = x
    \/ \E a \in ToSet(artAnswers) : a.op = "create" /\ a.id = i /\ a.told[i] = x
ArtReplied(i, x) == \E a \in ToSet(artAnswers) : a.op \in ArtOps /\ a.id = i /\ a.told[i] = x
ArtLifeInv ==
    artKind = "bookmark" => \A i \in ArtIds :
      /\ \A x \in ArtEntries : ArtEmits(i, x) \/ ArtReplied(i, x) => x.at > 0
      /\ \A e \in ArtEntries : ArtBirth(i, e) =>
           e.there /\ \A x \in ArtEntries : ArtCopy(i, x) /\ x.at > 0 => x.at >= e.at
      /\ artStore[i].there => \A x \in ArtEntries : ArtCopy(i, x) /\ x.at > 0 =>
           x.there /\ x.at >= artRestored

\* A bookmark of the store is in the window or will be; one of the window
\* is as new as what the window was told, or the store has it no more.
ArtFetching(i) ==
    \/ \E r \in ToSet(artAsked) : r.op = "list"
    \/ \E a \in ToSet(artAnswers) : a.op = "list" /\ a.told[i].at > 0
    \/ \E c \in ArtCallers : /\ artCall[c].pc = "emit"
                             /\ \/ artCall[c].op = "restore"
                                \/ artCall[c].op = "create" /\ artCall[c].id = i
    \/ \E e \in ToSet(artEvents) : e.op = "restore" \/ (e.op = "create" /\ e.id = i)
ArtShown(i) ==
    /\ artFetched /\ artStore[i].there => artList[i].there \/ ArtFetching(i)
    /\ i \notin artOvertaken /\ artList[i].there =>
         \/ artList[i].at = artSeen[i]
         \/ /\ ~artStore[i].there
            /\ artList[i].at < artRestored \/ ArtPending(i, artStore[i].at)
ArtShownInv == artKind = "bookmark" /\ artOpen => \A i \in ArtIds : ArtShown(i)

ArtInv ==
    /\ ArtTypes /\ ArtOrder /\ ArtHeard /\ ArtListInv /\ ArtCacheInv
    /\ ArtClosedInv /\ ArtFreshInv /\ ArtLifeInv /\ ArtShownInv

\* Sequences as the sets of their elements.
LEMMA ArtHeadTail ==
    ASSUME NEW S, NEW q \in Seq(S), q # <<>>
    PROVE  /\ Head(q) \in S /\ Tail(q) \in Seq(S) /\ Head(q) = q[1] /\ Len(q) \in Nat /\ Len(q) >= 1
           /\ Len(Tail(q)) = Len(q) - 1 /\ DOMAIN q = 1 .. Len(q)
           /\ DOMAIN Tail(q) = 1 .. Len(q) - 1
           /\ \A k \in DOMAIN Tail(q) : Tail(q)[k] = q[k + 1]
OBVIOUS

LEMMA ArtTailSet ==
    ASSUME NEW S, NEW q \in Seq(S), q # <<>>
    PROVE  /\ Head(q) \in ToSet(q)
           /\ \A x : x \in ToSet(Tail(q)) => x \in ToSet(q)
           /\ \A x : x \in ToSet(q) => x = Head(q) \/ x \in ToSet(Tail(q))
<1>1. Head(q) \in ToSet(q) BY ArtHeadTail DEF ToSet
<1>2. ASSUME NEW x, x \in ToSet(Tail(q)) PROVE x \in ToSet(q)
  <2>1. PICK k \in DOMAIN Tail(q) : x = Tail(q)[k] BY <1>2 DEF ToSet
  <2>2. k \in 1 .. Len(q) - 1 /\ Len(q) \in Nat /\ DOMAIN q = 1 .. Len(q) /\ x = q[k + 1]
    BY <2>1, ArtHeadTail
  <2>3. k + 1 \in DOMAIN q BY <2>2
  <2> QED BY <2>2, <2>3 DEF ToSet
<1>3. ASSUME NEW x, x \in ToSet(q), x # Head(q) PROVE x \in ToSet(Tail(q))
  <2>1. PICK k \in DOMAIN q : x = q[k] BY <1>3 DEF ToSet
  <2>2. k \in 1 .. Len(q) /\ Len(q) \in Nat /\ k # 1 BY <2>1, <1>3, ArtHeadTail
  <2>3. k - 1 \in DOMAIN Tail(q) /\ Tail(q)[k - 1] = q[(k - 1) + 1] /\ (k - 1) + 1 = k
    BY <2>2, ArtHeadTail
  <2> QED BY <2>1, <2>3 DEF ToSet
<1> QED BY <1>1, <1>2, <1>3

LEMMA ArtAppendSet ==
    ASSUME NEW S, NEW q \in Seq(S), NEW y \in S
    PROVE  /\ Append(q, y) \in Seq(S)
           /\ \A x : x \in ToSet(Append(q, y)) <=> x \in ToSet(q) \/ x = y
<1>1. Append(q, y) \in Seq(S) /\ Len(q) \in Nat /\ DOMAIN q = 1 .. Len(q)
        /\ DOMAIN Append(q, y) = 1 .. Len(q) + 1
        /\ Append(q, y)[Len(q) + 1] = y /\ \A k \in DOMAIN q : Append(q, y)[k] = q[k]
  OBVIOUS
<1>2. ASSUME NEW x, x \in ToSet(q) PROVE x \in ToSet(Append(q, y))
  <2>1. PICK k \in DOMAIN q : x = q[k] BY <1>2 DEF ToSet
  <2> QED BY <2>1, <1>1 DEF ToSet
<1>3. y \in ToSet(Append(q, y))
  <2>1. Len(q) + 1 \in DOMAIN Append(q, y) BY <1>1
  <2> QED BY <2>1, <1>1 DEF ToSet
<1>4. ASSUME NEW x, x \in ToSet(Append(q, y)), x # y PROVE x \in ToSet(q)
  <2>1. PICK k \in DOMAIN Append(q, y) : x = Append(q, y)[k] BY <1>4 DEF ToSet
  <2>2. k \in DOMAIN q BY <2>1, <1>1, <1>4
  <2> QED BY <2>1, <2>2, <1>1 DEF ToSet
<1> QED BY <1>1, <1>2, <1>3, <1>4

----------------------------------------
\* What every step does to the versions, and what it does to bookmarks.

ArtStep ==
    /\ artKind' = artKind /\ (artOpen' => artOpen)
    /\ \/ artClock' = artClock /\ artStore' = artStore /\ artRestored' = artRestored
       \/ /\ artClock' = artClock + 1 /\ artRestored' \in {artRestored, artClock + 1}
          /\ artStore' \in ArtLists
          /\ \A i \in ArtIds : artStore'[i] = artStore[i] \/ artStore'[i].at = artClock + 1
    /\ artSeen' \in [ArtIds -> Nat]
    /\ \A i \in ArtIds :
         /\ artSeen'[i] >= artSeen[i]
         /\ artSeen'[i] = artSeen[i] \/ \E x \in ArtEntries : ArtCopy(i, x) /\ x.at = artSeen'[i]
    /\ \A i \in ArtIds, x \in ArtEntries : ArtCopy(i, x)' => ArtCopy(i, x) \/ x = artStore'[i]
    /\ \A i \in ArtIds, x \in ArtEntries :
         ArtEmits(i, x) => ArtEmits(i, x)' \/ artSeen'[i] >= x.at
    /\ \A i \in ArtIds, x \in ArtEntries : x = artStore'[i] /\ x # artStore[i] =>
         artRestored' = artClock + 1 \/ ArtEmits(i, x)' \/ ~artOpen'

ArtLifeStep ==
    /\ \A i \in ArtIds, x \in ArtEntries : ArtEmits(i, x)' \/ ArtReplied(i, x)' =>
         ArtEmits(i, x) \/ ArtReplied(i, x) \/ x.at = artClock + 1
    /\ \A i \in ArtIds, x \in ArtEntries : ArtBirth(i, x)' =>
         ArtBirth(i, x) \/ (x = artStore'[i] /\ x.there /\ artStore[i] = ArtNever
                            /\ artClock' = artClock + 1 /\ x.at = artClock + 1)
    /\ \A i \in ArtIds : artStore'[i] # artStore[i] =>
         \/ artStore[i] = ArtNever
         \/ artStore[i].there /\ (artStore'[i].there => artRestored' = artRestored)
    /\ artRestored' # artRestored => \A i \in ArtIds : artStore'[i].there => artStore[i] = ArtNever

LEMMA ArtEntryType ==
    /\ \A x \in ArtEntries : x.at \in Nat /\ x.there \in BOOLEAN
    /\ ArtNever \in ArtEntries /\ ArtNever.at = 0 /\ ArtNever.there = FALSE
    /\ ArtNothing \in ArtLists /\ \A i \in ArtIds : ArtNothing[i] = ArtNever
    /\ \A q \in ArtLists, i \in ArtIds : q[i] \in ArtEntries
BY DEF ArtEntries, ArtNever, ArtNothing, ArtLists

LEMMA ArtOrderKept ==
    ASSUME ArtTypes, ArtOrder, ArtStep
    PROVE  ArtOrder'
<1>1. ASSUME NEW i \in ArtIds
      PROVE  /\ artStore'[i].at <= artClock' /\ artSeen'[i] <= artStore'[i].at
             /\ \A x \in ArtEntries : ArtCopy(i, x)' =>
                  /\ x.at <= artStore'[i].at /\ (x.at = artStore'[i].at => x = artStore'[i])
                  /\ x.there => x.at > 0
  <2>0. /\ artStore[i] \in ArtEntries /\ artStore[i].at \in Nat /\ artClock \in Nat
        /\ artSeen[i] \in Nat /\ artSeen'[i] \in Nat
        /\ artStore[i].at <= artClock /\ artSeen[i] <= artStore[i].at
        /\ \A x \in ArtEntries : ArtCopy(i, x) =>
             /\ x.at <= artStore[i].at /\ (x.at = artStore[i].at => x = artStore[i])
             /\ x.there => x.at > 0 BY <1>1, ArtEntryType DEF ArtTypes, ArtOrder, ArtStep
  <2>1. /\ artClock' \in {artClock, artClock + 1}
        /\ artStore'[i] = artStore[i] \/ (artStore'[i].at = artClock + 1 /\ artClock' = artClock + 1)
    BY <1>1 DEF ArtStep
  <2>2. artSeen'[i] = artSeen[i] \/ \E x \in ArtEntries : ArtCopy(i, x) /\ x.at = artSeen'[i]
    BY <1>1 DEF ArtStep
  <2>3. artStore'[i].at <= artClock' /\ artSeen'[i] <= artStore'[i].at
    <3>1. artSeen'[i] <= artStore[i].at BY <2>0, <2>2
    <3> QED BY <2>0, <2>1, <3>1
  <2>4. ASSUME NEW x \in ArtEntries, ArtCopy(i, x)'
        PROVE  /\ x.at <= artStore'[i].at /\ (x.at = artStore'[i].at => x = artStore'[i])
               /\ x.there => x.at > 0
    <3>0. x.at \in Nat /\ x.there \in BOOLEAN BY ArtEntryType
    <3>1. ArtCopy(i, x) \/ x = artStore'[i] BY <1>1, <2>4 DEF ArtStep
    <3>2. CASE ArtCopy(i, x) BY <2>0, <2>1, <3>0, <3>2
    <3>3. CASE x = artStore'[i] /\ ~ArtCopy(i, x)
      <4>1. x # artStore[i] BY <3>3 DEF ArtCopy
      <4> QED BY <2>0, <2>1, <3>0, <3>3, <4>1
    <3> QED BY <3>1, <3>2, <3>3
  <2> QED BY <2>3, <2>4
<1> QED BY <1>1 DEF ArtOrder

LEMMA ArtHeardKept ==
    ASSUME ArtTypes, ArtOrder, ArtHeard, ArtStep
    PROVE  ArtHeard'
<1> SUFFICES ASSUME artOpen', NEW i \in ArtIds, NEW x \in ArtEntries, ArtCopy(i, x)', x.at > artRestored'
             PROVE  artSeen'[i] >= x.at \/ ArtPending(i, x.at)' BY DEF ArtHeard
<1>0. x.at \in Nat /\ artSeen[i] \in Nat /\ artSeen'[i] \in Nat /\ artRestored \in Nat /\ artClock \in Nat
      /\ artRestored <= artClock BY ArtEntryType DEF ArtTypes, ArtStep
<1>1. artRestored' >= artRestored /\ artSeen'[i] >= artSeen[i] BY <1>0 DEF ArtStep
<1>2. CASE ArtCopy(i, x)
  <2>1. artSeen[i] >= x.at \/ ArtPending(i, x.at)
    <3>1. artOpen /\ x.at > artRestored BY <1>0, <1>1 DEF ArtStep
    <3> QED BY <1>2, <3>1 DEF ArtHeard
  <2>2. CASE artSeen[i] >= x.at BY <1>0, <1>1, <2>2
  <2>3. CASE ArtPending(i, x.at)
    <3>1. PICK y \in ArtEntries : ArtEmits(i, y) /\ y.at = x.at BY <2>3 DEF ArtPending
    <3>2. ArtEmits(i, y)' \/ artSeen'[i] >= y.at BY <3>1 DEF ArtStep
    <3> QED BY <3>1, <3>2 DEF ArtPending
  <2> QED BY <2>1, <2>2, <2>3
<1>3. CASE ~ArtCopy(i, x)
  <2>1. x = artStore'[i] /\ x # artStore[i] BY <1>3 DEF ArtStep, ArtCopy
  <2>2. x.at = artClock + 1 BY <2>1 DEF ArtStep
  <2>3. ArtEmits(i, x)'
    <3>1. artRestored' # artClock + 1 BY <1>0, <2>2 DEF ArtStep
    <3> QED BY <2>1, <3>1 DEF ArtStep
  <2> QED BY <2>3 DEF ArtPending
<1> QED BY <1>2, <1>3

LEMMA ArtLifeKept ==
    ASSUME ArtTypes, ArtOrder, ArtLifeInv, ArtStep, artKind = "bookmark" => ArtLifeStep
    PROVE  ArtLifeInv'
<1> SUFFICES ASSUME artKind = "bookmark", NEW i \in ArtIds
             PROVE  /\ \A x \in ArtEntries : ArtEmits(i, x)' \/ ArtReplied(i, x)' => x.at > 0
                    /\ \A e \in ArtEntries : ArtBirth(i, e)' =>
                         e.there /\ \A x \in ArtEntries : ArtCopy(i, x)' /\ x.at > 0 => x.at >= e.at
                    /\ artStore'[i].there => \A x \in ArtEntries : ArtCopy(i, x)' /\ x.at > 0 =>
                         x.there /\ x.at >= artRestored' BY DEF ArtLifeInv, ArtStep
<1>0. ArtLifeStep OBVIOUS
<1>1. /\ artClock \in Nat /\ artRestored \in Nat /\ artRestored <= artClock
      /\ artStore[i] \in ArtEntries /\ artStore[i].at \in Nat /\ artStore[i].at <= artClock
      /\ \A x \in ArtEntries : x.at \in Nat /\ x.there \in BOOLEAN
      /\ ArtNever.at = 0 /\ ArtCopy(i, artStore[i])
      /\ \A x \in ArtEntries : ArtCopy(i, x) => x.at <= artStore[i].at
  BY ArtEntryType DEF ArtTypes, ArtOrder, ArtCopy
<1>2. /\ \A x \in ArtEntries : ArtEmits(i, x) \/ ArtReplied(i, x) => x.at > 0
      /\ \A e \in ArtEntries : ArtBirth(i, e) =>
           e.there /\ \A x \in ArtEntries : ArtCopy(i, x) /\ x.at > 0 => x.at >= e.at
      /\ artStore[i].there => \A x \in ArtEntries : ArtCopy(i, x) /\ x.at > 0 =>
           x.there /\ x.at >= artRestored BY DEF ArtLifeInv
<1>3. \A x \in ArtEntries : ArtCopy(i, x)' =>
        ArtCopy(i, x) \/ (x = artStore'[i] /\ x # artStore[i] /\ x.at = artClock + 1)
  <2> SUFFICES ASSUME NEW x \in ArtEntries, ArtCopy(i, x)', ~ArtCopy(i, x)
               PROVE  x = artStore'[i] /\ x # artStore[i] /\ x.at = artClock + 1
    OBVIOUS
  <2>1. x = artStore'[i] /\ x # artStore[i] BY <1>1 DEF ArtStep
  <2> QED BY <2>1 DEF ArtStep
<1>4. ASSUME NEW x \in ArtEntries, ArtEmits(i, x)' \/ ArtReplied(i, x)' PROVE x.at > 0
  <2>1. ArtEmits(i, x) \/ ArtReplied(i, x) \/ x.at = artClock + 1 BY <1>0, <1>4 DEF ArtLifeStep
  <2> QED BY <1>1, <1>2, <2>1
<1>5. ASSUME NEW e \in ArtEntries, ArtBirth(i, e)'
      PROVE  e.there /\ \A x \in ArtEntries : ArtCopy(i, x)' /\ x.at > 0 => x.at >= e.at
  <2>1. CASE ArtBirth(i, e)
    <3>1. e.at <= artClock + 1
      <4>1. ArtCopy(i, e) BY <2>1 DEF ArtBirth, ArtCopy, ArtEmits, ArtOps
      <4> QED BY <1>1, <4>1
    <3> QED BY <1>1, <1>2, <1>3, <2>1, <3>1
  <2>2. CASE e = artStore'[i] /\ e.there /\ artStore[i] = ArtNever /\ e.at = artClock + 1
    <3>1. \A x \in ArtEntries : ArtCopy(i, x) => ~(x.at > 0) BY <1>1, <2>2
    <3> QED BY <1>1, <1>3, <2>2, <3>1
  <2> QED BY <1>0, <1>5, <2>1, <2>2 DEF ArtLifeStep
<1>6. ASSUME artStore'[i].there, NEW x \in ArtEntries, ArtCopy(i, x)', x.at > 0
      PROVE  x.there /\ x.at >= artRestored'
  <2>0. artRestored' = artRestored \/ (artRestored' = artClock + 1 /\ artStore[i] = ArtNever)
    BY <1>0, <1>6 DEF ArtLifeStep, ArtStep
  <2>1. CASE artStore[i] = ArtNever
    <3>1. x = artStore'[i] /\ x.at = artClock + 1 BY <1>1, <1>3, <1>6, <2>1
    <3> QED BY <1>1, <1>6, <2>0, <3>1
  <2>2. CASE artStore[i] # ArtNever
    <3>1. artStore[i].there /\ artRestored' = artRestored BY <1>0, <1>6, <2>0, <2>2 DEF ArtLifeStep
    <3>2. CASE ArtCopy(i, x) BY <1>2, <1>6, <3>1, <3>2
    <3>3. CASE x = artStore'[i] /\ x.at = artClock + 1 BY <1>1, <1>6, <3>1, <3>3
    <3> QED BY <1>3, <1>6, <3>2, <3>3
  <2> QED BY <2>1, <2>2
<1> QED BY <1>4, <1>5, <1>6

----------------------------------------
\* Steps that tell nothing and change no copy.

LEMMA ArtQuiet ==
    ASSUME ArtInv, UNCHANGED <<artKind, artStore, artClock, artRestored, artTold, artList, artCache,
                               artEvents, artAnswers>>,
           artOpen' = artOpen \/ (artKind = "bookmark" /\ ~artOpen'),
           \A d \in ArtCallers : \/ artCall'[d] = artCall[d]
                                 \/ artCall[d].pc # "emit" /\ artCall'[d].pc # "emit",
           \A r \in ToSet(artAsked) : r.op = "list" => r \in ToSet(artAsked'),
           artFetched' = artFetched \/ \E r \in ToSet(artAsked') : r.op = "list"
    PROVE  ArtStep /\ ArtLifeStep /\ ArtListInv' /\ ArtCacheInv' /\ ArtShownInv'
<1>1. /\ \A i, x : ArtEmits(i, x)' <=> ArtEmits(i, x)
      /\ \A i, x : ArtBirth(i, x)' <=> ArtBirth(i, x)
      /\ \A i, x : ArtReplied(i, x)' <=> ArtReplied(i, x) BY DEF ArtEmits, ArtBirth, ArtReplied
<1>2. \A i, x : ArtCopy(i, x)' <=> ArtCopy(i, x) BY <1>1 DEF ArtCopy, ArtNever
<1>3. artSeen' = artSeen /\ artOvertaken' = artOvertaken /\ (artOpen' => artOpen) BY DEF artTold
<1>4. ArtStep
  <2>1. artClock' = artClock /\ artStore' = artStore /\ artRestored' = artRestored /\ artKind' = artKind
    OBVIOUS
  <2>2. artSeen' \in [ArtIds -> Nat] /\ \A i \in ArtIds : artSeen'[i] >= artSeen[i] /\ artSeen'[i] = artSeen[i]
    BY <1>3 DEF ArtInv, ArtTypes
  <2> QED BY <1>1, <1>2, <1>3, <2>1, <2>2 DEF ArtStep
<1>5. ArtLifeStep BY <1>1 DEF ArtLifeStep
<1>6. \A c \in ArtCallers : artCall'[c].pc = "emit" <=> artCall[c].pc = "emit" OBVIOUS
<1>7. ArtListInv'
  <2>1. ArtComing => ArtComing' BY <1>6 DEF ArtComing
  <2>2. \A k : ArtLastWord(k) => ArtLastWord(k)' BY DEF ArtLastWord, ArtAgrees
  <2> QED BY <2>1, <2>2 DEF ArtInv, ArtListInv
<1>8. ArtCacheInv' BY <1>1, <1>3 DEF ArtInv, ArtCacheInv
<1>9. ArtShownInv'
  <2>1. \A i, n : ArtPending(i, n) => ArtPending(i, n)' BY <1>1 DEF ArtPending
  <2>2. \A i : ArtFetching(i) => ArtFetching(i)' BY DEF ArtFetching
  <2>3. \A i : artFetched' # artFetched => ArtFetching(i)' BY DEF ArtFetching
  <2>4. ASSUME artKind = "bookmark", artOpen, NEW i \in ArtIds PROVE ArtShown(i)'
    <3>1. ArtShown(i) BY <2>4 DEF ArtInv, ArtShownInv
    <3>2. artStore'[i] = artStore[i] /\ artList'[i] = artList[i] /\ artRestored' = artRestored
          /\ artSeen'[i] = artSeen[i] /\ artOvertaken' = artOvertaken BY <1>3
    <3>3. (artFetched /\ artStore[i].there => artList[i].there \/ ArtFetching(i))'
      BY <3>1, <3>2, <2>2, <2>3 DEF ArtShown
    <3>4. (i \notin artOvertaken /\ artList[i].there =>
             \/ artList[i].at = artSeen[i]
             \/ ~artStore[i].there /\ (artList[i].at < artRestored \/ ArtPending(i, artStore[i].at)))'
      <4>1. ArtPending(i, artStore[i].at) => ArtPending(i, artStore[i].at)' BY <1>1 DEF ArtPending
      <4> QED BY <3>1, <3>2, <4>1 DEF ArtShown
    <3> QED BY <3>3, <3>4 DEF ArtShown
  <2> QED BY <1>3, <2>4 DEF ArtShownInv
<1> QED BY <1>4, <1>5, <1>7, <1>8, <1>9

\* What the goal of every step is.
ArtKept ==
    /\ ArtTypes' /\ ArtStep /\ (artKind = "bookmark" => ArtLifeStep) /\ ArtListInv' /\ ArtCacheInv'
    /\ ArtClosedInv' /\ ArtFreshInv' /\ ArtShownInv'

LEMMA ArtKeptInv ==
    ASSUME ArtInv, ArtKept
    PROVE  ArtInv' BY ArtOrderKept, ArtHeardKept, ArtLifeKept DEF ArtInv, ArtKept

LEMMA ArtIdleType == ArtIdle \in ArtCalls /\ ArtIdle.pc = "idle" /\ ArtIdle.op = ArtNoId
BY ArtEntryType DEF ArtIdle, ArtCalls

LEMMA ArtCallStartKept ==
    ASSUME ArtInv, NEW c \in ArtAgents, ArtCallStart(c)
    PROVE  ArtKept
<1>1. PICK op \in {"create", "update", "remove", "restore", "close"}, i \in ArtIds :
        /\ artCall[c].pc = "idle"
        /\ op = "create" \/ (op = "restore" /\ artKind = "bookmark") => ArtFresh(i)
        /\ op = "close" => artKind = "bookmark" /\ artOpen
        /\ artCall' = [artCall EXCEPT ![c] = ArtCalled(op, i)]
        /\ UNCHANGED <<artKind, artBack, artAsked, artEvents, artAnswers, artWin, artTold, artGhost>>
  BY Zenon DEF ArtCallStart
<1> DEFINE r == ArtCalled(op, i)
<1>2. /\ r \in ArtCalls /\ r.op = op /\ r.id = i /\ r.pc \in {"check", "change"}
      /\ (r.pc = "check" => op = "create" /\ artKind = "bookmark")
  BY ArtEntryType DEF ArtCalled, ArtCalls, ArtOps
<1> HIDE DEF r
<1>3. /\ c \in ArtCallers /\ c # "ui" /\ artCall'[c] = r
      /\ \A d \in ArtCallers : d # c => artCall'[d] = artCall[d]
      /\ artCall' \in [ArtCallers -> ArtCalls]
  BY <1>1, <1>2, ArtAssumption DEF ArtInv, ArtTypes, ArtCallers, r
<1>4. UNCHANGED <<artKind, artOpen, artStore, artClock, artAsked, artEvents, artAnswers, artKnown, artHas,
                  artFetched, artList, artCache, artSelected, artSeen, artOvertaken, artRestored, artStraddled>>
  BY <1>1 DEF artBack, artWin, artTold, artGhost
<1>5. ArtStep /\ ArtLifeStep /\ ArtListInv' /\ ArtCacheInv' /\ ArtShownInv'
  <2>1. \A d \in ArtCallers : artCall'[d] = artCall[d] \/ (artCall[d].pc # "emit" /\ artCall'[d].pc # "emit")
    BY <1>1, <1>2, <1>3
  <2> QED BY <1>4, <2>1, ArtQuiet DEF artTold
<1>6. ArtTypes'
  <2>1. \A d \in ArtCallers : ArtCallOK(d)'
    <3>1. ArtCallOK(c)' BY <1>1, <1>2, <1>3, <1>4 DEF ArtCallOK, ArtNoId
    <3> QED BY <1>3, <1>4, <3>1 DEF ArtInv, ArtTypes, ArtCallOK
  <2> QED BY <1>3, <1>4, <2>1 DEF ArtInv, ArtTypes
<1>7. ArtClosedInv'
  <2>1. ArtClosing' => ArtClosing BY <1>2, <1>3, <1>4 DEF ArtClosing
  <2>2. ArtClosing => ArtClosing' BY <1>1, <1>3, <1>4 DEF ArtClosing
  <2>3. (\E d \in ArtCallers : artCall[d].pc = "clear") => \E d \in ArtCallers : artCall'[d].pc = "clear"
    BY <1>1, <1>3
  <2>4. ArtHeld' = ArtHeld /\ ArtNothing' = ArtNothing BY <1>4 DEF ArtHeld, ArtNothing, ArtNever
  <2> QED BY <1>4, <2>1, <2>2, <2>3, <2>4 DEF ArtInv, ArtClosedInv
<1>8. ArtFreshInv'
  <2>1. SUFFICES ASSUME artKind = "bookmark" PROVE ArtFreshInv' BY <1>4 DEF ArtFreshInv
  <2>2. \A d \in ArtCallers : d # c => (ArtMaking(d)' <=> ArtMaking(d)) BY <1>3 DEF ArtMaking
  <2>3. ArtMaking(c)' => ArtFresh(i) /\ artCall'[c].id = i BY <1>1, <1>2, <1>3, <2>1 DEF ArtMaking
  <2> QED BY <1>3, <1>4, <2>1, <2>2, <2>3 DEF ArtInv, ArtFreshInv, ArtFresh
<1> QED BY <1>5, <1>6, <1>7, <1>8 DEF ArtKept

LEMMA ArtCheckKept ==
    ASSUME ArtInv, NEW c \in ArtCallers, ArtCheck(c) \/ ArtNotFound(c)
    PROVE  ArtKept
<1>1. PICK r : /\ artCall[c].pc \in {"check", "change"}
               /\ artCall' = [artCall EXCEPT ![c] = r]
               /\ r = ArtIdle \/ (artCall[c].pc = "check" /\ r = [artCall[c] EXCEPT !.pc = "change"])
               /\ UNCHANGED <<artKind, artBack, artAsked, artEvents, artAnswers, artWin, artTold, artGhost>>
  BY DEF ArtCheck, ArtNotFound
<1>2. /\ r \in ArtCalls
      /\ \/ r.pc = "idle" /\ r.op = ArtNoId
         \/ r.pc = "change" /\ r.op = artCall[c].op /\ r.id = artCall[c].id /\ artCall[c].pc = "check"
  BY <1>1, ArtIdleType DEF ArtInv, ArtTypes, ArtCalls
<1>3. /\ artCall'[c] = r
      /\ \A d \in ArtCallers : d # c => artCall'[d] = artCall[d]
      /\ artCall' \in [ArtCallers -> ArtCalls] BY <1>1, <1>2 DEF ArtInv, ArtTypes
<1>4. UNCHANGED <<artKind, artOpen, artStore, artClock, artAsked, artEvents, artAnswers, artKnown, artHas,
                  artFetched, artList, artCache, artSelected, artSeen, artOvertaken, artRestored, artStraddled>>
  BY <1>1 DEF artBack, artWin, artTold, artGhost
<1>5. ArtStep /\ ArtLifeStep /\ ArtListInv' /\ ArtCacheInv' /\ ArtShownInv'
  <2>1. \A d \in ArtCallers : artCall'[d] = artCall[d] \/ (artCall[d].pc # "emit" /\ artCall'[d].pc # "emit")
    BY <1>1, <1>2, <1>3
  <2> QED BY <1>4, <2>1, ArtQuiet DEF artTold
<1>6. ArtTypes'
  <2>1. \A d \in ArtCallers : ArtCallOK(d)'
    <3>1. ArtCallOK(c)' BY <1>1, <1>2, <1>3, <1>4 DEF ArtInv, ArtTypes, ArtCallOK, ArtNoId
    <3> QED BY <1>3, <1>4, <3>1 DEF ArtInv, ArtTypes, ArtCallOK
  <2> QED BY <1>3, <1>4, <2>1 DEF ArtInv, ArtTypes
<1>7. ArtClosedInv'
  <2>1. ArtClosing' <=> ArtClosing BY <1>1, <1>2, <1>3, <1>4 DEF ArtClosing
  <2>3. (\E d \in ArtCallers : artCall[d].pc = "clear") => \E d \in ArtCallers : artCall'[d].pc = "clear"
    BY <1>1, <1>3
  <2>4. ArtHeld' = ArtHeld /\ ArtNothing' = ArtNothing BY <1>4 DEF ArtHeld, ArtNothing, ArtNever
  <2> QED BY <1>4, <2>1, <2>3, <2>4 DEF ArtInv, ArtClosedInv
<1>8. ArtFreshInv'
  <2>2. \A d \in ArtCallers : ArtMaking(d)' => ArtMaking(d) /\ artCall'[d].id = artCall[d].id
    BY <1>1, <1>2, <1>3 DEF ArtMaking, ArtNoId
  <2> QED BY <1>3, <1>4, <2>2 DEF ArtInv, ArtFreshInv
<1> QED BY <1>5, <1>6, <1>7, <1>8 DEF ArtKept

----------------------------------------
\* The commands of the window and what the user does.

LEMMA ArtCommandCall ==
    ASSUME ArtInv, ArtCommandStart, Head(artAsked).op \in ArtOps
    PROVE  ArtKept
<1> DEFINE q == Head(artAsked)
           r == ArtCalled(q.op, q.id)
<1>1. /\ artCall["ui"].pc = "idle" /\ artAsked # <<>> /\ q.op \in ArtOps
      /\ artAsked' = Tail(artAsked) /\ artCall' = [artCall EXCEPT !["ui"] = r]
      /\ UNCHANGED <<artKind, artBack, artEvents, artAnswers, artWin, artTold, artGhost>>
  BY DEF ArtCommandStart, ArtOps
<1>2. /\ q = artAsked[1] /\ q \in ArtRequests /\ artAsked' \in Seq(ArtRequests) /\ Len(artAsked) \in Nat
      /\ 1 \in DOMAIN artAsked
      /\ \A k \in DOMAIN artAsked' : k \in Nat /\ k + 1 \in DOMAIN artAsked /\ artAsked'[k] = artAsked[k + 1] /\ k + 1 # 1
      /\ \A x : x \in ToSet(artAsked) => x = q \/ x \in ToSet(artAsked')
  <2>1. artAsked \in Seq(ArtRequests) /\ artAsked # <<>> BY <1>1 DEF ArtInv, ArtTypes
  <2>2. /\ Head(artAsked) \in ArtRequests /\ Tail(artAsked) \in Seq(ArtRequests) /\ Head(artAsked) = artAsked[1]
        /\ Len(artAsked) \in Nat /\ Len(artAsked) >= 1 /\ DOMAIN artAsked = 1 .. Len(artAsked)
        /\ DOMAIN Tail(artAsked) = 1 .. Len(artAsked) - 1
        /\ \A k \in DOMAIN Tail(artAsked) : Tail(artAsked)[k] = artAsked[k + 1] BY <2>1, ArtHeadTail
  <2>3. \A x : x \in ToSet(artAsked) => x = Head(artAsked) \/ x \in ToSet(Tail(artAsked))
    BY <2>1, ArtTailSet
  <2> QED BY <1>1, <2>2, <2>3
<1>3. q.op \in ArtOps /\ q.id \in ArtIds /\ q.op # "list" BY <1>1, <1>2 DEF ArtRequests, ArtOps
<1>4. /\ r \in ArtCalls /\ r.op = q.op /\ r.id = q.id /\ r.pc \in {"check", "change"}
      /\ (r.pc = "check" => r.op = "create" /\ artKind = "bookmark")
  BY <1>3, ArtEntryType DEF ArtCalled, ArtCalls, ArtOps
<1> HIDE DEF r, q
<1>5. /\ "ui" \in ArtCallers /\ artCall'["ui"] = r
      /\ \A d \in ArtCallers : d # "ui" => artCall'[d] = artCall[d]
      /\ artCall' \in [ArtCallers -> ArtCalls] BY <1>1, <1>4 DEF ArtInv, ArtTypes, ArtCallers
<1>6. UNCHANGED <<artKind, artOpen, artStore, artClock, artEvents, artAnswers, artKnown, artHas,
                  artFetched, artList, artCache, artSelected, artSeen, artOvertaken, artRestored, artStraddled>>
  BY <1>1 DEF artBack, artWin, artTold, artGhost
<1>7. ArtStep /\ ArtLifeStep /\ ArtListInv' /\ ArtCacheInv' /\ ArtShownInv'
  <2>1. \A d \in ArtCallers : artCall'[d] = artCall[d] \/ (artCall[d].pc # "emit" /\ artCall'[d].pc # "emit")
    BY <1>1, <1>4, <1>5
  <2>2. \A x \in ToSet(artAsked) : x.op = "list" => x \in ToSet(artAsked') BY <1>2, <1>3
  <2> QED BY <1>6, <2>1, <2>2, ArtQuiet DEF artTold
<1>8. ArtTypes'
  <2>1. \A d \in ArtCallers : ArtCallOK(d)'
    <3>1. ArtCallOK("ui")' BY <1>3, <1>4, <1>5, <1>6 DEF ArtCallOK, ArtNoId, ArtOps
    <3> QED BY <1>5, <1>6, <3>1 DEF ArtInv, ArtTypes, ArtCallOK
  <2> QED BY <1>2, <1>5, <1>6, <2>1 DEF ArtInv, ArtTypes
<1>9. ArtClosedInv'
  <2>1. ArtClosing' <=> ArtClosing BY <1>1, <1>3, <1>4, <1>5, <1>6 DEF ArtClosing, ArtOps
  <2>3. (\E d \in ArtCallers : artCall[d].pc = "clear") => \E d \in ArtCallers : artCall'[d].pc = "clear"
    BY <1>1, <1>5
  <2>4. ArtHeld' = ArtHeld /\ ArtNothing' = ArtNothing BY <1>6 DEF ArtHeld, ArtNothing, ArtNever
  <2> QED BY <1>6, <2>1, <2>3, <2>4 DEF ArtInv, ArtClosedInv
<1>10. ArtFreshInv'
  <2>1. SUFFICES ASSUME artKind = "bookmark" PROVE ArtFreshInv' BY <1>6 DEF ArtFreshInv
  <2>2. \A d \in ArtCallers : d # "ui" => (ArtMaking(d)' <=> ArtMaking(d)) BY <1>5 DEF ArtMaking
  <2>3. ArtMaking("ui")' => artAsked[1].op = "create" /\ artCall'["ui"].id = artAsked[1].id
    BY <1>2, <1>3, <1>4, <1>5 DEF ArtMaking, ArtOps
  <2>4. /\ \A d \in ArtCallers : ArtMaking(d) =>
             /\ artStore[artCall[d].id] = ArtNever
             /\ \A e \in ArtCallers : e # d /\ ArtMaking(e) => artCall[e].id # artCall[d].id
             /\ \A k \in DOMAIN artAsked : artAsked[k].op = "create" => artAsked[k].id # artCall[d].id
        /\ \A k \in DOMAIN artAsked : artAsked[k].op = "create" =>
             /\ artStore[artAsked[k].id] = ArtNever
             /\ \A l \in DOMAIN artAsked : l # k /\ artAsked[l].op = "create" =>
                  artAsked[l].id # artAsked[k].id BY <2>1 DEF ArtInv, ArtFreshInv
  <2>5. \A k, l \in DOMAIN artAsked' : l # k => l + 1 # k + 1 BY <1>2
  <2>6. \A d \in ArtCallers : ArtMaking(d)' =>
             /\ artStore[artCall'[d].id] = ArtNever
             /\ \A e \in ArtCallers : e # d /\ ArtMaking(e)' => artCall'[e].id # artCall'[d].id
             /\ \A k \in DOMAIN artAsked' : artAsked'[k].op = "create" => artAsked'[k].id # artCall'[d].id
    <3> SUFFICES ASSUME NEW d \in ArtCallers, ArtMaking(d)'
                 PROVE  /\ artStore[artCall'[d].id] = ArtNever
                        /\ \A e \in ArtCallers : e # d /\ ArtMaking(e)' => artCall'[e].id # artCall'[d].id
                        /\ \A k \in DOMAIN artAsked' : artAsked'[k].op = "create" => artAsked'[k].id # artCall'[d].id
      OBVIOUS
    <3>1. CASE d = "ui" BY <1>2, <1>5, <2>2, <2>3, <2>4, <3>1
    <3>2. CASE d # "ui" BY <1>2, <1>5, <2>2, <2>3, <2>4, <3>2
    <3> QED BY <3>1, <3>2
  <2>7. \A k \in DOMAIN artAsked' : artAsked'[k].op = "create" =>
             /\ artStore[artAsked'[k].id] = ArtNever
             /\ \A l \in DOMAIN artAsked' : l # k /\ artAsked'[l].op = "create" =>
                  artAsked'[l].id # artAsked'[k].id BY <1>2, <2>4, <2>5
  <2> QED BY <1>6, <2>6, <2>7 DEF ArtFreshInv, ArtNever
<1> QED BY <1>7, <1>8, <1>9, <1>10 DEF ArtKept

LEMMA ArtCommandRead ==
    ASSUME ArtInv, ArtCommandStart, Head(artAsked).op \in {"list", "get"}
    PROVE  ArtKept
<1> DEFINE q == Head(artAsked)
<1>1. /\ artAsked # <<>> /\ q.op \in {"list", "get"}
      /\ artAsked' = Tail(artAsked) /\ artCall' = artCall
      /\ artAnswers' = Append(artAnswers, ArtAnswer(q.op, q.id, artStore))
      /\ UNCHANGED <<artKind, artBack, artEvents, artWin, artTold, artGhost>> BY DEF ArtCommandStart
<1>2. /\ q \in ArtRequests /\ artAsked' \in Seq(ArtRequests)
      /\ \A k \in DOMAIN artAsked' : k \in Nat /\ k + 1 \in DOMAIN artAsked /\ artAsked'[k] = artAsked[k + 1]
      /\ \A x : x \in ToSet(artAsked) => x = q \/ x \in ToSet(artAsked')
  <2>1. artAsked \in Seq(ArtRequests) /\ artAsked # <<>> BY <1>1 DEF ArtInv, ArtTypes
  <2>2. /\ Head(artAsked) \in ArtRequests /\ Tail(artAsked) \in Seq(ArtRequests)
        /\ Len(artAsked) \in Nat /\ Len(artAsked) >= 1 /\ DOMAIN artAsked = 1 .. Len(artAsked)
        /\ DOMAIN Tail(artAsked) = 1 .. Len(artAsked) - 1
        /\ \A k \in DOMAIN Tail(artAsked) : Tail(artAsked)[k] = artAsked[k + 1] BY <2>1, ArtHeadTail
  <2>3. \A x : x \in ToSet(artAsked) => x = Head(artAsked) \/ x \in ToSet(Tail(artAsked))
    BY <2>1, ArtTailSet
  <2> QED BY <1>1, <2>2, <2>3
<1> HIDE DEF q
<1>3. UNCHANGED <<artKind, artOpen, artStore, artClock, artCall, artEvents, artKnown, artHas,
                  artFetched, artList, artCache, artSelected, artSeen, artOvertaken, artRestored, artStraddled>>
  BY <1>1 DEF artBack, artWin, artTold, artGhost
<1> DEFINE a == ArtAnswer(q.op, q.id, artStore)
<1>4. a \in ArtReplies /\ a.op = q.op /\ a.told = artStore
  BY <1>1, <1>2 DEF ArtInv, ArtTypes, ArtAnswer, ArtReplies, ArtRequests, ArtLists
<1> HIDE DEF a
<1>5. /\ artAnswers' \in Seq(ArtReplies)
      /\ \A x : x \in ToSet(artAnswers') <=> x \in ToSet(artAnswers) \/ x = a
      /\ Len(artAnswers) \in Nat /\ Len(artAnswers') = Len(artAnswers) + 1
      /\ artAnswers'[Len(artAnswers) + 1] = a
      /\ \A k \in 1 .. Len(artAnswers) : artAnswers'[k] = artAnswers[k]
  <2>1. artAnswers \in Seq(ArtReplies) /\ artAnswers' = Append(artAnswers, a)
    BY <1>1 DEF ArtInv, ArtTypes, a
  <2>2. /\ Append(artAnswers, a) \in Seq(ArtReplies)
        /\ \A x : x \in ToSet(Append(artAnswers, a)) <=> x \in ToSet(artAnswers) \/ x = a
    BY <1>4, <2>1, ArtAppendSet
  <2> QED BY <1>4, <2>1, <2>2
<1>6. /\ \A i, x : ArtEmits(i, x)' <=> ArtEmits(i, x)
      /\ \A i, x : ArtBirth(i, x)' <=> ArtBirth(i, x)
      /\ \A i, x : ArtReplied(i, x)' <=> ArtReplied(i, x)
  BY <1>1, <1>3, <1>4, <1>5 DEF ArtEmits, ArtBirth, ArtReplied, ArtOps
<1>7. \A i, x : ArtCopy(i, x)' => ArtCopy(i, x) BY <1>3, <1>4, <1>5, <1>6 DEF ArtCopy, ArtNever
<1>8. ArtStep
  <2>1. artSeen' \in [ArtIds -> Nat] /\ \A i \in ArtIds : artSeen'[i] >= artSeen[i] /\ artSeen'[i] = artSeen[i]
    BY <1>3 DEF ArtInv, ArtTypes
  <2> QED BY <1>3, <1>6, <1>7, <2>1 DEF ArtStep
<1>9. ArtLifeStep BY <1>3, <1>6 DEF ArtLifeStep
<1>10. ArtTypes'
  <2>1. \A d \in ArtCallers : ArtCallOK(d)' BY <1>3 DEF ArtInv, ArtTypes, ArtCallOK
  <2> QED BY <1>2, <1>3, <1>5, <2>1 DEF ArtInv, ArtTypes
<1>11. ArtListInv'
  <2>1. SUFFICES ASSUME artKind = "analysis" PROVE ArtListInv' BY <1>3 DEF ArtListInv
  <2>2. artOpen' /\ (ArtComing \/ \E k \in 0 .. Len(artAnswers) : ArtLastWord(k))
    BY <1>3, <2>1 DEF ArtInv, ArtListInv
  <2>3. CASE q.op = "list"
    <3>0. PICK n \in Nat : n = Len(artAnswers) + 1 BY <1>5
    <3>1. ArtLastWord(n)'
      <4>0. artAnswers'[n] = a /\ a.told = artStore' BY <1>3, <1>4, <1>5, <3>0
      <4>1. \A i \in ArtIds : ArtAgrees(artAnswers[n].told, i)'
        <5>1. \A i \in ArtIds : artStore'[i].there \in BOOLEAN
          BY <1>3, ArtEntryType DEF ArtInv, ArtTypes
        <5> QED BY <4>0, <5>1 DEF ArtAgrees
      <4>2. n # 0 /\ n + 1 .. Len(artAnswers') = {} BY <1>5, <3>0
      <4>3. artAnswers'[n].op = "list" BY <1>4, <4>0, <2>3
      <4> QED BY <4>1, <4>2, <4>3 DEF ArtLastWord
    <3>2. n \in 0 .. Len(artAnswers') BY <1>5, <3>0
    <3> QED BY <1>3, <2>2, <3>1, <3>2 DEF ArtListInv
  <2>4. CASE q.op # "list"
    <3>1. q.op = "get" BY <1>1, <2>4
    <3>2. ArtComing => ArtComing' BY <1>2, <1>3, <2>4 DEF ArtComing
    <3>3. ASSUME NEW k \in 0 .. Len(artAnswers), ArtLastWord(k) PROVE ArtLastWord(k)'
      <4>1. \A j \in k + 1 .. Len(artAnswers') : artAnswers'[j].op = "get"
        BY <1>4, <1>5, <3>1, <3>3 DEF ArtLastWord
      <4>2. k # 0 => artAnswers'[k] = artAnswers[k] BY <1>5
      <4>3. (IF k = 0 THEN \A i \in ArtIds : ArtAgrees(artList, i)
             ELSE artAnswers[k].op = "list" /\ \A i \in ArtIds : ArtAgrees(artAnswers[k].told, i))'
        BY <1>3, <3>3, <4>2 DEF ArtLastWord, ArtAgrees
      <4> QED BY <4>1, <4>3 DEF ArtLastWord
    <3>4. \A k \in 0 .. Len(artAnswers) : k \in 0 .. Len(artAnswers') BY <1>5
    <3> QED BY <1>3, <2>2, <3>2, <3>3, <3>4 DEF ArtListInv
  <2> QED BY <2>3, <2>4
<1>12. ArtCacheInv' BY <1>3, <1>6 DEF ArtInv, ArtCacheInv
<1>13. ArtClosedInv'
  <2>1. ArtClosing' <=> ArtClosing BY <1>3 DEF ArtClosing
  <2>2. ArtHeld' = ArtHeld /\ ArtNothing' = ArtNothing BY <1>3 DEF ArtHeld, ArtNothing, ArtNever
  <2> QED BY <1>3, <2>1, <2>2 DEF ArtInv, ArtClosedInv
<1>14. ArtFreshInv'
  <2>1. \A d \in ArtCallers : ArtMaking(d)' <=> ArtMaking(d) BY <1>3 DEF ArtMaking
  <2>2. \A k, l \in DOMAIN artAsked' : l # k => l + 1 # k + 1 BY <1>2
  <2> QED BY <1>2, <1>3, <2>1, <2>2 DEF ArtInv, ArtFreshInv, ArtNever
<1>15. ArtShownInv'
  <2> SUFFICES ASSUME artKind = "bookmark", artOpen, NEW i \in ArtIds PROVE ArtShown(i)'
    BY <1>3 DEF ArtShownInv
  <2>1. ArtShown(i) BY DEF ArtInv, ArtShownInv
  <2>2. artStore[i].there => artStore[i].at > 0
    BY ArtEntryType DEF ArtInv, ArtOrder, ArtCopy, ArtTypes
  <2>3. ArtFetching(i) /\ artStore[i].there => ArtFetching(i)'
    BY <1>2, <1>3, <1>4, <1>5, <2>2 DEF ArtFetching
  <2>4. ArtPending(i, artStore[i].at) => ArtPending(i, artStore[i].at)' BY <1>3, <1>6 DEF ArtPending
  <2> QED BY <1>3, <2>1, <2>3, <2>4 DEF ArtShown
<1> QED BY <1>8, <1>9, <1>10, <1>11, <1>12, <1>13, <1>14, <1>15 DEF ArtKept

LEMMA ArtClickKept ==
    ASSUME ArtInv, ArtClick
    PROVE  ArtKept
<1>0. UNCHANGED <<artKind, artOpen, artStore, artClock, artCall, artEvents, artAnswers, artKnown,
                  artList, artCache, artSeen, artOvertaken, artRestored, artStraddled>>
  BY DEF ArtClick, artBack, artTold, artGhost
<1>1. artAsked \in Seq(ArtRequests) BY DEF ArtInv, ArtTypes
<1>2. PICK r : /\ \/ r.op = "create" /\ ArtFresh(r.id)
                  \/ r.op # "create"
               /\ r \in ArtRequests
               /\ \/ artAsked' = Append(artAsked, r)
                  \/ artAsked' = artAsked
               /\ \/ UNCHANGED <<artHas, artFetched>>
                  \/ /\ artKnown /\ artFetched' = TRUE /\ artHas' = TRUE
                     /\ artAsked' = Append(artAsked, r) /\ r.op = "list"
               /\ artSelected' \in ArtIds \cup {ArtNoId}
  <2>1. CASE \E i \in ArtIds, op \in {"create", "update", "remove"} :
               /\ IF op = "create" THEN ArtFresh(i) ELSE artList[i].there
               /\ artKind = "bookmark" => artKnown
               /\ artAsked' = Append(artAsked, ArtRequest(op, i))
               /\ UNCHANGED <<artHas, artFetched, artSelected>>
    <3>1. PICK i \in ArtIds, op \in {"create", "update", "remove"} :
               /\ IF op = "create" THEN ArtFresh(i) ELSE artList[i].there
               /\ artAsked' = Append(artAsked, ArtRequest(op, i))
               /\ UNCHANGED <<artHas, artFetched, artSelected>> BY <2>1
    <3>2. ArtRequest(op, i) \in ArtRequests /\ ArtRequest(op, i).op = op /\ ArtRequest(op, i).id = i
      BY DEF ArtRequest, ArtRequests, ArtOps
    <3>3. artSelected' \in ArtIds \cup {ArtNoId} BY <3>1 DEF ArtInv, ArtTypes
    <3> QED BY <3>1, <3>2, <3>3
  <2>2. CASE \E i \in ArtIds :
               /\ artKind = "analysis" /\ artList[i].there /\ artSelected' = i
               /\ artAsked' = IF artCache[i].there THEN artAsked
                              ELSE Append(artAsked, ArtRequest("get", i))
               /\ UNCHANGED <<artHas, artFetched>>
    <3>1. PICK i \in ArtIds :
               /\ artSelected' = i
               /\ artAsked' = artAsked \/ artAsked' = Append(artAsked, ArtRequest("get", i))
               /\ UNCHANGED <<artHas, artFetched>> BY <2>2
    <3>2. ArtRequest("get", i) \in ArtRequests /\ ArtRequest("get", i).op = "get"
      BY DEF ArtRequest, ArtRequests, ArtOps
    <3> QED BY <3>1, <3>2
  <2>3. CASE /\ artKind = "bookmark" /\ artKnown /\ ~artFetched
             /\ artFetched' = TRUE /\ artHas' = TRUE
             /\ artAsked' = Append(artAsked, ArtRequest("list", ArtNoId)) /\ UNCHANGED artSelected
    <3>2. ArtRequest("list", ArtNoId) \in ArtRequests /\ ArtRequest("list", ArtNoId).op = "list"
      BY DEF ArtRequest, ArtRequests, ArtOps
    <3>3. artSelected' \in ArtIds \cup {ArtNoId} BY <2>3 DEF ArtInv, ArtTypes
    <3> QED BY <2>3, <3>2, <3>3
  <2> QED BY <2>1, <2>2, <2>3 DEF ArtClick
<1>3. /\ artAsked' \in Seq(ArtRequests)
      /\ \A x : x \in ToSet(artAsked) => x \in ToSet(artAsked')
      /\ artAsked' = Append(artAsked, r) => r \in ToSet(artAsked')
  <2>1. /\ Append(artAsked, r) \in Seq(ArtRequests)
        /\ \A x : x \in ToSet(Append(artAsked, r)) <=> x \in ToSet(artAsked) \/ x = r
    BY <1>1, <1>2, ArtAppendSet
  <2> QED BY <1>1, <1>2, <2>1
<1>4. ArtStep /\ ArtLifeStep /\ ArtListInv' /\ ArtCacheInv' /\ ArtShownInv'
  BY <1>0, <1>2, <1>3, ArtQuiet DEF artTold
<1>5. ArtTypes'
  <2>1. \A d \in ArtCallers : ArtCallOK(d)' BY <1>0 DEF ArtInv, ArtTypes, ArtCallOK
  <2>2. artHas' \in BOOLEAN /\ artFetched' \in BOOLEAN BY <1>2 DEF ArtInv, ArtTypes
  <2> QED BY <1>0, <1>2, <1>3, <2>1, <2>2 DEF ArtInv, ArtTypes
<1>6. ArtClosedInv'
  <2>1. ArtClosing' <=> ArtClosing BY <1>0 DEF ArtClosing
  <2>2. ArtHeld' = ArtHeld /\ ArtNothing' = ArtNothing BY <1>0 DEF ArtHeld, ArtNothing, ArtNever
  <2>3. CASE UNCHANGED <<artHas, artFetched>> BY <1>0, <2>1, <2>2, <2>3 DEF ArtInv, ArtClosedInv
  <2>4. CASE artKnown /\ artFetched' = TRUE /\ artHas' = TRUE
    BY <1>0, <2>1, <2>2, <2>4 DEF ArtInv, ArtClosedInv
  <2> QED BY <1>2, <2>3, <2>4
<1>7. ArtFreshInv'
  <2>1. \A d \in ArtCallers : ArtMaking(d)' <=> ArtMaking(d) BY <1>0 DEF ArtMaking
  <2>2. CASE artAsked' = artAsked BY <1>0, <2>1, <2>2 DEF ArtInv, ArtFreshInv, ArtNever
  <2>3. CASE artAsked' = Append(artAsked, r)
    <3>0. SUFFICES ASSUME artKind = "bookmark" PROVE ArtFreshInv' BY <1>0 DEF ArtFreshInv
    <3>1. \A k \in DOMAIN artAsked' : \/ k \in DOMAIN artAsked /\ artAsked'[k] = artAsked[k]
                                      \/ k = Len(artAsked) + 1 /\ artAsked'[k] = r BY <1>1, <2>3
    <3>2. r.op = "create" => ArtFresh(r.id) BY <1>2
    <3>3. \A d \in ArtCallers : ArtMaking(d) => \A k \in DOMAIN artAsked' :
            artAsked'[k].op = "create" => artAsked'[k].id # artCall[d].id
      BY <3>0, <3>1, <3>2 DEF ArtInv, ArtFreshInv, ArtFresh
    <3>4. \A k \in DOMAIN artAsked' : artAsked'[k].op = "create" =>
             /\ artStore[artAsked'[k].id] = ArtNever
             /\ \A l \in DOMAIN artAsked' : l # k /\ artAsked'[l].op = "create" =>
                  artAsked'[l].id # artAsked'[k].id
      BY <3>0, <3>1, <3>2 DEF ArtInv, ArtFreshInv, ArtFresh
    <3> QED BY <1>0, <2>1, <3>0, <3>3, <3>4 DEF ArtInv, ArtFreshInv, ArtNever
  <2> QED BY <1>2, <2>2, <2>3
<1> QED BY <1>4, <1>5, <1>6, <1>7 DEF ArtKept

----------------------------------------
\* The mutations.

LEMMA ArtCloseKept ==
    ASSUME ArtInv, NEW c \in ArtCallers, ArtChange(c), artCall[c].op = "close"
    PROVE  ArtKept
<1> DEFINE r == [artCall[c] EXCEPT !.pc = "clear", !.entry = artStore[artCall[c].id]]
<1>1. /\ artCall[c].pc = "change" /\ artOpen' = FALSE /\ artCall' = [artCall EXCEPT ![c] = r]
      /\ UNCHANGED <<artKind, artStore, artClock, artAsked, artEvents, artAnswers, artWin, artTold, artGhost>>
  BY DEF ArtChange
<1>2. /\ artCall[c] \in ArtCalls /\ artCall[c].id \in ArtIds /\ artKind = "bookmark"
      /\ artStore[artCall[c].id] \in ArtEntries
  BY <1>1, ArtEntryType DEF ArtInv, ArtTypes, ArtCallOK
<1>3. r \in ArtCalls /\ r.pc = "clear" /\ r.op = "close" /\ r.id = artCall[c].id
  BY <1>2 DEF ArtCalls
<1> HIDE DEF r
<1>4. /\ artCall'[c] = r
      /\ \A d \in ArtCallers : d # c => artCall'[d] = artCall[d]
      /\ artCall' \in [ArtCallers -> ArtCalls] BY <1>1, <1>3 DEF ArtInv, ArtTypes
<1>5. UNCHANGED <<artKind, artStore, artClock, artAsked, artEvents, artAnswers, artKnown, artHas,
                  artFetched, artList, artCache, artSelected, artSeen, artOvertaken, artRestored, artStraddled>>
  BY <1>1 DEF artWin, artTold, artGhost
<1>6. ArtStep /\ ArtLifeStep /\ ArtListInv' /\ ArtCacheInv' /\ ArtShownInv'
  <2>1. \A d \in ArtCallers : artCall'[d] = artCall[d] \/ (artCall[d].pc # "emit" /\ artCall'[d].pc # "emit")
    BY <1>1, <1>3, <1>4
  <2> QED BY <1>1, <1>2, <1>5, <2>1, ArtQuiet DEF artTold
<1>7. ArtTypes'
  <2>1. \A d \in ArtCallers : ArtCallOK(d)'
    <3>1. ArtCallOK(c)' BY <1>1, <1>2, <1>3, <1>4, <1>5 DEF ArtInv, ArtTypes, ArtCallOK, ArtNoId
    <3> QED BY <1>4, <1>5, <3>1 DEF ArtInv, ArtTypes, ArtCallOK
  <2> QED BY <1>1, <1>4, <1>5, <2>1 DEF ArtInv, ArtTypes
<1>8. ArtClosedInv'
  <2>1. ArtClosing' /\ \E d \in ArtCallers : artCall'[d].pc = "clear" BY <1>3, <1>4 DEF ArtClosing
  <2>2. ArtHeld' = ArtHeld /\ ArtNothing' = ArtNothing BY <1>5 DEF ArtHeld, ArtNothing, ArtNever
  <2> QED BY <1>1, <1>5, <2>1, <2>2 DEF ArtInv, ArtClosedInv
<1>9. ArtFreshInv'
  <2>1. \A d \in ArtCallers : ArtMaking(d)' => ArtMaking(d) /\ artCall'[d].id = artCall[d].id
    BY <1>1, <1>3, <1>4 DEF ArtMaking
  <2> QED BY <1>4, <1>5, <2>1 DEF ArtInv, ArtFreshInv, ArtNever
<1> QED BY <1>6, <1>7, <1>8, <1>9 DEF ArtKept

\* A step that puts something in the store: what the mutations have in
\* common.
ArtPuts(c, ids, there, r) ==
    /\ ArtPut(ids, there) /\ ids \in SUBSET ArtIds
    /\ artCall[c].pc \in {"change", "clear"} /\ (artCall[c].op = "close" => artCall[c].pc = "clear")
    /\ artCall' = [artCall EXCEPT ![c] = r]
    /\ r \in ArtCalls /\ r.pc = "emit" /\ r.op = artCall[c].op /\ r.id = artCall[c].id
    /\ UNCHANGED <<artKind, artOpen, artAsked, artEvents, artAnswers, artWin, artTold>>
    /\ \/ artRestored' = artRestored
       \/ artRestored' = artClock + 1 /\ r.op = "restore"
    /\ r.op \in ArtOps => r.id \in ids /\ \A x : x = artStore'[r.id] => r.entry = x
    /\ \A i \in ids : artRestored' = artClock + 1 \/ (r.op \in ArtOps /\ i = r.id) \/ ~artOpen
    /\ artStraddled' \in BOOLEAN
    /\ artKind = "bookmark" =>
         /\ \A i \in ids : artStore[i].there \/ (i = r.id /\ ArtMaking(c))
         /\ \A i \in ids : artStore[i].there /\ i \in there => artRestored' = artRestored
         /\ artRestored' # artRestored => \A i \in ArtIds : artStore[i].there => i \in ids
         /\ r.op = "create" => r.id \in there
         /\ IF r.op = "close" THEN ids = ArtHeld /\ there = {} /\ artStraddled' = artStraddled
            ELSE artStraddled' = (artStraddled \/ ~artOpen)

LEMMA ArtPutsKept ==
    ASSUME ArtInv, NEW c \in ArtCallers, NEW ids, NEW there, NEW r, ArtPuts(c, ids, there, r)
    PROVE  ArtKept
<1>0. /\ artClock \in Nat /\ artRestored \in Nat /\ artRestored <= artClock /\ artStore \in ArtLists
      /\ artCall \in [ArtCallers -> ArtCalls] /\ \A d \in ArtCallers : ArtCallOK(d)
      /\ artSeen \in [ArtIds -> Nat]
      /\ \A x \in ArtEntries : x.at \in Nat /\ x.there \in BOOLEAN
      /\ \A i \in ArtIds : artStore[i] \in ArtEntries /\ artList[i] \in ArtEntries
  BY ArtEntryType DEF ArtInv, ArtTypes
<1>1. UNCHANGED <<artKind, artOpen, artAsked, artEvents, artAnswers, artKnown, artHas, artFetched, artList,
                  artCache, artSelected, artSeen, artOvertaken>> BY DEF ArtPuts, artWin, artTold
<1>2. /\ artCall'[c] = r /\ r.pc = "emit" /\ r \in ArtCalls
      /\ artCall[c].pc \in {"change", "clear"} /\ r.op = artCall[c].op /\ r.id = artCall[c].id
      /\ r.id \in ArtIds /\ r.op # ArtNoId
      /\ \A d \in ArtCallers : d # c => artCall'[d] = artCall[d]
      /\ artCall' \in [ArtCallers -> ArtCalls] BY <1>0 DEF ArtPuts, ArtCallOK
<1>3. /\ artClock' = artClock + 1 /\ artStore' \in ArtLists
      /\ \A i \in ArtIds : i \notin ids => artStore'[i] = artStore[i]
      /\ \A i \in ArtIds : i \in ids => artStore'[i].at = artClock + 1 /\ artStore'[i].there = (i \in there)
  <2>1. /\ artClock' = artClock + 1
        /\ artStore' = [i \in ArtIds |-> IF i \in ids THEN [at |-> artClock + 1, there |-> i \in there]
                                         ELSE artStore[i]] BY DEF ArtPuts, ArtPut
  <2> QED BY <1>0, <2>1 DEF ArtLists, ArtEntries
<1>4. \A i, x : ArtEmits(i, x) => ArtEmits(i, x)' BY <1>1, <1>2 DEF ArtEmits
<1>5. \A i \in ArtIds, x \in ArtEntries : ArtEmits(i, x)' => ArtEmits(i, x) \/ (x = artStore'[i] /\ i \in ids)
  BY <1>1, <1>2 DEF ArtEmits, ArtPuts
<1>6. \A i \in ArtIds, x \in ArtEntries : ArtCopy(i, x)' => ArtCopy(i, x) \/ x = artStore'[i]
  BY <1>1, <1>5 DEF ArtCopy, ArtNever
<1>7. \A i \in ArtIds, x \in ArtEntries : r.op \in ArtOps /\ i = r.id /\ x = artStore'[i] => ArtEmits(i, x)'
  BY <1>2 DEF ArtEmits, ArtPuts
<1>8. artRestored' \in {artRestored, artClock + 1} /\ (artRestored' = artRestored \/ r.op = "restore")
  BY DEF ArtPuts
<1>9. ArtStep
  <2>1. \A i \in ArtIds, x \in ArtEntries : x = artStore'[i] /\ x # artStore[i] =>
           artRestored' = artClock + 1 \/ ArtEmits(i, x)' \/ ~artOpen'
    BY <1>1, <1>3, <1>7 DEF ArtPuts
  <2>2. \A i \in ArtIds : artStore'[i] = artStore[i] \/ artStore'[i].at = artClock + 1 BY <1>3
  <2>3. artSeen' \in [ArtIds -> Nat] /\ \A i \in ArtIds : artSeen'[i] >= artSeen[i] /\ artSeen'[i] = artSeen[i]
    BY <1>0, <1>1
  <2> QED BY <1>1, <1>3, <1>4, <1>6, <1>8, <2>1, <2>2, <2>3 DEF ArtStep
<1>10. ArtTypes'
  <2>1. \A d \in ArtCallers : ArtCallOK(d)'
    <3>1. ArtCallOK(c)' BY <1>0, <1>1, <1>2 DEF ArtCallOK
    <3> QED BY <1>0, <1>1, <1>2, <3>1 DEF ArtCallOK
  <2>2. artRestored' \in 0 .. artClock' /\ artClock' \in Nat /\ artStraddled' \in BOOLEAN
    BY <1>0, <1>3, <1>8 DEF ArtPuts
  <2> QED BY <1>1, <1>2, <1>3, <2>1, <2>2 DEF ArtInv, ArtTypes
<1>11. ArtListInv'
  <2>1. ArtComing' BY <1>2 DEF ArtComing
  <2> QED BY <1>1, <2>1 DEF ArtInv, ArtListInv
<1>12. ArtCacheInv'
  <2> SUFFICES ASSUME artKind = "analysis", NEW i \in ArtIds, artCache[i].there
               PROVE  /\ artCache[i].at <= artSeen[i]
                      /\ i \notin artOvertaken /\ artCache[i].at >= artRestored' =>
                           \/ artCache[i].at = artSeen[i]
                           \/ \E x \in ArtEntries : ArtEmits(i, x)' /\ x.at > artCache[i].at
    BY <1>1 DEF ArtCacheInv
  <2>1. artCache[i].at \in Nat BY ArtEntryType DEF ArtInv, ArtTypes
  <2>2. artCache[i].at >= artRestored' => artCache[i].at >= artRestored BY <1>0, <1>8, <2>1
  <2> QED BY <1>4, <2>2 DEF ArtInv, ArtCacheInv
<1>13. CASE artKind # "bookmark"
  <2>1. ArtClosedInv' /\ ArtFreshInv' /\ ArtShownInv'
    BY <1>1, <1>13 DEF ArtClosedInv, ArtFreshInv, ArtShownInv
  <2> QED BY <1>9, <1>10, <1>11, <1>12, <1>13, <2>1 DEF ArtKept
<1>14. CASE artKind = "bookmark"
  <2>1. \A i \in ids : artStore[i].there \/ (i = r.id /\ ArtMaking(c) /\ artStore[i] = ArtNever)
    BY <1>2, <1>14 DEF ArtInv, ArtFreshInv, ArtPuts
  <2>2. r.op = "create" => artStore[r.id] = ArtNever /\ r.id \in there /\ r.id \in ids
    <3>1. SUFFICES ASSUME r.op = "create"
                   PROVE  artStore[r.id] = ArtNever /\ r.id \in there /\ r.id \in ids
      OBVIOUS
    <3>2. r.id \in there /\ r.id \in ids BY <1>14, <3>1 DEF ArtPuts, ArtOps
    <3>3. ArtMaking(c) BY <1>0, <1>2, <3>1 DEF ArtCallOK, ArtMaking
    <3> QED BY <1>2, <1>14, <3>2, <3>3 DEF ArtInv, ArtFreshInv
  <2>3. ArtLifeStep
    <3>1. \A i \in ArtIds, x \in ArtEntries : ArtReplied(i, x)' => ArtReplied(i, x)
      BY <1>1 DEF ArtReplied
    <3>2. \A i \in ArtIds, x \in ArtEntries : ArtEmits(i, x)' => ArtEmits(i, x) \/ x.at = artClock + 1
      BY <1>3, <1>5
    <3>3. \A i \in ArtIds, x \in ArtEntries : ArtBirth(i, x)' =>
            ArtBirth(i, x) \/ (x = artStore'[i] /\ r.op = "create" /\ i = r.id)
      BY <1>1, <1>2 DEF ArtBirth, ArtPuts, ArtOps
    <3>4. \A i \in ArtIds, x \in ArtEntries : ArtBirth(i, x)' =>
            ArtBirth(i, x) \/ (x = artStore'[i] /\ x.there /\ artStore[i] = ArtNever
                            /\ artClock' = artClock + 1 /\ x.at = artClock + 1) BY <1>3, <2>2, <3>3
    <3>5. \A i \in ArtIds : artStore'[i] # artStore[i] =>
             \/ artStore[i] = ArtNever
             \/ artStore[i].there /\ (artStore'[i].there => artRestored' = artRestored)
      BY <1>3, <1>14, <2>1 DEF ArtPuts
    <3>6. ASSUME artRestored' # artRestored, NEW i \in ArtIds, artStore'[i].there PROVE artStore[i] = ArtNever
      <4>1. i \in ids BY <1>3, <1>14, <3>6 DEF ArtPuts
      <4>2. ~artStore[i].there BY <1>3, <1>14, <3>6, <4>1 DEF ArtPuts
      <4> QED BY <2>1, <4>1, <4>2
    <3> QED BY <3>1, <3>2, <3>4, <3>5, <3>6 DEF ArtLifeStep
  <2>4. ArtClosedInv'
    <3>1. ArtClosing' <=> ArtClosing BY <1>1, <1>2 DEF ArtClosing, ArtPuts
    <3>2. ArtNothing' = ArtNothing BY DEF ArtNothing, ArtNever
    <3>3. ~artOpen /\ ~artStraddled' => ArtHeld' = {}
      <4>1. SUFFICES ASSUME ~artOpen, ~artStraddled' PROVE ArtHeld' = {} OBVIOUS
      <4>2. ids = ArtHeld /\ there = {} BY <1>14, <4>1 DEF ArtPuts
      <4>3. \A i \in ArtIds : ~artStore'[i].there BY <1>3, <4>2 DEF ArtHeld
      <4> QED BY <4>3 DEF ArtHeld
    <3>4. ~artStraddled' => ~artStraddled BY <1>14 DEF ArtPuts
    <3> QED BY <1>1, <3>1, <3>2, <3>3, <3>4 DEF ArtInv, ArtClosedInv
  <2>5. ArtFreshInv'
    <3>1. \A d \in ArtCallers : ArtMaking(d)' => ArtMaking(d) /\ d # c /\ artCall'[d] = artCall[d]
      BY <1>2 DEF ArtMaking
    <3>2. ASSUME NEW i, artStore[i] = ArtNever, ArtMaking(c) => i # artCall[c].id, i \in ArtIds
          PROVE  artStore'[i] = ArtNever
      <4>1. i \notin ids BY <1>2, <2>1, <3>2 DEF ArtNever
      <4> QED BY <1>3, <3>2, <4>1
    <3>3. ASSUME NEW d \in ArtCallers, ArtMaking(d)' PROVE artStore'[artCall[d].id] = ArtNever
      <4>1. artStore[artCall[d].id] = ArtNever /\ (ArtMaking(c) => artCall[d].id # artCall[c].id)
        BY <1>14, <3>1, <3>3 DEF ArtInv, ArtFreshInv
      <4>2. artCall[d].id \in ArtIds BY <1>0, <3>1, <3>3 DEF ArtCallOK, ArtMaking
      <4> QED BY <3>2, <4>1, <4>2
    <3>4. ASSUME NEW k \in DOMAIN artAsked, artAsked[k].op = "create" PROVE artStore'[artAsked[k].id] = ArtNever
      <4>1. artStore[artAsked[k].id] = ArtNever /\ (ArtMaking(c) => artAsked[k].id # artCall[c].id)
        BY <1>14, <3>4 DEF ArtInv, ArtFreshInv
      <4>2. artAsked[k].id \in ArtIds BY <3>4 DEF ArtInv, ArtTypes, ArtRequests
      <4> QED BY <3>2, <4>1, <4>2
    <3> QED BY <1>1, <1>14, <3>1, <3>3, <3>4 DEF ArtInv, ArtFreshInv, ArtNever
  <2>6. ArtShownInv'
    <3> SUFFICES ASSUME artOpen, NEW i \in ArtIds PROVE ArtShown(i)' BY <1>1 DEF ArtShownInv
    <3>1. ArtShown(i) BY <1>14 DEF ArtInv, ArtShownInv
    <3>2. ArtFetching(i) => ArtFetching(i)' BY <1>1, <1>2 DEF ArtFetching
    <3>3. artFetched' /\ artStore'[i].there => artList'[i].there \/ ArtFetching(i)'
      <4>1. CASE artStore[i].there BY <1>1, <3>1, <3>2, <4>1 DEF ArtShown
      <4>2. CASE ~artStore[i].there /\ artStore'[i].there
        <5>1. i \in ids BY <1>3, <4>2
        <5>2. i = r.id /\ ArtMaking(c) BY <2>1, <4>2, <5>1
        <5>3. r.op \in {"create", "restore"} BY <1>2, <5>2 DEF ArtMaking
        <5> QED BY <1>2, <5>2, <5>3 DEF ArtFetching
      <4> QED BY <4>1, <4>2
    <3>4. ASSUME i \notin artOvertaken, artList[i].there
          PROVE  (\/ artList[i].at = artSeen[i]
                  \/ ~artStore[i].there /\ (artList[i].at < artRestored \/ ArtPending(i, artStore[i].at)))'
      <4>1. CASE artList[i].at = artSeen[i] BY <1>1, <4>1
      <4>2. CASE artList[i].at # artSeen[i]
        <5>1. ~artStore[i].there /\ (artList[i].at < artRestored \/ ArtPending(i, artStore[i].at))
          BY <3>1, <3>4, <4>2 DEF ArtShown
        <5>2. i \notin ids
          <6>1. SUFFICES ASSUME artStore[i] = ArtNever PROVE FALSE BY <2>1, <5>1
          <6>2. artList[i].at > 0 /\ artList[i].at <= artStore[i].at
            BY <1>0, <3>4 DEF ArtInv, ArtOrder, ArtCopy
          <6>3. artStore[i].at = 0 /\ artList[i].at \in Nat BY <1>0, <6>1 DEF ArtNever
          <6> QED BY <6>2, <6>3
        <5>3. artStore'[i] = artStore[i] BY <1>3, <5>2
        <5>4. artList[i].at < artRestored => artList[i].at < artRestored' BY <1>0, <1>8
        <5>5. ArtPending(i, artStore[i].at) => ArtPending(i, artStore[i].at)'
          BY <1>4, <5>3 DEF ArtPending
        <5> QED BY <1>1, <5>1, <5>3, <5>4, <5>5
      <4> QED BY <4>1, <4>2
    <3> QED BY <1>1, <3>3, <3>4 DEF ArtShown
  <2> QED BY <1>9, <1>10, <1>11, <1>12, <2>3, <2>4, <2>5, <2>6 DEF ArtKept
<1> QED BY <1>13, <1>14

LEMMA ArtChangeKept ==
    ASSUME ArtInv, NEW c \in ArtCallers, ArtChange(c)
    PROVE  ArtKept
<1> SUFFICES ASSUME artCall[c].op # "close" PROVE ArtKept BY ArtCloseKept
<1>0. /\ artCall[c] \in ArtCalls /\ artCall[c].id \in ArtIds /\ artCall[c].op # ArtNoId
      /\ artCall[c].pc = "change" /\ artStraddled \in BOOLEAN /\ artOpen \in BOOLEAN
  BY DEF ArtChange, ArtInv, ArtTypes, ArtCallOK
<1>1. PICK ids, there : /\ ArtPut(ids, there) /\ ids \in SUBSET ArtIds
                        /\ \/ /\ artCall[c].op \in ArtOps /\ ArtFound(artCall[c])
                              /\ ids = {artCall[c].id}
                              /\ there = IF artCall[c].op = "remove" THEN {} ELSE {artCall[c].id}
                              /\ artStraddled' = (artStraddled \/ ~artOpen)
                              /\ artRestored' = artRestored
                           \/ /\ artCall[c].op = "restore" /\ artRestored' = artClock + 1
                              /\ IF artKind = "analysis" THEN artStraddled' = artStraddled
                                 ELSE /\ ids = ArtHeld \cup {artCall[c].id} /\ there = {artCall[c].id}
                                      /\ artStraddled' = (artStraddled \/ ~artOpen)
  <2>1. CASE artCall[c].op \in ArtOps BY <1>0, <2>1 DEF ArtChange, ArtOps
  <2>2. CASE artCall[c].op = "restore" /\ artKind = "analysis"
    <3>1. PICK kept \in SUBSET ArtIds : ArtPut(ArtIds, kept)
      BY <2>2 DEF ArtChange, ArtRestoreAnalyses
    <3>2. artStraddled' = artStraddled /\ artRestored' = artClock + 1
      BY <2>2 DEF ArtChange, ArtRestoreAnalyses
    <3>3. ArtIds \in SUBSET ArtIds OBVIOUS
    <3> QED BY <2>2, <3>1, <3>2, <3>3
  <2>3. CASE artCall[c].op = "restore" /\ artKind # "analysis"
    <3>1. /\ ArtPut(ArtHeld \cup {artCall[c].id}, {artCall[c].id})
          /\ artStraddled' = (artStraddled \/ ~artOpen) /\ artRestored' = artClock + 1
      BY <2>3 DEF ArtChange, ArtRestoreBookmarks
    <3>2. ArtHeld \cup {artCall[c].id} \in SUBSET ArtIds BY <1>0 DEF ArtHeld
    <3> QED BY <2>3, <3>1, <3>2
  <2> QED BY <1>0, <2>1, <2>2, <2>3 DEF ArtCalls
<1>2. PICK e : e = artStore'[artCall[c].id] OBVIOUS
<1> DEFINE r == [artCall[c] EXCEPT !.pc = "emit", !.entry = e]
<1>3. e \in ArtEntries BY <1>0, <1>1, <1>2, ArtEntryType DEF ArtPut, ArtInv, ArtTypes, ArtEntries
<1>4. /\ artCall' = [artCall EXCEPT ![c] = r]
      /\ r \in ArtCalls /\ r.pc = "emit" /\ r.op = artCall[c].op /\ r.id = artCall[c].id /\ r.entry = e
  <2>1. artCall' = [artCall EXCEPT ![c] = r] BY <1>2 DEF ArtChange
  <2> QED BY <1>0, <1>3, <2>1 DEF ArtCalls
<1> HIDE DEF r
<1>5. UNCHANGED <<artKind, artOpen, artAsked, artEvents, artAnswers, artWin, artTold>>
  BY <1>0 DEF ArtChange
<1>6. artStraddled' \in BOOLEAN BY <1>0, <1>1
<1>7. ASSUME artKind = "bookmark"
      PROVE /\ \A i \in ids : artStore[i].there \/ (i = r.id /\ ArtMaking(c))
            /\ \A i \in ids : artStore[i].there /\ i \in there => artRestored' = artRestored
            /\ artRestored' # artRestored => \A i \in ArtIds : artStore[i].there => i \in ids
            /\ r.op = "create" => r.id \in there
            /\ artStraddled' = (artStraddled \/ ~artOpen)
  <2>1. CASE artCall[c].op \in ArtOps
    <3>1. /\ ids = {artCall[c].id} /\ artRestored' = artRestored /\ ArtFound(artCall[c])
          /\ there = (IF artCall[c].op = "remove" THEN {} ELSE {artCall[c].id})
          /\ artStraddled' = (artStraddled \/ ~artOpen) BY <1>1, <2>1 DEF ArtOps
    <3> QED BY <1>0, <1>4, <2>1, <3>1 DEF ArtFound, ArtMaking, ArtOps
  <2>2. CASE artCall[c].op = "restore"
    <3>1. /\ ids = ArtHeld \cup {artCall[c].id} /\ there = {artCall[c].id}
          /\ artStraddled' = (artStraddled \/ ~artOpen) BY <1>1, <1>7, <2>2 DEF ArtOps
    <3>2. ArtMaking(c) /\ artStore[artCall[c].id] = ArtNever
      BY <1>0, <1>7, <2>2 DEF ArtMaking, ArtInv, ArtFreshInv
    <3> QED BY <1>4, <2>2, <3>1, <3>2 DEF ArtHeld, ArtNever
  <2> QED BY <1>0, <2>1, <2>2 DEF ArtCalls
<1>8. r.op \in ArtOps => r.id \in ids /\ \A x : x = artStore'[r.id] => r.entry = x
  BY <1>1, <1>2, <1>4 DEF ArtOps
<1>9. \A i \in ids : artRestored' = artClock + 1 \/ (r.op \in ArtOps /\ i = r.id) \/ ~artOpen
  BY <1>1, <1>4
<1>10. artRestored' = artRestored \/ (artRestored' = artClock + 1 /\ r.op = "restore") BY <1>1, <1>4
<1>11. ArtPuts(c, ids, there, r)
  BY <1>0, <1>1, <1>4, <1>5, <1>6, <1>7, <1>8, <1>9, <1>10 DEF ArtPuts
<1> QED BY <1>11, ArtPutsKept

LEMMA ArtClearKept ==
    ASSUME ArtInv, NEW c \in ArtCallers, ArtClear(c)
    PROVE  ArtKept
<1> DEFINE r == [artCall[c] EXCEPT !.pc = "emit"]
<1>1. /\ artCall[c].pc = "clear" /\ ArtPut(ArtHeld, {}) /\ artCall' = [artCall EXCEPT ![c] = r]
      /\ UNCHANGED <<artKind, artOpen, artAsked, artEvents, artAnswers, artWin, artTold, artGhost>>
  BY DEF ArtClear
<1>2. artCall[c] \in ArtCalls /\ artCall[c].op = "close" /\ artKind = "bookmark"
  BY <1>1 DEF ArtInv, ArtTypes, ArtCallOK
<1>3. r \in ArtCalls /\ r.pc = "emit" /\ r.op = "close" /\ r.id = artCall[c].id BY <1>2 DEF ArtCalls
<1> HIDE DEF r
<1>4. ~artOpen BY <1>1, <1>2 DEF ArtInv, ArtClosedInv, ArtClosing
<1>5. ArtHeld \in SUBSET ArtIds /\ \A i \in ArtIds : artStore[i].there <=> i \in ArtHeld
  BY DEF ArtHeld
<1>6. artRestored' = artRestored /\ artStraddled' = artStraddled /\ artStraddled' \in BOOLEAN
  BY <1>1 DEF artGhost, ArtInv, ArtTypes
<1>7. ArtPuts(c, ArtHeld, {}, r) BY <1>1, <1>2, <1>3, <1>4, <1>5, <1>6 DEF ArtPuts, ArtOps
<1> QED BY <1>7, ArtPutsKept

LEMMA ArtEmitKept ==
    ASSUME ArtInv, NEW c \in ArtCallers, ArtEmit(c)
    PROVE  ArtKept
<1> DEFINE call == artCall[c]
           e == [op |-> call.op, id |-> call.id, entry |-> call.entry]
           a == ArtAnswer(call.op, call.id, [ArtNothing EXCEPT ![call.id] = call.entry])
<1>1. /\ call.pc = "emit" /\ call \in ArtCalls /\ call.id \in ArtIds /\ call.op # ArtNoId
      /\ call.op \in ArtOps \cup {"restore", "close"} /\ call.entry \in ArtEntries
      /\ (c = "ui" => call.op \in ArtOps) BY DEF ArtEmit, ArtInv, ArtTypes, ArtCallOK, ArtCalls
<1>2. e \in ArtNews /\ e.op = call.op /\ e.id = call.id /\ e.entry = call.entry BY <1>1 DEF ArtNews
<1>3. c = "ui" => /\ a \in ArtReplies /\ a.op = call.op /\ a.id = call.id
                  /\ \A i \in ArtIds : a.told[i] = IF i = call.id THEN call.entry ELSE ArtNever
  <2> SUFFICES ASSUME c = "ui"
               PROVE  /\ a \in ArtReplies /\ a.op = call.op /\ a.id = call.id
                      /\ \A i \in ArtIds : a.told[i] = IF i = call.id THEN call.entry ELSE ArtNever
    OBVIOUS
  <2>1. /\ [ArtNothing EXCEPT ![call.id] = call.entry] \in ArtLists
        /\ \A i \in ArtIds : [ArtNothing EXCEPT ![call.id] = call.entry][i]
                               = IF i = call.id THEN call.entry ELSE ArtNever
    BY <1>1, ArtEntryType DEF ArtLists
  <2> QED BY <1>1, <2>1 DEF ArtAnswer, ArtReplies, ArtLists, ArtOps
<1>4. /\ artEvents' = Append(artEvents, e)
      /\ artAnswers' = IF c = "ui" THEN Append(artAnswers, a) ELSE artAnswers
      /\ artCall' = [artCall EXCEPT ![c] = ArtIdle]
      /\ UNCHANGED <<artKind, artBack, artAsked, artWin, artTold, artGhost>> BY DEF ArtEmit
<1> HIDE DEF a, e
<1>5. UNCHANGED <<artKind, artOpen, artStore, artClock, artAsked, artKnown, artHas,
                  artFetched, artList, artCache, artSelected, artSeen, artOvertaken, artRestored, artStraddled>>
  BY <1>4 DEF artBack, artWin, artTold, artGhost
<1>6. /\ artCall'[c].pc = "idle" /\ artCall'[c].op = ArtNoId
      /\ \A d \in ArtCallers : d # c => artCall'[d] = artCall[d]
      /\ artCall' \in [ArtCallers -> ArtCalls] BY <1>4, ArtIdleType DEF ArtInv, ArtTypes
<1>7. /\ artEvents' \in Seq(ArtNews) /\ artEvents' # <<>>
      /\ \A x : x \in ToSet(artEvents') <=> x \in ToSet(artEvents) \/ x = e
  <2>1. artEvents \in Seq(ArtNews) BY DEF ArtInv, ArtTypes
  <2>2. /\ Append(artEvents, e) \in Seq(ArtNews)
        /\ \A x : x \in ToSet(Append(artEvents, e)) <=> x \in ToSet(artEvents) \/ x = e
    BY <1>2, <2>1, ArtAppendSet
  <2>3. Append(artEvents, e) # <<>>
    <3>1. Len(Append(artEvents, e)) = Len(artEvents) + 1 /\ Len(artEvents) \in Nat BY <1>2, <2>1
    <3> QED BY <3>1
  <2> QED BY <1>4, <2>2, <2>3
<1>8. /\ artAnswers' \in Seq(ArtReplies)
      /\ \A x : x \in ToSet(artAnswers') <=> x \in ToSet(artAnswers) \/ (x = a /\ c = "ui")
  <2>1. artAnswers \in Seq(ArtReplies) BY DEF ArtInv, ArtTypes
  <2>2. c = "ui" =>
        /\ Append(artAnswers, a) \in Seq(ArtReplies)
        /\ \A x : x \in ToSet(Append(artAnswers, a)) <=> x \in ToSet(artAnswers) \/ x = a
    BY <1>3, <2>1, ArtAppendSet
  <2> QED BY <1>4, <2>1, <2>2
<1>9. \A i, x : ArtEmits(i, x)' <=> ArtEmits(i, x) BY <1>1, <1>2, <1>6, <1>7 DEF ArtEmits
<1>10. \A i \in ArtIds, x \in ArtEntries : ArtCopy(i, x)' => ArtCopy(i, x)
  <2> SUFFICES ASSUME NEW i \in ArtIds, NEW x \in ArtEntries, ArtCopy(i, x)' PROVE ArtCopy(i, x)
    OBVIOUS
  <2>1. CASE \E b \in ToSet(artAnswers') : b.told[i] = x
    <3>1. PICK b \in ToSet(artAnswers') : b.told[i] = x BY <2>1
    <3>2. CASE b \in ToSet(artAnswers) BY <3>1, <3>2 DEF ArtCopy
    <3>3. CASE b = a /\ c = "ui"
      <4>1. x = ArtNever \/ (i = call.id /\ x = call.entry /\ call.op \in ArtOps)
        BY <1>1, <1>3, <3>1, <3>3
      <4> QED BY <1>1, <4>1 DEF ArtCopy, ArtEmits
    <3> QED BY <1>8, <3>1, <3>2, <3>3
  <2>2. CASE ArtEmits(i, x)' \/ x \in {ArtNever, artStore[i], artList[i], artCache[i]}
    BY <1>9, <2>2 DEF ArtCopy
  <2> QED BY <1>5, <2>1, <2>2 DEF ArtCopy, ArtNever
<1>11. ArtStep
  <2>1. artSeen' \in [ArtIds -> Nat] /\ \A i \in ArtIds : artSeen'[i] >= artSeen[i] /\ artSeen'[i] = artSeen[i]
    BY <1>5 DEF ArtInv, ArtTypes
  <2> QED BY <1>5, <1>9, <1>10, <2>1 DEF ArtStep
<1>12. ArtLifeStep
  <2>1. \A i \in ArtIds : \A x : ArtReplied(i, x)' => ArtReplied(i, x) \/ ArtEmits(i, x)
    BY <1>1, <1>3, <1>8 DEF ArtReplied, ArtEmits
  <2>2. \A i \in ArtIds : \A x : ArtBirth(i, x)' => ArtBirth(i, x)
    <3> SUFFICES ASSUME NEW i \in ArtIds, NEW x, ArtBirth(i, x)' PROVE ArtBirth(i, x) OBVIOUS
    <3>1. CASE \E b \in ToSet(artAnswers') : b.op = "create" /\ b.id = i /\ b.told[i] = x
      BY <1>1, <1>3, <1>8, <3>1 DEF ArtBirth
    <3>2. CASE \E b \in ToSet(artEvents') : b.op = "create" /\ b.id = i /\ b.entry = x
      BY <1>1, <1>2, <1>7, <3>2 DEF ArtBirth
    <3>3. CASE \E d \in ArtCallers : /\ artCall'[d].pc = "emit" /\ artCall'[d].op = "create"
                                     /\ artCall'[d].id = i /\ artCall'[d].entry = x
      BY <1>6, <3>3 DEF ArtBirth
    <3> QED BY <3>1, <3>2, <3>3 DEF ArtBirth
  <2> QED BY <1>5, <1>9, <2>1, <2>2 DEF ArtLifeStep
<1>13. ArtTypes'
  <2>1. \A d \in ArtCallers : ArtCallOK(d)'
    <3>1. ArtCallOK(c)' BY <1>6 DEF ArtCallOK, ArtNoId
    <3> QED BY <1>5, <1>6, <3>1 DEF ArtInv, ArtTypes, ArtCallOK
  <2> QED BY <1>1, <1>2, <1>5, <1>6, <1>7, <1>8, <2>1 DEF ArtInv, ArtTypes, ArtCallOK
<1>14. ArtListInv'
  <2>1. ArtComing' BY <1>7 DEF ArtComing
  <2> QED BY <1>5, <2>1 DEF ArtInv, ArtListInv
<1>15. ArtCacheInv' BY <1>5, <1>9 DEF ArtInv, ArtCacheInv
<1>16. ArtClosedInv'
  <2>1. ArtClosing' <=> ArtClosing BY <1>1, <1>2, <1>6, <1>7 DEF ArtClosing
  <2>2. (\E d \in ArtCallers : artCall[d].pc = "clear") => \E d \in ArtCallers : artCall'[d].pc = "clear"
    BY <1>1, <1>6
  <2>3. ArtHeld' = ArtHeld /\ ArtNothing' = ArtNothing BY <1>5 DEF ArtHeld, ArtNothing, ArtNever
  <2> QED BY <1>5, <2>1, <2>2, <2>3 DEF ArtInv, ArtClosedInv
<1>17. ArtFreshInv'
  <2>1. \A d \in ArtCallers : ArtMaking(d)' => ArtMaking(d) /\ artCall'[d].id = artCall[d].id
    BY <1>1, <1>6 DEF ArtMaking
  <2> QED BY <1>5, <1>6, <2>1 DEF ArtInv, ArtFreshInv, ArtNever
<1>18. ArtShownInv'
  <2> SUFFICES ASSUME artKind = "bookmark", artOpen, NEW i \in ArtIds PROVE ArtShown(i)'
    BY <1>5 DEF ArtShownInv
  <2>1. ArtShown(i) BY DEF ArtInv, ArtShownInv
  <2>3. ArtFetching(i) => ArtFetching(i)'
    <3>1. CASE \E d \in ArtCallers : /\ artCall[d].pc = "emit"
                                     /\ \/ artCall[d].op = "restore"
                                        \/ artCall[d].op = "create" /\ artCall[d].id = i
      <4>1. PICK d \in ArtCallers : /\ artCall[d].pc = "emit"
                                    /\ \/ artCall[d].op = "restore"
                                       \/ artCall[d].op = "create" /\ artCall[d].id = i BY <3>1
      <4>2. CASE d = c BY <1>2, <1>7, <4>1, <4>2 DEF ArtFetching
      <4>3. CASE d # c BY <1>6, <4>1, <4>3 DEF ArtFetching
      <4> QED BY <4>2, <4>3
    <3>2. CASE \/ \E x \in ToSet(artAsked) : x.op = "list"
               \/ \E x \in ToSet(artAnswers) : x.op = "list" /\ x.told[i].at > 0
               \/ \E x \in ToSet(artEvents) : x.op = "restore" \/ (x.op = "create" /\ x.id = i)
      BY <1>5, <1>7, <1>8, <3>2 DEF ArtFetching
    <3> QED BY <3>1, <3>2 DEF ArtFetching
  <2>4. ArtPending(i, artStore[i].at) => ArtPending(i, artStore[i].at)' BY <1>5, <1>9 DEF ArtPending
  <2> QED BY <1>5, <2>1, <2>3, <2>4 DEF ArtShown
<1> QED BY <1>11, <1>12, <1>13, <1>14, <1>15, <1>16, <1>17, <1>18 DEF ArtKept

----------------------------------------
\* The window hears of something.

LEMMA ArtLearned ==
    ASSUME ArtTypes, NEW ids \in SUBSET ArtIds, NEW told \in ArtLists, ArtLearn(ids, told)
    PROVE  /\ artSeen' \in [ArtIds -> Nat]
           /\ \A i \in ArtIds :
                /\ artSeen'[i] = IF i \in ids /\ told[i].at > artSeen[i] THEN told[i].at ELSE artSeen[i]
                /\ artSeen'[i] >= artSeen[i] /\ (i \in ids => artSeen'[i] >= told[i].at)
                /\ i \notin artOvertaken' => i \notin artOvertaken /\ (i \in ids => artSeen'[i] = told[i].at)
           /\ artOvertaken' \in SUBSET ArtIds
<1>1. artSeen \in [ArtIds -> Nat] /\ \A i \in ArtIds : told[i].at \in Nat
  BY ArtEntryType DEF ArtTypes
<1>2. artSeen' = [i \in ArtIds |-> IF i \in ids /\ told[i].at > artSeen[i] THEN told[i].at ELSE artSeen[i]]
  BY DEF ArtLearn
<1>3. artOvertaken' = artOvertaken \cup {i \in ids : told[i].at < artSeen[i]} BY DEF ArtLearn
<1>4. artOvertaken' \in SUBSET ArtIds BY <1>3 DEF ArtTypes
<1>5. artSeen' \in [ArtIds -> Nat] BY <1>1, <1>2
<1>6. ASSUME NEW i \in ArtIds
      PROVE  /\ artSeen'[i] = IF i \in ids /\ told[i].at > artSeen[i] THEN told[i].at ELSE artSeen[i]
             /\ artSeen'[i] >= artSeen[i] /\ (i \in ids => artSeen'[i] >= told[i].at)
             /\ i \notin artOvertaken' => i \notin artOvertaken /\ (i \in ids => artSeen'[i] = told[i].at)
  <2>1. artSeen'[i] = IF i \in ids /\ told[i].at > artSeen[i] THEN told[i].at ELSE artSeen[i]
    BY <1>2
  <2>2. artSeen[i] \in Nat /\ told[i].at \in Nat BY <1>1
  <2>3. i \notin artOvertaken' => i \notin artOvertaken /\ (i \in ids => ~(told[i].at < artSeen[i]))
    BY <1>3
  <2> QED BY <2>1, <2>2, <2>3
<1> QED BY <1>4, <1>5, <1>6

LEMMA ArtPatched ==
    ASSUME NEW list \in ArtLists, NEW j \in ArtIds, NEW v \in ArtEntries
    PROVE  /\ ArtWith(list, j, v) \in ArtLists /\ ArtReplaced(list, j, v) \in ArtLists
           /\ ArtAdded(list, j, v) \in ArtLists
           /\ \A i \in ArtIds : i # j =>
                /\ ArtWith(list, j, v)[i] = list[i] /\ ArtReplaced(list, j, v)[i] = list[i]
                /\ ArtAdded(list, j, v)[i] = list[i]
           /\ ArtWith(list, j, v)[j] = IF v.there THEN v ELSE ArtNever
           /\ list[j].there => /\ ArtReplaced(list, j, v)[j] = IF v.there THEN v ELSE ArtNever
                               /\ ArtAdded(list, j, v)[j] = list[j]
           /\ ~list[j].there => /\ ArtAdded(list, j, v)[j] = IF v.there THEN v ELSE ArtNever
                                /\ ArtReplaced(list, j, v)[j] = list[j]
BY ArtEntryType DEF ArtWith, ArtReplaced, ArtAdded, ArtLists

LEMMA ArtWindowStep ==
    ASSUME ArtInv, UNCHANGED <<artKind, artOpen, artStore, artClock, artRestored, artCall>>,
           \A x : x \in ToSet(artEvents') => x \in ToSet(artEvents),
           \A x : x \in ToSet(artAnswers') => x \in ToSet(artAnswers),
           artList' \in ArtLists, artCache' \in ArtLists,
           \A i \in ArtIds : ArtCopy(i, artList'[i]) /\ ArtCopy(i, artCache'[i]),
           artSeen' \in [ArtIds -> Nat],
           \A i \in ArtIds : /\ artSeen'[i] >= artSeen[i]
                             /\ \/ artSeen'[i] = artSeen[i]
                                \/ \E x \in ArtEntries : ArtCopy(i, x) /\ x.at = artSeen'[i],
           \A i \in ArtIds, x \in ArtEntries : ArtEmits(i, x) => ArtEmits(i, x)' \/ artSeen'[i] >= x.at
    PROVE  ArtStep /\ ArtLifeStep
<1>1. \A i, x : ArtEmits(i, x)' => ArtEmits(i, x) BY DEF ArtEmits
<1>2. \A i, x : ArtBirth(i, x)' => ArtBirth(i, x) BY DEF ArtBirth
<1>3. \A i, x : ArtReplied(i, x)' => ArtReplied(i, x) BY DEF ArtReplied
<1>4. \A i \in ArtIds, x \in ArtEntries : ArtCopy(i, x)' => ArtCopy(i, x)
  <2> SUFFICES ASSUME NEW i \in ArtIds, NEW x \in ArtEntries, ArtCopy(i, x)' PROVE ArtCopy(i, x)
    OBVIOUS
  <2>1. CASE x \in {artList'[i], artCache'[i]} BY <2>1
  <2>2. CASE x \in {ArtNever, artStore[i]} \/ ArtEmits(i, x)' BY <1>1, <2>2 DEF ArtCopy
  <2>3. CASE \E a \in ToSet(artAnswers') : a.told[i] = x BY <2>3 DEF ArtCopy
  <2> QED BY <2>1, <2>2, <2>3 DEF ArtCopy, ArtNever
<1>5. ArtStep BY <1>4 DEF ArtStep
<1>6. ArtLifeStep BY <1>1, <1>2, <1>3 DEF ArtLifeStep
<1> QED BY <1>5, <1>6

LEMMA ArtFreshSame ==
    ASSUME ArtInv, UNCHANGED <<artKind, artStore, artCall>>,
           artKind = "bookmark" => \A k \in DOMAIN artAsked' :
             artAsked'[k].op = "create" => k \in DOMAIN artAsked /\ artAsked'[k] = artAsked[k]
    PROVE  ArtFreshInv'
<1> SUFFICES ASSUME artKind = "bookmark" PROVE ArtFreshInv' BY DEF ArtFreshInv
<1>1. \A d \in ArtCallers : ArtMaking(d)' <=> ArtMaking(d) BY DEF ArtMaking
<1> QED BY <1>1 DEF ArtInv, ArtFreshInv, ArtNever

\* The window patches its list with the version v of the bookmark j.
LEMMA ArtPatchShown ==
    ASSUME ArtInv, artKind = "bookmark", artOpen, NEW j \in ArtIds, NEW v \in ArtEntries,
           ArtCopy(j, v), v.at > 0,
           UNCHANGED <<artKind, artOpen, artStore, artRestored, artFetched>>,
           \A i \in ArtIds :
             /\ artSeen'[i] = IF i = j /\ v.at > artSeen[i] THEN v.at ELSE artSeen[i]
             /\ i \notin artOvertaken' => i \notin artOvertaken /\ (i = j => artSeen'[i] = v.at),
           \/ artList' = ArtAdded(artList, j, v) /\ ArtBirth(j, v)
           \/ artList' = ArtReplaced(artList, j, v),
           \A i \in ArtIds : ArtFetching(i) =>
             ArtFetching(i)' \/ (i = j /\ artList' = ArtAdded(artList, j, v) /\ ArtBirth(j, v)),
           \A i \in ArtIds, x \in ArtEntries : ArtEmits(i, x) => ArtEmits(i, x)' \/ (i = j /\ x = v)
    PROVE  ArtShownInv'
<1> SUFFICES ASSUME NEW i \in ArtIds PROVE ArtShown(i)' BY DEF ArtShownInv
<1>0. /\ ArtShown(i) /\ artList \in ArtLists /\ artList[i] \in ArtEntries /\ artList[i].at \in Nat /\ v.at \in Nat
      /\ artSeen[i] \in Nat /\ v.there \in BOOLEAN /\ ArtNever.there = FALSE
  BY ArtEntryType DEF ArtInv, ArtShownInv, ArtTypes
<1>1. ASSUME NEW w, w = artList[i] \/ w = artStore[i], w.there PROVE w.at > 0
  BY <1>1, ArtEntryType DEF ArtInv, ArtOrder, ArtCopy, ArtTypes
<1>2. ArtPending(i, artStore[i].at) /\ (i = j => ~artStore[i].there /\ v.there) => ArtPending(i, artStore[i].at)'
  <2> SUFFICES ASSUME ArtPending(i, artStore[i].at), i = j => ~artStore[i].there /\ v.there
               PROVE  ArtPending(i, artStore[i].at)'
    OBVIOUS
  <2>1. PICK x \in ArtEntries : ArtEmits(i, x) /\ x.at = artStore[i].at BY DEF ArtPending
  <2>2. x = artStore[i] BY <2>1 DEF ArtInv, ArtOrder, ArtCopy
  <2>3. ArtEmits(i, x)' BY <2>1, <2>2
  <2> QED BY <2>1, <2>3 DEF ArtPending
<1>3. CASE i # j
  <2>0. ArtAdded(artList, j, v)[i] = artList[i] /\ ArtReplaced(artList, j, v)[i] = artList[i]
    BY <1>0, <1>3, ArtPatched
  <2>1. artList'[i] = artList[i] /\ artSeen'[i] = artSeen[i] BY <1>3, <2>0
  <2> QED BY <1>0, <1>2, <1>3, <2>1 DEF ArtShown
<1>4. CASE i = j /\ artList' = ArtAdded(artList, j, v) /\ ArtBirth(j, v)
  <2>1. v.there /\ \A x \in ArtEntries : ArtCopy(i, x) /\ x.at > 0 => x.at >= v.at
    BY <1>4 DEF ArtInv, ArtLifeInv
  <2>2. CASE artList[i].there
    <3>1. artList'[i] = artList[i] BY <1>4, <2>2 DEF ArtAdded
    <3>2. artList[i].at >= v.at
      <4>1. ArtCopy(i, artList[i]) /\ artList[i].at > 0 BY <1>1, <2>2 DEF ArtCopy
      <4> QED BY <1>0, <2>1, <4>1
    <3>3. artList[i].at = artSeen[i] => artList[i].at = artSeen'[i] BY <1>0, <1>4, <3>2
    <3> QED BY <1>0, <1>2, <1>4, <2>1, <2>2, <3>1, <3>3 DEF ArtShown
  <2>3. CASE ~artList[i].there
    <3>1. artList'[i] = v BY <1>0, <1>4, <2>1, <2>3 DEF ArtAdded, ArtWith, ArtLists
    <3> QED BY <1>4, <2>1, <3>1 DEF ArtShown
  <2> QED BY <2>2, <2>3
<1>5. CASE i = j /\ artList' = ArtReplaced(artList, j, v) /\ ~(artList' = ArtAdded(artList, j, v) /\ ArtBirth(j, v))
  <2>1. CASE artList[i].there
    <3>1. artList'[i] = IF v.there THEN v ELSE ArtNever
      BY <1>0, <1>5, <2>1 DEF ArtReplaced, ArtWith, ArtLists
    <3>2. artStore[i].there => v.there BY <1>5 DEF ArtInv, ArtLifeInv
    <3> QED BY <1>0, <1>5, <3>1, <3>2 DEF ArtShown
  <2>2. CASE ~artList[i].there
    <3>1. artList'[i] = artList[i] BY <1>5, <2>2 DEF ArtReplaced
    <3> QED BY <1>0, <1>5, <2>2, <3>1 DEF ArtShown
  <2> QED BY <2>1, <2>2
<1> QED BY <1>3, <1>4, <1>5

\* What hearing the first event does, whatever the kind.
LEMMA ArtHearing ==
    ASSUME ArtInv, ArtHear, NEW e, e = Head(artEvents)
    PROVE  /\ e \in ArtNews /\ e.op \in ArtOps \cup {"restore", "close"} /\ e.id \in ArtIds /\ e.entry \in ArtEntries
           /\ e.op = "close" => artKind = "bookmark" /\ ArtClosing
           /\ artEvents' \in Seq(ArtNews)
           /\ \A x : x \in ToSet(artEvents') => x \in ToSet(artEvents)
           /\ \A x : x \in ToSet(artEvents) => x \in ToSet(artEvents') \/ x = e
           /\ e.op \in ArtOps => ArtCopy(e.id, e.entry) /\ ArtEmits(e.id, e.entry)
           /\ e.op = "create" => ArtBirth(e.id, e.entry)
           /\ \A i, x : ArtEmits(i, x) => ArtEmits(i, x)' \/ (e.op \in ArtOps /\ i = e.id /\ x = e.entry)
           /\ UNCHANGED <<artKind, artOpen, artStore, artClock, artCall, artAnswers, artRestored, artStraddled>>
<1>1. artEvents \in Seq(ArtNews) /\ artEvents # <<>> /\ artEvents' = Tail(artEvents)
  BY DEF ArtHear, ArtInv, ArtTypes
<1>2. e \in ArtNews /\ artEvents' \in Seq(ArtNews) BY <1>1, ArtHeadTail
<1>3. /\ e \in ToSet(artEvents)
      /\ \A x : x \in ToSet(artEvents') => x \in ToSet(artEvents)
      /\ \A x : x \in ToSet(artEvents) => x \in ToSet(artEvents') \/ x = e BY <1>1, ArtTailSet
<1>4. UNCHANGED <<artKind, artOpen, artStore, artClock, artCall, artAnswers, artRestored, artStraddled>>
  BY DEF ArtHear, artBack, artGhost
<1>5. e.op \in ArtOps \cup {"restore", "close"} /\ e.id \in ArtIds /\ e.entry \in ArtEntries
  BY <1>2 DEF ArtNews
<1>6. e.op = "close" => artKind = "bookmark" /\ ArtClosing BY <1>3 DEF ArtInv, ArtTypes, ArtClosing
<1>7. e.op \in ArtOps => ArtCopy(e.id, e.entry) /\ ArtEmits(e.id, e.entry)
  BY <1>3 DEF ArtCopy, ArtEmits
<1>8. e.op = "create" => ArtBirth(e.id, e.entry) BY <1>3 DEF ArtBirth
<1>9. \A i, x : ArtEmits(i, x) => ArtEmits(i, x)' \/ (e.op \in ArtOps /\ i = e.id /\ x = e.entry)
  BY <1>3, <1>4 DEF ArtEmits
<1> QED BY <1>2, <1>3, <1>4, <1>5, <1>6, <1>7, <1>8, <1>9

\* What the event tells: the one artifact it is about, if it names one.
LEMMA ArtToldOne ==
    ASSUME ArtTypes, NEW j \in ArtIds, NEW v \in ArtEntries, ArtLearn({j}, [ArtNothing EXCEPT ![j] = v])
    PROVE  /\ artSeen' \in [ArtIds -> Nat] /\ artOvertaken' \in SUBSET ArtIds
           /\ \A i \in ArtIds :
                /\ artSeen'[i] = IF i = j /\ v.at > artSeen[i] THEN v.at ELSE artSeen[i]
                /\ artSeen'[i] >= artSeen[i] /\ (i = j => artSeen'[i] >= v.at)
                /\ i \notin artOvertaken' => i \notin artOvertaken /\ (i = j => artSeen'[i] = v.at)
<1>1. PICK told : told = [ArtNothing EXCEPT ![j] = v] OBVIOUS
<1>2. told \in ArtLists /\ told[j] = v BY <1>1, ArtEntryType DEF ArtLists
<1>3. {j} \in SUBSET ArtIds /\ ArtLearn({j}, told) BY <1>1
<1>4. /\ artSeen' \in [ArtIds -> Nat]
      /\ \A i \in ArtIds :
           /\ artSeen'[i] = IF i \in {j} /\ told[i].at > artSeen[i] THEN told[i].at ELSE artSeen[i]
           /\ artSeen'[i] >= artSeen[i] /\ (i \in {j} => artSeen'[i] >= told[i].at)
           /\ i \notin artOvertaken' => i \notin artOvertaken /\ (i \in {j} => artSeen'[i] = told[i].at)
      /\ artOvertaken' \in SUBSET ArtIds BY <1>2, <1>3, ArtLearned
<1> QED BY <1>2, <1>4

LEMMA ArtHearBookmark ==
    ASSUME ArtInv, ArtHear, artKind = "bookmark"
    PROVE  ArtKept
<1> PICK e : e = Head(artEvents) OBVIOUS
<1>0. ArtBookmarkEvent(e) /\ ArtHear BY DEF ArtHear
<1>1. /\ e \in ArtNews /\ e.op \in ArtOps \cup {"restore", "close"} /\ e.id \in ArtIds /\ e.entry \in ArtEntries
      /\ e.op = "close" => ArtClosing
      /\ artEvents' \in Seq(ArtNews)
      /\ \A x : x \in ToSet(artEvents') => x \in ToSet(artEvents)
      /\ \A x : x \in ToSet(artEvents) => x \in ToSet(artEvents') \/ x = e
      /\ e.op \in ArtOps => ArtCopy(e.id, e.entry) /\ ArtEmits(e.id, e.entry)
      /\ e.op = "create" => ArtBirth(e.id, e.entry)
      /\ \A i, x : ArtEmits(i, x) => ArtEmits(i, x)' \/ (e.op \in ArtOps /\ i = e.id /\ x = e.entry)
      /\ UNCHANGED <<artKind, artOpen, artStore, artClock, artCall, artAnswers, artRestored, artStraddled>>
  BY ArtHearing
<1>2. UNCHANGED <<artCache, artSelected>> BY <1>0 DEF ArtBookmarkEvent
<1>3. IF e.op \in ArtOps THEN ArtLearn({e.id}, [ArtNothing EXCEPT ![e.id] = e.entry])
      ELSE artSeen' = artSeen /\ artOvertaken' = artOvertaken
  BY <1>0 DEF ArtBookmarkEvent, ArtOps, artTold
<1>4. /\ artKnown \in BOOLEAN /\ artHas \in BOOLEAN /\ artFetched \in BOOLEAN /\ artOpen \in BOOLEAN
      /\ artFetched => artKnown /\ artHas
      /\ ~artHas => artList = ArtNothing
      /\ ~artKnown \/ ArtClosing => ~artOpen
      /\ ~artOpen => ArtClosing \/ (~artKnown /\ (~artStraddled => ~artHas))
      /\ ~artOpen /\ ~artStraddled => ArtHeld = {} \/ \E c \in ArtCallers : artCall[c].pc = "clear"
      /\ artList \in ArtLists /\ artCache \in ArtLists /\ artAsked \in Seq(ArtRequests)
  BY DEF ArtInv, ArtClosedInv, ArtTypes
<1>5. CASE e.op \in ArtOps
  <2>1. /\ UNCHANGED <<artKnown, artFetched, artAsked>>
        /\ \/ artList' = ArtAdded(artList, e.id, e.entry) /\ ArtBirth(e.id, e.entry) /\ artHas' = TRUE /\ artKnown
           \/ artList' = ArtReplaced(artList, e.id, e.entry) /\ artHas' = artHas
           \/ artList' = artList /\ artHas' = artHas /\ (artHas => ~artKnown)
    BY <1>0, <1>1, <1>5 DEF ArtBookmarkEvent, ArtOps, ArtAccepts
  <2>2. /\ artSeen' \in [ArtIds -> Nat] /\ artOvertaken' \in SUBSET ArtIds
        /\ \A i \in ArtIds :
             /\ artSeen'[i] = IF i = e.id /\ e.entry.at > artSeen[i] THEN e.entry.at ELSE artSeen[i]
             /\ artSeen'[i] >= artSeen[i] /\ (i = e.id => artSeen'[i] >= e.entry.at)
             /\ i \notin artOvertaken' => i \notin artOvertaken /\ (i = e.id => artSeen'[i] = e.entry.at)
    <3>1. ArtTypes BY DEF ArtInv
    <3> QED BY <1>1, <1>3, <1>5, <3>1, ArtToldOne
  <2>3. /\ artList' \in ArtLists
        /\ \A i \in ArtIds : artList'[i] \in {artList[i], ArtNever} \/ (i = e.id /\ artList'[i] = e.entry)
        /\ \A i \in ArtIds : artList'[i].there => artHas'
    <3>0. /\ ArtReplaced(artList, e.id, e.entry) \in ArtLists /\ ArtAdded(artList, e.id, e.entry) \in ArtLists
          /\ \A i \in ArtIds : i # e.id =>
               ArtReplaced(artList, e.id, e.entry)[i] = artList[i] /\ ArtAdded(artList, e.id, e.entry)[i] = artList[i]
          /\ ArtAdded(artList, e.id, e.entry)[e.id] \in {artList[e.id], ArtNever, e.entry}
          /\ artList[e.id].there => ArtReplaced(artList, e.id, e.entry)[e.id] \in {ArtNever, e.entry}
          /\ ~artList[e.id].there => ArtReplaced(artList, e.id, e.entry)[e.id] = artList[e.id]
      <4>1. artList \in ArtLists /\ e.id \in ArtIds /\ e.entry \in ArtEntries BY <1>1, <1>4
      <4>2. ArtReplaced(artList, e.id, e.entry) \in ArtLists /\ ArtAdded(artList, e.id, e.entry) \in ArtLists
        BY <4>1, ArtPatched
      <4>3. \A i \in ArtIds : i # e.id =>
               ArtReplaced(artList, e.id, e.entry)[i] = artList[i] /\ ArtAdded(artList, e.id, e.entry)[i] = artList[i]
        BY <4>1 DEF ArtReplaced, ArtAdded, ArtWith, ArtLists
      <4>4. ArtAdded(artList, e.id, e.entry)[e.id] \in {artList[e.id], ArtNever, e.entry}
        <5>1. artList[e.id].there => ArtAdded(artList, e.id, e.entry)[e.id] = artList[e.id]
          BY <4>1, ArtPatched
        <5>2. ~artList[e.id].there => ArtAdded(artList, e.id, e.entry)[e.id] \in {ArtNever, e.entry}
          BY <4>1, ArtPatched
        <5> QED BY <5>1, <5>2
      <4>5. /\ artList[e.id].there => ArtReplaced(artList, e.id, e.entry)[e.id] \in {ArtNever, e.entry}
            /\ ~artList[e.id].there => ArtReplaced(artList, e.id, e.entry)[e.id] = artList[e.id]
        BY <4>1, ArtPatched
      <4> QED BY <4>2, <4>3, <4>4, <4>5
    <3>1. artList' \in ArtLists BY <1>4, <2>1, <3>0
    <3>2. \A i \in ArtIds : artList'[i] \in {artList[i], ArtNever} \/ (i = e.id /\ artList'[i] = e.entry)
      BY <2>1, <3>0
    <3>3. \A i \in ArtIds : artList[i].there => artHas BY <1>4, ArtEntryType
    <3>4. \A i \in ArtIds : artList'[i].there => artHas' BY <2>1, <3>0, <3>3, ArtEntryType
    <3> QED BY <3>1, <3>2, <3>4
  <2>4. ArtStep /\ ArtLifeStep
    <3>1. \A i \in ArtIds : ArtCopy(i, artList'[i]) /\ ArtCopy(i, artCache'[i])
      <4>1. \A i \in ArtIds : ArtCopy(i, artList[i]) /\ ArtCopy(i, ArtNever) /\ ArtCopy(i, artCache[i])
        BY DEF ArtCopy
      <4>2. \A i \in ArtIds : i = e.id /\ artList'[i] = e.entry => ArtCopy(i, artList'[i])
        BY <1>1, <1>5
      <4>3. ASSUME NEW i \in ArtIds PROVE ArtCopy(i, artList'[i])
        <5>1. CASE artList'[i] = artList[i] BY <4>1, <5>1, Zenon
        <5>2. CASE artList'[i] = ArtNever BY <4>1, <5>2, Zenon
        <5> QED BY <2>3, <4>2, <5>1, <5>2
      <4> QED BY <1>2, <4>1, <4>3
    <3>2. \A i \in ArtIds : /\ artSeen'[i] >= artSeen[i]
                            /\ \/ artSeen'[i] = artSeen[i]
                               \/ \E x \in ArtEntries : ArtCopy(i, x) /\ x.at = artSeen'[i]
      BY <1>1, <1>5, <2>2
    <3>3. \A i \in ArtIds, x \in ArtEntries : ArtEmits(i, x) => ArtEmits(i, x)' \/ artSeen'[i] >= x.at
      BY <1>1, <2>2
    <3>4. artCache' \in ArtLists /\ \A x : x \in ToSet(artAnswers') => x \in ToSet(artAnswers)
      BY <1>1, <1>2, <1>4
    <3> QED BY <1>1, <2>2, <2>3, <3>1, <3>2, <3>3, <3>4, ArtWindowStep
  <2>5. ArtTypes'
    <3>1. \A d \in ArtCallers : ArtCallOK(d)' BY <1>1 DEF ArtInv, ArtTypes, ArtCallOK
    <3>2. artHas' \in BOOLEAN BY <1>4, <2>1
    <3>3. \A x \in ToSet(artEvents') : x.op = "close" => artKind' = "bookmark" BY <1>1
    <3> QED BY <1>1, <1>2, <2>1, <2>2, <2>3, <3>1, <3>2, <3>3 DEF ArtInv, ArtTypes
  <2>6. ArtClosedInv'
    <3>1. ArtClosing' <=> ArtClosing BY <1>1, <1>5 DEF ArtClosing, ArtOps
    <3>2. ArtHeld' = ArtHeld /\ ArtNothing' = ArtNothing BY <1>1 DEF ArtHeld, ArtNothing, ArtNever
    <3>3. artHas => artHas' BY <2>1
    <3>4. ~artHas' => artList' = ArtNothing
      <4>1. SUFFICES ASSUME ~artHas' PROVE artList' = ArtNothing OBVIOUS
      <4>2. artList = ArtNothing /\ ~artHas /\ ~artList[e.id].there
        BY <1>1, <1>4, <3>3, <4>1, ArtEntryType
      <4> QED BY <2>1, <4>1, <4>2 DEF ArtReplaced
    <3>5. artHas' # artHas => artKnown BY <1>4, <2>1
    <3>6. ~artOpen /\ ~artKnown /\ (~artStraddled => ~artHas) => (~artStraddled => ~artHas')
      BY <1>4, <2>1
    <3>7. /\ artFetched' => artKnown' /\ artHas'
          /\ ~artKnown' \/ ArtClosing' => ~artOpen'
          /\ ~artOpen' => ArtClosing' \/ (~artKnown' /\ (~artStraddled' => ~artHas'))
          /\ ~artOpen' /\ ~artStraddled' => ArtHeld' = {} \/ \E c \in ArtCallers : artCall'[c].pc = "clear"
      BY <1>1, <1>4, <2>1, <3>1, <3>2, <3>3, <3>6
    <3> QED BY <3>2, <3>4, <3>7 DEF ArtClosedInv
  <2>7. ArtFreshInv' BY <1>1, <2>1, ArtFreshSame
  <2>8. ArtShownInv'
    <3>0. SUFFICES ASSUME artOpen PROVE ArtShownInv' BY <1>1 DEF ArtShownInv
    <3>1. \/ artList' = ArtAdded(artList, e.id, e.entry) /\ ArtBirth(e.id, e.entry)
          \/ artList' = ArtReplaced(artList, e.id, e.entry)
      <4>1. artKnown BY <1>4, <3>0
      <4>2. CASE artList' = artList /\ (artHas => ~artKnown)
        <5>1. ~artList[e.id].there BY <1>1, <1>4, <4>1, <4>2, ArtEntryType
        <5> QED BY <4>2, <5>1 DEF ArtReplaced
      <4> QED BY <2>1, <4>2
    <3>2. \A i \in ArtIds : ArtFetching(i) =>
             ArtFetching(i)' \/ (i = e.id /\ artList' = ArtAdded(artList, e.id, e.entry) /\ ArtBirth(e.id, e.entry))
      <4> SUFFICES ASSUME NEW i \in ArtIds, ArtFetching(i)
                   PROVE ArtFetching(i)' \/ (i = e.id /\ artList' = ArtAdded(artList, e.id, e.entry) /\ ArtBirth(e.id, e.entry))
        OBVIOUS
      <4>1. e.op = "create" => artList' = ArtAdded(artList, e.id, e.entry)
        BY <1>0, <1>4, <3>0 DEF ArtBookmarkEvent, ArtAccepts, ArtOps
      <4>2. CASE \E x \in ToSet(artEvents) : x.op = "restore" \/ (x.op = "create" /\ x.id = i)
        <5>1. PICK x \in ToSet(artEvents) : x.op = "restore" \/ (x.op = "create" /\ x.id = i)
          BY <4>2
        <5>2. CASE x = e BY <1>1, <1>5, <4>1, <5>1, <5>2 DEF ArtOps
        <5>3. CASE x \in ToSet(artEvents') BY <5>1, <5>3 DEF ArtFetching
        <5> QED BY <1>1, <5>2, <5>3
      <4>3. CASE ~\E x \in ToSet(artEvents) : x.op = "restore" \/ (x.op = "create" /\ x.id = i)
        BY <1>1, <2>1, <4>3 DEF ArtFetching
      <4> QED BY <4>2, <4>3
    <3>3. e.entry.at > 0 BY <1>1, <1>5 DEF ArtInv, ArtLifeInv
    <3>4. \A i \in ArtIds, x \in ArtEntries : ArtEmits(i, x) => ArtEmits(i, x)' \/ (i = e.id /\ x = e.entry)
      BY <1>1
    <3>5. \A i \in ArtIds :
            /\ artSeen'[i] = IF i = e.id /\ e.entry.at > artSeen[i] THEN e.entry.at ELSE artSeen[i]
            /\ i \notin artOvertaken' => i \notin artOvertaken /\ (i = e.id => artSeen'[i] = e.entry.at)
      BY <2>2
    <3>6. ArtCopy(e.id, e.entry) BY <1>1, <1>5
    <3> QED BY <1>1, <2>1, <3>0, <3>1, <3>2, <3>3, <3>4, <3>5, <3>6, ArtPatchShown
  <2>9. ArtListInv' /\ ArtCacheInv' BY <1>1 DEF ArtListInv, ArtCacheInv
  <2> QED BY <2>4, <2>5, <2>6, <2>7, <2>8, <2>9 DEF ArtKept
<1>6. CASE e.op \in {"restore", "close"}
  <2>1. \/ /\ e.op = "restore" /\ UNCHANGED <<artKnown, artFetched, artList>>
           /\ artAsked' = IF artFetched THEN Append(artAsked, ArtRequest("list", ArtNoId)) ELSE artAsked
           /\ artHas' = (artHas \/ artFetched)
        \/ /\ e.op = "close" /\ artKnown' = FALSE /\ artHas' = FALSE /\ artFetched' = FALSE
           /\ artList' = ArtNothing /\ artAsked' = artAsked BY <1>0, <1>6 DEF ArtBookmarkEvent
  <2>2. artSeen' = artSeen /\ artOvertaken' = artOvertaken BY <1>3, <1>6 DEF ArtOps
  <2>3. \A i, x : ArtEmits(i, x) => ArtEmits(i, x)' BY <1>1, <1>6 DEF ArtOps
  <2>4. /\ artAsked' \in Seq(ArtRequests)
        /\ \A x : x \in ToSet(artAsked) => x \in ToSet(artAsked')
        /\ e.op = "restore" /\ artFetched => \E x \in ToSet(artAsked') : x.op = "list"
        /\ \A k \in DOMAIN artAsked' :
             artAsked'[k].op = "create" => k \in DOMAIN artAsked /\ artAsked'[k] = artAsked[k]
    <3> DEFINE r == ArtRequest("list", ArtNoId)
    <3>1. r \in ArtRequests /\ r.op = "list" BY DEF ArtRequest, ArtRequests
    <3> HIDE DEF r
    <3>2. /\ Append(artAsked, r) \in Seq(ArtRequests)
          /\ \A x : x \in ToSet(Append(artAsked, r)) <=> x \in ToSet(artAsked) \/ x = r
      BY <1>4, <3>1, ArtAppendSet
    <3>3. \A k \in DOMAIN Append(artAsked, r) : \/ k \in DOMAIN artAsked /\ Append(artAsked, r)[k] = artAsked[k]
                                                \/ Append(artAsked, r)[k] = r BY <1>4, <3>1
    <3>4. artAsked' = artAsked \/ artAsked' = Append(artAsked, r) BY <2>1 DEF r
    <3>5. e.op = "restore" /\ artFetched => artAsked' = Append(artAsked, r) BY <2>1 DEF r
    <3>6. CASE artAsked' = artAsked BY <1>4, <3>1, <3>2, <3>5, <3>6
    <3>7. CASE artAsked' = Append(artAsked, r) BY <1>4, <3>1, <3>2, <3>3, <3>7
    <3> QED BY <3>4, <3>6, <3>7
  <2>5. artList' \in ArtLists /\ artHas' \in BOOLEAN /\ artKnown' \in BOOLEAN /\ artFetched' \in BOOLEAN
    BY <1>4, <2>1, ArtEntryType
  <2>6. ArtStep /\ ArtLifeStep
    <3>1. \A i \in ArtIds : ArtCopy(i, artList'[i]) /\ ArtCopy(i, artCache'[i])
      <4>1. \A i \in ArtIds : artList'[i] = artList[i] \/ artList'[i] = ArtNever
        BY <2>1, ArtEntryType
      <4> QED BY <1>2, <4>1 DEF ArtCopy
    <3>2. artSeen' \in [ArtIds -> Nat] /\ \A i \in ArtIds : artSeen'[i] >= artSeen[i] /\ artSeen'[i] = artSeen[i]
      BY <2>2 DEF ArtInv, ArtTypes
    <3>3. artCache' \in ArtLists /\ \A x : x \in ToSet(artAnswers') => x \in ToSet(artAnswers)
      BY <1>1, <1>2, <1>4
    <3> QED BY <1>1, <2>3, <2>5, <3>1, <3>2, <3>3, ArtWindowStep
  <2>7. ArtTypes'
    <3>1. \A d \in ArtCallers : ArtCallOK(d)' BY <1>1 DEF ArtInv, ArtTypes, ArtCallOK
    <3>3. \A x \in ToSet(artEvents') : x.op = "close" => artKind' = "bookmark" BY <1>1
    <3> QED BY <1>1, <1>2, <2>2, <2>4, <2>5, <3>1, <3>3 DEF ArtInv, ArtTypes
  <2>8. ArtClosedInv'
    <3>1. ArtHeld' = ArtHeld /\ ArtNothing' = ArtNothing BY <1>1 DEF ArtHeld, ArtNothing, ArtNever
    <3>2. CASE e.op = "close"
      <4>1. ~artOpen BY <1>1, <1>4, <3>2
      <4>2. /\ artFetched' = FALSE /\ artKnown' = FALSE /\ artHas' = FALSE /\ artList' = ArtNothing
        BY <2>1, <3>2
      <4> QED BY <1>1, <1>4, <3>1, <4>1, <4>2 DEF ArtClosedInv
    <3>3. CASE e.op = "restore"
      <4>1. ArtClosing' <=> ArtClosing BY <1>1, <3>3 DEF ArtClosing
      <4>2. artHas' = artHas /\ artList' = artList /\ artKnown' = artKnown /\ artFetched' = artFetched
        BY <1>4, <2>1, <3>3
      <4> QED BY <1>1, <1>4, <3>1, <4>1, <4>2 DEF ArtClosedInv
    <3> QED BY <1>6, <3>2, <3>3
  <2>9. ArtFreshInv' BY <1>1, <2>4, ArtFreshSame
  <2>10. ArtShownInv'
    <3> SUFFICES ASSUME artOpen, NEW i \in ArtIds PROVE ArtShown(i)' BY <1>1 DEF ArtShownInv
    <3>1. ArtShown(i) BY DEF ArtInv, ArtShownInv
    <3>2. e.op = "restore" BY <1>1, <1>4, <1>6
    <3>3. artFetched' => ArtFetching(i)' BY <2>1, <2>4, <3>2 DEF ArtFetching
    <3>4. ArtPending(i, artStore[i].at) => ArtPending(i, artStore[i].at)'
      BY <1>1, <2>3 DEF ArtPending
    <3>5. artList' = artList BY <2>1, <3>2
    <3> QED BY <1>1, <2>2, <3>1, <3>3, <3>4, <3>5 DEF ArtShown
  <2>11. ArtListInv' /\ ArtCacheInv' BY <1>1 DEF ArtListInv, ArtCacheInv
  <2> QED BY <2>6, <2>7, <2>8, <2>9, <2>10, <2>11 DEF ArtKept
<1> QED BY <1>1, <1>5, <1>6

LEMMA ArtHearAnalysis ==
    ASSUME ArtInv, ArtHear, artKind = "analysis"
    PROVE  ArtKept
<1> PICK e : e = Head(artEvents) OBVIOUS
<1>0. ArtAnalysisEvent(e) /\ ArtHear BY DEF ArtHear
<1>1. /\ e \in ArtNews /\ e.op \in ArtOps \cup {"restore"} /\ e.id \in ArtIds /\ e.entry \in ArtEntries
      /\ artEvents' \in Seq(ArtNews)
      /\ \A x : x \in ToSet(artEvents') => x \in ToSet(artEvents)
      /\ e.op \in ArtOps => ArtCopy(e.id, e.entry) /\ ArtEmits(e.id, e.entry)
      /\ \A i, x : ArtEmits(i, x) => ArtEmits(i, x)' \/ (e.op \in ArtOps /\ i = e.id /\ x = e.entry)
      /\ UNCHANGED <<artKind, artOpen, artStore, artClock, artCall, artAnswers, artRestored, artStraddled>>
  BY ArtHearing
<1>2. UNCHANGED <<artKnown, artHas, artFetched>> BY <1>0 DEF ArtAnalysisEvent
<1>3. IF e.op \in ArtOps THEN /\ artCache' = [artCache EXCEPT ![e.id] = ArtNever]
                              /\ ArtLearn({e.id}, [ArtNothing EXCEPT ![e.id] = e.entry])
      ELSE artSeen' = artSeen /\ artOvertaken' = artOvertaken /\ artCache' = artCache
  BY <1>0, <1>1 DEF ArtAnalysisEvent, ArtOps, artTold, ArtDropped
<1>4. /\ artList \in ArtLists /\ artCache \in ArtLists /\ artAsked \in Seq(ArtRequests)
      /\ artSelected \in ArtIds \cup {ArtNoId} /\ ArtTypes BY DEF ArtInv, ArtTypes
<1>5. /\ artList' = artList \/ artList' = [artList EXCEPT ![e.id] = ArtNever]
      /\ artSelected' \in {artSelected, ArtNoId} BY <1>0 DEF ArtAnalysisEvent
<1>6. /\ artSeen' \in [ArtIds -> Nat] /\ artOvertaken' \in SUBSET ArtIds
      /\ \A i \in ArtIds :
           /\ artSeen'[i] = IF e.op \in ArtOps /\ i = e.id /\ e.entry.at > artSeen[i] THEN e.entry.at ELSE artSeen[i]
           /\ artSeen'[i] >= artSeen[i] /\ (e.op \in ArtOps /\ i = e.id => artSeen'[i] >= e.entry.at)
           /\ i \notin artOvertaken' => i \notin artOvertaken
  <2>1. CASE e.op \in ArtOps
    <3>1. ArtLearn({e.id}, [ArtNothing EXCEPT ![e.id] = e.entry]) BY <1>3, <2>1
    <3>2. /\ artSeen' \in [ArtIds -> Nat] /\ artOvertaken' \in SUBSET ArtIds
          /\ \A i \in ArtIds :
               /\ artSeen'[i] = IF i = e.id /\ e.entry.at > artSeen[i] THEN e.entry.at ELSE artSeen[i]
               /\ artSeen'[i] >= artSeen[i] /\ (i = e.id => artSeen'[i] >= e.entry.at)
               /\ i \notin artOvertaken' => i \notin artOvertaken /\ (i = e.id => artSeen'[i] = e.entry.at)
      BY <1>1, <1>4, <3>1, ArtToldOne
    <3> QED BY <2>1, <3>2
  <2>2. CASE e.op \notin ArtOps
    <3>1. artSeen \in [ArtIds -> Nat] /\ artOvertaken \in SUBSET ArtIds BY <1>4 DEF ArtTypes
    <3> QED BY <1>3, <2>2, <3>1
  <2> QED BY <2>1, <2>2
<1>7. /\ artAsked' \in Seq(ArtRequests)
      /\ \E x \in ToSet(artAsked') : x.op = "list"
  <2> DEFINE list == ArtRequest("list", ArtNoId)
             get == ArtRequest("get", e.id)
  <2>1. list \in ArtRequests /\ list.op = "list" /\ get \in ArtRequests
    BY <1>1 DEF ArtRequest, ArtRequests, ArtOps
  <2>2. artAsked' = artAsked \o <<list>> \/ artAsked' = artAsked \o <<get, list>>
    BY <1>0 DEF ArtAnalysisEvent
  <2> HIDE DEF list, get
  <2>3. CASE artAsked' = artAsked \o <<list>>
    <3>1. <<list>> \in Seq(ArtRequests) BY <2>1
    <3>2. artAsked' \in Seq(ArtRequests) BY <1>4, <2>3, <3>1
    <3>3. Len(artAsked) + 1 \in DOMAIN artAsked' /\ artAsked'[Len(artAsked) + 1] = list
      BY <1>4, <2>1, <2>3
    <3>4. list \in ToSet(artAsked') BY <3>3 DEF ToSet
    <3> QED BY <2>1, <3>2, <3>4
  <2>4. CASE artAsked' = artAsked \o <<get, list>>
    <3>1. <<get, list>> \in Seq(ArtRequests) BY <2>1
    <3>2. artAsked' \in Seq(ArtRequests) BY <1>4, <2>4, <3>1
    <3>3. Len(artAsked) + 2 \in DOMAIN artAsked' /\ artAsked'[Len(artAsked) + 2] = list
      BY <1>4, <2>1, <2>4
    <3>4. list \in ToSet(artAsked') BY <3>3 DEF ToSet
    <3> QED BY <2>1, <3>2, <3>4
  <2> QED BY <2>2, <2>3, <2>4
<1>8. /\ artList' \in ArtLists /\ artCache' \in ArtLists
      /\ \A i \in ArtIds : /\ artList'[i] = artList[i] \/ artList'[i] = ArtNever
                           /\ artCache'[i] = artCache[i] \/ artCache'[i] = ArtNever
      /\ e.op \in ArtOps => artCache'[e.id] = ArtNever
  <2>1. ArtNever \in ArtEntries BY ArtEntryType
  <2>2. artCache' = artCache \/ artCache' = [artCache EXCEPT ![e.id] = ArtNever] BY <1>3
  <2>3. artList' \in ArtLists /\ artCache' \in ArtLists BY <1>1, <1>4, <1>5, <2>1, <2>2 DEF ArtLists
  <2>4. \A i \in ArtIds : /\ artList'[i] = artList[i] \/ artList'[i] = ArtNever
                          /\ artCache'[i] = artCache[i] \/ artCache'[i] = ArtNever
    BY <1>4, <1>5, <2>2 DEF ArtLists
  <2>5. e.op \in ArtOps => artCache'[e.id] = ArtNever BY <1>1, <1>3, <1>4 DEF ArtLists
  <2> QED BY <2>3, <2>4, <2>5
<1>9. ArtStep
  <2>1. ASSUME NEW i \in ArtIds PROVE ArtCopy(i, artList'[i]) /\ ArtCopy(i, artCache'[i])
    <3>1. ArtCopy(i, artList[i]) /\ ArtCopy(i, ArtNever) /\ ArtCopy(i, artCache[i]) BY DEF ArtCopy
    <3>2. ArtCopy(i, artList'[i])
      <4>1. CASE artList'[i] = artList[i] BY <3>1, <4>1, Zenon
      <4>2. CASE artList'[i] = ArtNever BY <3>1, <4>2, Zenon
      <4> QED BY <1>8, <4>1, <4>2
    <3>3. ArtCopy(i, artCache'[i])
      <4>1. CASE artCache'[i] = artCache[i] BY <3>1, <4>1, Zenon
      <4>2. CASE artCache'[i] = ArtNever BY <3>1, <4>2, Zenon
      <4> QED BY <1>8, <4>1, <4>2
    <3> QED BY <3>2, <3>3
  <2>2. \A i \in ArtIds : /\ artSeen'[i] >= artSeen[i]
                          /\ \/ artSeen'[i] = artSeen[i]
                             \/ \E x \in ArtEntries : ArtCopy(i, x) /\ x.at = artSeen'[i]
    BY <1>1, <1>6
  <2>3. \A i \in ArtIds, x \in ArtEntries : ArtEmits(i, x) => ArtEmits(i, x)' \/ artSeen'[i] >= x.at
    BY <1>1, <1>6
  <2>4. \A x : x \in ToSet(artAnswers') => x \in ToSet(artAnswers) BY <1>1
  <2> QED BY <1>1, <1>6, <1>8, <2>1, <2>2, <2>3, <2>4, ArtWindowStep
<1>10. ArtTypes'
  <2>1. \A d \in ArtCallers : ArtCallOK(d)' BY <1>1, <1>4 DEF ArtTypes, ArtCallOK
  <2>2. \A x \in ToSet(artEvents') : x.op = "close" => artKind' = "bookmark"
    BY <1>1, <1>4 DEF ArtTypes
  <2>3. artSelected' \in ArtIds \cup {ArtNoId} BY <1>4, <1>5
  <2> QED BY <1>1, <1>2, <1>4, <1>6, <1>7, <1>8, <2>1, <2>2, <2>3 DEF ArtTypes
<1>11. ArtListInv'
  <2>1. ArtComing' BY <1>7 DEF ArtComing
  <2> QED BY <1>1, <2>1 DEF ArtInv, ArtListInv
<1>12. ArtCacheInv'
  <2> SUFFICES ASSUME NEW i \in ArtIds, artCache'[i].there
               PROVE  /\ artCache'[i].at <= artSeen'[i]
                      /\ i \notin artOvertaken' /\ artCache'[i].at >= artRestored =>
                           \/ artCache'[i].at = artSeen'[i]
                           \/ \E x \in ArtEntries : ArtEmits(i, x)' /\ x.at > artCache'[i].at
    BY <1>1 DEF ArtCacheInv
  <2>1. artCache'[i] = artCache[i] /\ (e.op \in ArtOps => i # e.id) BY <1>8, ArtEntryType
  <2>2. artSeen'[i] = artSeen[i] /\ (i \notin artOvertaken' => i \notin artOvertaken) BY <1>6, <2>1
  <2>3. \A x : ArtEmits(i, x) => ArtEmits(i, x)' BY <1>1, <2>1
  <2>4. /\ artCache[i].at <= artSeen[i]
        /\ i \notin artOvertaken /\ artCache[i].at >= artRestored =>
             \/ artCache[i].at = artSeen[i]
             \/ \E x \in ArtEntries : ArtEmits(i, x) /\ x.at > artCache[i].at
    BY <2>1 DEF ArtInv, ArtCacheInv
  <2> QED BY <2>1, <2>2, <2>3, <2>4
<1>13. ArtClosedInv' /\ ArtFreshInv' /\ ArtShownInv'
  BY <1>1 DEF ArtClosedInv, ArtFreshInv, ArtShownInv
<1> QED BY <1>9, <1>10, <1>11, <1>12, <1>13 DEF ArtKept

\* What receiving the first answer does, whatever the kind.
LEMMA ArtReceiving ==
    ASSUME ArtInv, ArtReceive, NEW a, a = Head(artAnswers)
    PROVE  /\ a.op \in ArtOps \cup {"list", "get"} /\ (a.op # "list" => a.id \in ArtIds) /\ a.told \in ArtLists
           /\ artAnswers' \in Seq(ArtReplies)
           /\ \A x : x \in ToSet(artAnswers') => x \in ToSet(artAnswers)
           /\ \A x : x \in ToSet(artAnswers) => x \in ToSet(artAnswers') \/ x = a
           /\ \A i \in ArtIds : ArtCopy(i, a.told[i])
           /\ a.op \in ArtOps => ArtReplied(a.id, a.told[a.id])
           /\ a.op = "create" => ArtBirth(a.id, a.told[a.id])
           /\ \A i, x : ArtEmits(i, x) <=> ArtEmits(i, x)'
           /\ UNCHANGED <<artKind, artOpen, artStore, artClock, artCall, artAsked, artEvents, artKnown,
                          artFetched, artRestored>>
<1>1. artAnswers \in Seq(ArtReplies) /\ artAnswers # <<>> /\ artAnswers' = Tail(artAnswers)
  BY DEF ArtReceive, ArtInv, ArtTypes
<1>2. a \in ArtReplies /\ artAnswers' \in Seq(ArtReplies) BY <1>1, ArtHeadTail
<1>3. /\ a \in ToSet(artAnswers)
      /\ \A x : x \in ToSet(artAnswers') => x \in ToSet(artAnswers)
      /\ \A x : x \in ToSet(artAnswers) => x \in ToSet(artAnswers') \/ x = a BY <1>1, ArtTailSet
<1>4. UNCHANGED <<artKind, artOpen, artStore, artClock, artCall, artEvents, artKnown, artFetched, artRestored>>
  BY DEF ArtReceive, artBack
<1>5. artAsked' = artAsked BY DEF ArtReceive, ArtBookmarkAnswer, ArtAnalysisAnswer
<1>6. a.op \in ArtOps \cup {"list", "get"} /\ (a.op # "list" => a.id \in ArtIds) /\ a.told \in ArtLists
  BY <1>2 DEF ArtReplies, ArtLists
<1>7. \A i \in ArtIds : ArtCopy(i, a.told[i]) BY <1>3 DEF ArtCopy
<1>8. a.op \in ArtOps => ArtReplied(a.id, a.told[a.id]) BY <1>3 DEF ArtReplied
<1>9. a.op = "create" => ArtBirth(a.id, a.told[a.id]) BY <1>3 DEF ArtBirth
<1>10. \A i, x : ArtEmits(i, x) <=> ArtEmits(i, x)' BY <1>4 DEF ArtEmits
<1> QED BY <1>2, <1>3, <1>4, <1>5, <1>6, <1>7, <1>8, <1>9, <1>10

\* What the kinds have in common, when an answer tells of the artifacts
\* ids.
LEMMA ArtReceiveStep ==
    ASSUME ArtInv, ArtReceive, NEW ids \in SUBSET ArtIds, ArtLearn(ids, Head(artAnswers).told),
           artList' \in ArtLists, artCache' \in ArtLists, artHas' \in BOOLEAN, artStraddled' \in BOOLEAN,
           artSelected' \in ArtIds \cup {ArtNoId},
           \A i \in ArtIds : ArtCopy(i, artList'[i]) /\ ArtCopy(i, artCache'[i])
    PROVE  ArtTypes' /\ ArtStep /\ ArtLifeStep
<1> PICK a : a = Head(artAnswers) OBVIOUS
<1>1. /\ a.told \in ArtLists /\ artAnswers' \in Seq(ArtReplies)
      /\ \A x : x \in ToSet(artAnswers') => x \in ToSet(artAnswers)
      /\ \A i \in ArtIds : ArtCopy(i, a.told[i])
      /\ \A i, x : ArtEmits(i, x) <=> ArtEmits(i, x)'
      /\ UNCHANGED <<artKind, artOpen, artStore, artClock, artCall, artAsked, artEvents, artKnown,
                     artFetched, artRestored>> BY ArtReceiving
<1>2. /\ artSeen' \in [ArtIds -> Nat]
      /\ \A i \in ArtIds :
           /\ artSeen'[i] = IF i \in ids /\ a.told[i].at > artSeen[i] THEN a.told[i].at ELSE artSeen[i]
           /\ artSeen'[i] >= artSeen[i]
      /\ artOvertaken' \in SUBSET ArtIds BY <1>1, ArtLearned DEF ArtInv
<1>3. ArtStep /\ ArtLifeStep
  <2>1. \A i \in ArtIds : a.told[i] \in ArtEntries BY <1>1, ArtEntryType
  <2>2. \A i \in ArtIds : /\ artSeen'[i] >= artSeen[i]
                          /\ \/ artSeen'[i] = artSeen[i]
                             \/ \E x \in ArtEntries : ArtCopy(i, x) /\ x.at = artSeen'[i]
    BY <1>1, <1>2, <2>1
  <2>3. \A x : x \in ToSet(artEvents') => x \in ToSet(artEvents) BY <1>1
  <2> QED BY <1>1, <1>2, <2>2, <2>3, ArtWindowStep
<1>4. ArtTypes'
  <2>1. \A d \in ArtCallers : ArtCallOK(d)' BY <1>1 DEF ArtInv, ArtTypes, ArtCallOK
  <2> QED BY <1>1, <1>2, <2>1 DEF ArtInv, ArtTypes
<1> QED BY <1>3, <1>4

LEMMA ArtReceiveBookmarks ==
    ASSUME ArtInv, ArtReceive, artKind = "bookmark", Head(artAnswers).op = "list"
    PROVE  ArtKept
<1> PICK a : a = Head(artAnswers) OBVIOUS
<1>0. ArtBookmarkAnswer(a) /\ a.op = "list" BY DEF ArtReceive
<1>1. /\ a.told \in ArtLists
      /\ \A x : x \in ToSet(artAnswers') => x \in ToSet(artAnswers)
      /\ \A x : x \in ToSet(artAnswers) => x \in ToSet(artAnswers') \/ x = a
      /\ \A i \in ArtIds : ArtCopy(i, a.told[i])
      /\ \A i, x : ArtEmits(i, x) <=> ArtEmits(i, x)'
      /\ UNCHANGED <<artKind, artOpen, artStore, artClock, artCall, artAsked, artEvents, artKnown,
                     artFetched, artRestored>> BY ArtReceiving
<1>2. /\ UNCHANGED <<artCache, artSelected, artHas, artStraddled>>
      /\ artList' = IF artFetched THEN ArtMerge(artList, a.told) ELSE artList
      /\ ArtLearn(IF artFetched THEN ArtIds ELSE {}, a.told) BY <1>0 DEF ArtBookmarkAnswer, ArtOps
<1>3. PICK ids \in SUBSET ArtIds : ids = (IF artFetched THEN ArtIds ELSE {}) /\ ArtLearn(ids, a.told)
  <2>1. (IF artFetched THEN ArtIds ELSE {}) \in SUBSET ArtIds OBVIOUS
  <2> QED BY <1>2, <2>1
<1>4. /\ ArtTypes /\ artList \in ArtLists /\ artCache \in ArtLists
      /\ \A i \in ArtIds : artList[i] \in ArtEntries /\ a.told[i] \in ArtEntries
  BY <1>1, ArtEntryType DEF ArtInv, ArtTypes
<1>5. /\ artList' \in ArtLists
      /\ \A i \in ArtIds : artList'[i] = IF artFetched /\ a.told[i].there THEN a.told[i] ELSE artList[i]
  BY <1>2, <1>4 DEF ArtMerge, ArtLists
<1>6. ArtTypes' /\ ArtStep /\ ArtLifeStep
  <2>1. \A i \in ArtIds : ArtCopy(i, artList'[i]) /\ ArtCopy(i, artCache'[i])
    <3> SUFFICES ASSUME NEW i \in ArtIds PROVE ArtCopy(i, artList'[i]) /\ ArtCopy(i, artCache'[i])
      OBVIOUS
    <3>1. ArtCopy(i, artList[i]) /\ ArtCopy(i, artCache[i]) /\ ArtCopy(i, a.told[i])
      BY <1>1 DEF ArtCopy
    <3>2. CASE artList'[i] = a.told[i] BY <1>2, <3>1, <3>2, Zenon
    <3>3. CASE artList'[i] = artList[i] BY <1>2, <3>1, <3>3, Zenon
    <3> QED BY <1>5, <3>2, <3>3
  <2>2. /\ artCache' \in ArtLists /\ artHas' \in BOOLEAN /\ artStraddled' \in BOOLEAN
        /\ artSelected' \in ArtIds \cup {ArtNoId} BY <1>2, <1>4 DEF ArtTypes
  <2>3. ArtLearn(ids, Head(artAnswers).told) BY <1>3
  <2> QED BY <1>5, <2>1, <2>2, <2>3, ArtReceiveStep
<1>7. \A i \in ArtIds :
        /\ artSeen'[i] = IF i \in ids /\ a.told[i].at > artSeen[i] THEN a.told[i].at ELSE artSeen[i]
        /\ artSeen'[i] >= artSeen[i] /\ (i \in ids => artSeen'[i] >= a.told[i].at)
        /\ i \notin artOvertaken' => i \notin artOvertaken /\ (i \in ids => artSeen'[i] = a.told[i].at)
  BY <1>1, <1>3, <1>4, ArtLearned
<1>8. ArtListInv' /\ ArtCacheInv' BY <1>1 DEF ArtListInv, ArtCacheInv
<1>9. ArtFreshInv' BY <1>1, ArtFreshSame
<1>10. ArtClosedInv'
  <2>1. ArtClosing' <=> ArtClosing BY <1>1 DEF ArtClosing
  <2>2. ArtHeld' = ArtHeld /\ ArtNothing' = ArtNothing BY <1>1 DEF ArtHeld, ArtNothing, ArtNever
  <2>3. ~artHas => artList' = artList BY <1>2 DEF ArtInv, ArtClosedInv
  <2> QED BY <1>1, <1>2, <2>1, <2>2, <2>3 DEF ArtInv, ArtClosedInv
<1>11. ArtShownInv'
  <2> SUFFICES ASSUME artOpen, NEW i \in ArtIds PROVE ArtShown(i)' BY <1>1 DEF ArtShownInv
  <2>0. /\ ArtShown(i) /\ artList[i] \in ArtEntries /\ a.told[i] \in ArtEntries /\ artStore[i] \in ArtEntries
        /\ artSeen[i] \in Nat /\ artRestored \in Nat
        /\ artList[i].at \in Nat /\ a.told[i].at \in Nat /\ artStore[i].at \in Nat
        /\ a.told[i].there \in BOOLEAN BY <1>4, ArtEntryType DEF ArtInv, ArtShownInv, ArtTypes
  <2>1. /\ ArtCopy(i, a.told[i]) /\ ArtCopy(i, artList[i]) /\ ArtCopy(i, artStore[i])
        /\ artList[i].at <= artStore[i].at /\ a.told[i].at <= artStore[i].at
        /\ artList[i].there => artList[i].at > 0
    <3>1. ArtCopy(i, a.told[i]) /\ ArtCopy(i, artList[i]) /\ ArtCopy(i, artStore[i])
      BY <1>1 DEF ArtCopy
    <3> QED BY <2>0, <3>1 DEF ArtInv, ArtOrder
  <2>2. artStore[i].there => \A x \in ArtEntries : ArtCopy(i, x) /\ x.at > 0 => x.there /\ x.at >= artRestored
    BY DEF ArtInv, ArtLifeInv
  <2>3. ArtPending(i, artStore[i].at) => ArtPending(i, artStore[i].at)' BY <1>1 DEF ArtPending
  <2>4. CASE ~artFetched
    <3>1. artList'[i] = artList[i] /\ artSeen'[i] = artSeen[i] BY <1>3, <1>5, <1>7, <2>4
    <3> QED BY <1>1, <1>7, <2>0, <2>3, <2>4, <3>1 DEF ArtShown
  <2>5. CASE artFetched /\ a.told[i].there
    <3>1. artList'[i] = a.told[i] BY <1>5, <2>5
    <3>2. i \notin artOvertaken' => artSeen'[i] = a.told[i].at BY <1>3, <1>7, <2>5
    <3> QED BY <2>5, <3>1, <3>2 DEF ArtShown
  <2>6. CASE artFetched /\ ~a.told[i].there
    <3>1. artList'[i] = artList[i] /\ ids = ArtIds BY <1>3, <1>5, <2>6
    <3>2. artStore[i].there => a.told[i].at = 0 BY <2>0, <2>1, <2>2, <2>6
    <3>3. artStore[i].there => artList'[i].there \/ ArtFetching(i)'
      <4>1. SUFFICES ASSUME artStore[i].there, ~artList[i].there PROVE ArtFetching(i)' BY <3>1
      <4>2. ArtFetching(i) BY <2>0, <2>6, <4>1 DEF ArtShown
      <4>3. ~(a.told[i].at > 0) BY <3>2, <4>1
      <4> QED BY <1>1, <4>2, <4>3 DEF ArtFetching
    <3>4. ASSUME i \notin artOvertaken', artList[i].there
          PROVE  \/ artList[i].at = artSeen'[i]
                 \/ ~artStore[i].there /\ (artList[i].at < artRestored \/ ArtPending(i, artStore[i].at))
      <4>1. i \notin artOvertaken /\ artSeen'[i] = a.told[i].at /\ a.told[i].at >= artSeen[i]
        BY <1>7, <2>0, <3>1, <3>4
      <4>2. CASE artList[i].at = artSeen[i] /\ a.told[i].at # artSeen[i]
        <5>1. a.told[i].at > artList[i].at /\ artStore[i].at > artSeen[i] /\ ~artStore[i].there
          BY <2>0, <2>1, <3>2, <4>1, <4>2
        <5>2. CASE artStore[i].at > artRestored
          <6>1. artSeen[i] >= artStore[i].at \/ ArtPending(i, artStore[i].at)
            BY <2>0, <2>1, <5>2 DEF ArtInv, ArtHeard
          <6> QED BY <2>0, <5>1, <6>1
        <5>3. CASE ~(artStore[i].at > artRestored) BY <2>0, <2>1, <5>1, <5>3
        <5> QED BY <5>2, <5>3
      <4> QED BY <2>0, <3>4, <4>1, <4>2 DEF ArtShown
    <3> QED BY <1>1, <2>3, <2>6, <3>1, <3>3, <3>4 DEF ArtShown
  <2> QED BY <2>0, <2>4, <2>5, <2>6
<1> QED BY <1>6, <1>8, <1>9, <1>10, <1>11 DEF ArtKept

LEMMA ArtReceiveBookmark ==
    ASSUME ArtInv, ArtReceive, artKind = "bookmark", Head(artAnswers).op # "list"
    PROVE  ArtKept
<1> PICK a : a = Head(artAnswers) OBVIOUS
<1>0. ArtBookmarkAnswer(a) /\ a.op \in ArtOps BY DEF ArtReceive, ArtBookmarkAnswer, ArtOps
<1> PICK j : j = a.id OBVIOUS
<1> PICK v : v = a.told[j] OBVIOUS
<1>1. /\ j \in ArtIds /\ a.told \in ArtLists
      /\ \A x : x \in ToSet(artAnswers') => x \in ToSet(artAnswers)
      /\ \A x : x \in ToSet(artAnswers) => x \in ToSet(artAnswers') \/ x = a
      /\ ArtCopy(j, v) /\ ArtReplied(j, v) /\ (a.op = "create" => ArtBirth(j, v))
      /\ \A i, x : ArtEmits(i, x) <=> ArtEmits(i, x)'
      /\ UNCHANGED <<artKind, artOpen, artStore, artClock, artCall, artAsked, artEvents, artKnown,
                     artFetched, artRestored>>
  <2>1. a.op # "list" OBVIOUS
  <2> QED BY <1>0, <2>1, ArtReceiving
<1>2. /\ UNCHANGED <<artCache, artSelected>> /\ artHas' = TRUE
      /\ artList' = IF a.op = "create" THEN ArtAdded(artList, j, v) ELSE ArtReplaced(artList, j, v)
      /\ artStraddled' = (artStraddled \/ ~artKnown) /\ ArtLearn({j}, a.told)
  BY <1>0 DEF ArtBookmarkAnswer, ArtOps
<1>3. /\ ArtTypes /\ artList \in ArtLists /\ artCache \in ArtLists /\ v \in ArtEntries
      /\ artStraddled \in BOOLEAN /\ artKnown \in BOOLEAN BY <1>1, ArtEntryType DEF ArtInv, ArtTypes
<1>4. /\ artList' \in ArtLists
      /\ \A i \in ArtIds : artList'[i] = artList[i] \/ artList'[i] = ArtNever \/ (i = j /\ artList'[i] = v)
  <2>1. artList' \in ArtLists BY <1>1, <1>2, <1>3, ArtPatched
  <2> QED BY <1>1, <1>2, <1>3, <2>1 DEF ArtAdded, ArtReplaced, ArtWith, ArtLists
<1>5. ArtTypes' /\ ArtStep /\ ArtLifeStep
  <2>1. \A i \in ArtIds : ArtCopy(i, artList'[i]) /\ ArtCopy(i, artCache'[i])
    <3> SUFFICES ASSUME NEW i \in ArtIds PROVE ArtCopy(i, artList'[i]) /\ ArtCopy(i, artCache'[i])
      OBVIOUS
    <3>1. ArtCopy(i, artList[i]) /\ ArtCopy(i, artCache[i]) /\ ArtCopy(i, ArtNever) /\ ArtCopy(j, v)
      BY <1>1 DEF ArtCopy
    <3>2. CASE artList'[i] = artList[i] BY <1>2, <3>1, <3>2, Zenon
    <3>3. CASE artList'[i] = ArtNever BY <1>2, <3>1, <3>3, Zenon
    <3>4. CASE i = j /\ artList'[i] = v BY <1>2, <3>1, <3>4, Zenon
    <3> QED BY <1>4, <3>2, <3>3, <3>4
  <2>2. /\ artCache' \in ArtLists /\ artHas' \in BOOLEAN /\ artStraddled' \in BOOLEAN
        /\ artSelected' \in ArtIds \cup {ArtNoId} BY <1>2, <1>3 DEF ArtTypes
  <2>3. {j} \in SUBSET ArtIds /\ ArtLearn({j}, Head(artAnswers).told) BY <1>1, <1>2
  <2> QED BY <1>4, <2>1, <2>2, <2>3, ArtReceiveStep
<1>6. \A i \in ArtIds :
        /\ artSeen'[i] = IF i = j /\ v.at > artSeen[i] THEN v.at ELSE artSeen[i]
        /\ i \notin artOvertaken' => i \notin artOvertaken /\ (i = j => artSeen'[i] = v.at)
  <2>1. PICK ids \in SUBSET ArtIds : ids = {j} /\ ArtLearn(ids, a.told) BY <1>1, <1>2
  <2>2. \A i \in ArtIds :
          /\ artSeen'[i] = IF i \in ids /\ a.told[i].at > artSeen[i] THEN a.told[i].at ELSE artSeen[i]
          /\ artSeen'[i] >= artSeen[i] /\ (i \in ids => artSeen'[i] >= a.told[i].at)
          /\ i \notin artOvertaken' => i \notin artOvertaken /\ (i \in ids => artSeen'[i] = a.told[i].at)
    BY <1>1, <1>3, <2>1, ArtLearned
  <2> QED BY <2>1, <2>2
<1>7. ArtListInv' /\ ArtCacheInv' BY <1>1 DEF ArtListInv, ArtCacheInv
<1>8. ArtFreshInv' BY <1>1, ArtFreshSame
<1>9. ArtClosedInv'
  <2>1. ArtClosing' <=> ArtClosing BY <1>1 DEF ArtClosing
  <2>2. ArtHeld' = ArtHeld BY <1>1 DEF ArtHeld
  <2> QED BY <1>1, <1>2, <1>3, <2>1, <2>2 DEF ArtInv, ArtClosedInv
<1>10. ArtShownInv'
  <2>0. SUFFICES ASSUME artOpen PROVE ArtShownInv' BY <1>1 DEF ArtShownInv
  <2>1. v.at > 0 BY <1>1, <1>3 DEF ArtInv, ArtLifeInv
  <2>2. \/ artList' = ArtAdded(artList, j, v) /\ ArtBirth(j, v)
        \/ artList' = ArtReplaced(artList, j, v) BY <1>1, <1>2
  <2>3. \A i \in ArtIds : ArtFetching(i) => ArtFetching(i)' BY <1>0, <1>1 DEF ArtFetching, ArtOps
  <2> QED BY <1>1, <1>3, <1>6, <2>0, <2>1, <2>2, <2>3, ArtPatchShown
<1> QED BY <1>5, <1>7, <1>8, <1>9, <1>10 DEF ArtKept

LEMMA ArtReceiveAnalysis ==
    ASSUME ArtInv, ArtReceive, artKind = "analysis"
    PROVE  ArtKept
<1> PICK a : a = Head(artAnswers) OBVIOUS
<1>0. ArtAnalysisAnswer(a) /\ artAnswers # <<>> /\ artAnswers' = Tail(artAnswers) BY DEF ArtReceive
<1>1. /\ a.op \in ArtOps \cup {"list", "get"} /\ (a.op # "list" => a.id \in ArtIds) /\ a.told \in ArtLists
      /\ \A i \in ArtIds : ArtCopy(i, a.told[i])
      /\ \A i, x : ArtEmits(i, x) <=> ArtEmits(i, x)'
      /\ UNCHANGED <<artKind, artOpen, artStore, artClock, artCall, artAsked, artEvents, artKnown,
                     artFetched, artRestored>> BY ArtReceiving
<1>2. UNCHANGED <<artHas, artStraddled>> BY <1>0 DEF ArtAnalysisAnswer
<1>3. /\ ArtTypes /\ artList \in ArtLists /\ artCache \in ArtLists /\ artSelected \in ArtIds \cup {ArtNoId}
      /\ artHas \in BOOLEAN /\ artStraddled \in BOOLEAN
      /\ \A i \in ArtIds : a.told[i] \in ArtEntries BY <1>1, ArtEntryType DEF ArtInv, ArtTypes
<1>4. /\ a.op = "list" =>
           /\ artList' = [i \in ArtIds |-> IF a.told[i].there THEN a.told[i] ELSE ArtNever]
           /\ artCache' = artCache /\ artSelected' = artSelected
           /\ artSeen' = artSeen /\ artOvertaken' = artOvertaken
      /\ a.op = "get" =>
           /\ artCache' = IF a.told[a.id].there THEN ArtWith(artCache, a.id, a.told[a.id]) ELSE artCache
           /\ ArtLearn({a.id}, a.told) /\ artList' = artList /\ artSelected' = artSelected
      /\ a.op \in ArtOps =>
           /\ artCache' = ArtWith(artCache, a.id, a.told[a.id])
           /\ artList' = IF a.op = "create" THEN ArtAdded(artList, a.id, a.told[a.id])
                         ELSE ArtReplaced(artList, a.id, a.told[a.id])
           /\ artSelected' \in {a.id, ArtNoId, artSelected} /\ ArtLearn({a.id}, a.told)
  <2>1. CASE a.op = "list" BY <1>0, <2>1 DEF ArtAnalysisAnswer, ArtOps, artTold
  <2>2. CASE a.op = "get" BY <1>0, <2>2 DEF ArtAnalysisAnswer, ArtOps
  <2>3. CASE a.op \in ArtOps BY <1>0, <2>3 DEF ArtAnalysisAnswer, ArtOps
  <2> QED BY <1>1, <2>1, <2>2, <2>3 DEF ArtOps
<1>5. PICK ids \in SUBSET ArtIds : /\ ArtLearn(ids, a.told)
                                   /\ ids = IF a.op = "list" THEN {} ELSE {a.id}
  <2>1. CASE a.op = "list"
    <3>1. artSeen \in [ArtIds -> Nat] BY <1>3 DEF ArtTypes
    <3>2. artSeen = [i \in ArtIds |-> artSeen[i]] BY <3>1
    <3>3. ArtLearn({}, a.told) BY <1>4, <2>1, <3>2 DEF ArtLearn
    <3>4. {} \in SUBSET ArtIds OBVIOUS
    <3> QED BY <2>1, <3>3, <3>4
  <2>2. CASE a.op # "list"
    <3>1. ArtLearn({a.id}, a.told) /\ {a.id} \in SUBSET ArtIds BY <1>1, <1>4, <2>2
    <3> QED BY <2>2, <3>1
  <2> QED BY <2>1, <2>2
<1>6. /\ artList' \in ArtLists /\ artCache' \in ArtLists
      /\ \A i \in ArtIds : artList'[i] = artList[i] \/ artList'[i] = ArtNever \/ artList'[i] = a.told[i]
      /\ \A i \in ArtIds : i \notin ids => artCache'[i] = artCache[i]
      /\ \A i \in ids : IF a.told[i].there THEN artCache'[i] = a.told[i]
                        ELSE artCache'[i] = artCache[i] \/ artCache'[i] = ArtNever
  <2>1. CASE a.op = "list" BY <1>3, <1>4, <1>5, <2>1, ArtEntryType DEF ArtLists
  <2>2. CASE a.op = "get" BY <1>1, <1>3, <1>4, <1>5, <2>2, ArtEntryType DEF ArtLists, ArtWith
  <2>3. CASE a.op \in ArtOps
    <3>1. a.op # "list" /\ a.id \in ArtIds /\ ids = {a.id} /\ ArtNever \in ArtEntries
      BY <1>1, <1>5, <2>3, ArtEntryType DEF ArtOps
    <3>2. /\ artList' \in ArtLists
          /\ \A i \in ArtIds : artList'[i] = artList[i] \/ artList'[i] = ArtNever \/ artList'[i] = a.told[i]
      BY <1>3, <1>4, <2>3, <3>1 DEF ArtLists, ArtWith, ArtAdded, ArtReplaced
    <3>3. /\ artCache' \in ArtLists
          /\ \A i \in ArtIds : i \notin ids => artCache'[i] = artCache[i]
          /\ \A i \in ids : IF a.told[i].there THEN artCache'[i] = a.told[i]
                            ELSE artCache'[i] = artCache[i] \/ artCache'[i] = ArtNever
      BY <1>3, <1>4, <2>3, <3>1 DEF ArtLists, ArtWith
    <3> QED BY <3>2, <3>3
  <2> QED BY <1>1, <2>1, <2>2, <2>3
<1>7. ArtTypes' /\ ArtStep /\ ArtLifeStep
  <2>1. \A i \in ArtIds : ArtCopy(i, artList'[i]) /\ ArtCopy(i, artCache'[i])
    <3> SUFFICES ASSUME NEW i \in ArtIds PROVE ArtCopy(i, artList'[i]) /\ ArtCopy(i, artCache'[i])
      OBVIOUS
    <3>1. ArtCopy(i, artList[i]) /\ ArtCopy(i, artCache[i]) /\ ArtCopy(i, ArtNever) /\ ArtCopy(i, a.told[i])
      BY <1>1 DEF ArtCopy
    <3>2. ASSUME NEW x, x = artList[i] \/ x = artCache[i] \/ x = ArtNever \/ x = a.told[i] PROVE ArtCopy(i, x)
      BY <3>1, <3>2, Zenon
    <3> QED BY <1>6, <3>2
  <2>2. /\ artHas' \in BOOLEAN /\ artStraddled' \in BOOLEAN
        /\ artSelected' \in ArtIds \cup {ArtNoId} BY <1>1, <1>2, <1>3, <1>4 DEF ArtOps
  <2>3. ArtLearn(ids, Head(artAnswers).told) BY <1>5
  <2> QED BY <1>6, <2>1, <2>2, <2>3, ArtReceiveStep
<1>8. \A i \in ArtIds :
        /\ artSeen'[i] = IF i \in ids /\ a.told[i].at > artSeen[i] THEN a.told[i].at ELSE artSeen[i]
        /\ artSeen'[i] >= artSeen[i] /\ (i \in ids => artSeen'[i] >= a.told[i].at)
        /\ i \notin artOvertaken' => i \notin artOvertaken /\ (i \in ids => artSeen'[i] = a.told[i].at)
  BY <1>1, <1>3, <1>5, ArtLearned
<1>9. ArtCacheInv'
  <2> SUFFICES ASSUME NEW i \in ArtIds, artCache'[i].there
               PROVE  /\ artCache'[i].at <= artSeen'[i]
                      /\ i \notin artOvertaken' /\ artCache'[i].at >= artRestored =>
                           \/ artCache'[i].at = artSeen'[i]
                           \/ \E x \in ArtEntries : ArtEmits(i, x) /\ x.at > artCache'[i].at
    BY <1>1 DEF ArtCacheInv
  <2>0. /\ artSeen[i] \in Nat /\ artSeen'[i] \in Nat /\ artRestored \in Nat
        /\ a.told[i] \in ArtEntries /\ a.told[i].at \in Nat /\ artCache[i].at \in Nat
    BY <1>3, <1>7, ArtEntryType DEF ArtTypes
  <2>1. artCache[i].there =>
          /\ artCache[i].at <= artSeen[i]
          /\ i \notin artOvertaken /\ artCache[i].at >= artRestored =>
               \/ artCache[i].at = artSeen[i]
               \/ \E x \in ArtEntries : ArtEmits(i, x) /\ x.at > artCache[i].at
    BY DEF ArtInv, ArtCacheInv
  <2>2. CASE i \notin ids
    <3>1. artCache'[i] = artCache[i] /\ artSeen'[i] = artSeen[i] BY <1>6, <1>8, <2>2
    <3> QED BY <1>8, <2>1, <3>1
  <2>3. CASE i \in ids /\ a.told[i].there
    <3>1. artCache'[i] = a.told[i] BY <1>6, <2>3
    <3> QED BY <1>8, <2>0, <2>3, <3>1
  <2>4. CASE i \in ids /\ ~a.told[i].there
    <3>1. artCache'[i] = artCache[i] /\ artCache[i].there BY <1>6, <2>4, ArtEntryType
    <3>2. artCache[i].at <= artSeen'[i] BY <1>8, <2>0, <2>1, <3>1
    <3>3. ASSUME i \notin artOvertaken', artCache[i].at >= artRestored, artCache[i].at = artSeen[i],
                 artCache[i].at # artSeen'[i]
          PROVE  \E x \in ArtEntries : ArtEmits(i, x) /\ x.at > artCache[i].at
      <4>1. a.told[i].at > artSeen[i] /\ a.told[i].at > artRestored BY <1>8, <2>0, <3>3
      <4>2. artSeen[i] >= a.told[i].at \/ ArtPending(i, a.told[i].at)
        BY <1>1, <2>0, <4>1 DEF ArtInv, ArtHeard, ArtListInv
      <4>3. ArtPending(i, a.told[i].at) BY <2>0, <4>1, <4>2
      <4> QED BY <2>0, <3>3, <4>1, <4>3 DEF ArtPending
    <3> QED BY <1>8, <2>1, <3>1, <3>2, <3>3
  <2> QED BY <2>2, <2>3, <2>4
<1>10. ArtListInv'
  <2>1. artOpen /\ (ArtComing \/ \E k \in 0 .. Len(artAnswers) : ArtLastWord(k))
    BY DEF ArtInv, ArtListInv
  <2>2. CASE ArtComing
    <3>1. ArtComing' BY <1>1, <2>2 DEF ArtComing
    <3> QED BY <1>1, <2>1, <3>1 DEF ArtListInv
  <2>3. ASSUME NEW k \in 0 .. Len(artAnswers), ArtLastWord(k)
        PROVE  ArtListInv'
    <3>0. /\ Len(artAnswers) \in Nat /\ Len(artAnswers) >= 1 /\ Len(artAnswers') = Len(artAnswers) - 1
          /\ a = artAnswers[1]
          /\ \A n \in 1 .. Len(artAnswers) - 1 : artAnswers'[n] = artAnswers[n + 1]
      <4>1. artAnswers \in Seq(ArtReplies) /\ artAnswers # <<>> BY <1>0, <1>3 DEF ArtTypes
      <4>2. /\ Head(artAnswers) = artAnswers[1] /\ Len(artAnswers) \in Nat /\ Len(artAnswers) >= 1
            /\ Len(Tail(artAnswers)) = Len(artAnswers) - 1
            /\ DOMAIN Tail(artAnswers) = 1 .. Len(artAnswers) - 1
            /\ \A n \in DOMAIN Tail(artAnswers) : Tail(artAnswers)[n] = artAnswers[n + 1]
        BY <4>1, ArtHeadTail
      <4> QED BY <1>0, <4>2
    <3>1. PICK n \in Nat : /\ n \in 0 .. Len(artAnswers')
                           /\ n = IF k = 0 THEN 0 ELSE k - 1 BY <3>0
    <3>2. \A m \in n + 1 .. Len(artAnswers') : artAnswers'[m].op = "get"
      <4> SUFFICES ASSUME NEW m \in n + 1 .. Len(artAnswers') PROVE artAnswers'[m].op = "get"
        OBVIOUS
      <4>1. artAnswers'[m] = artAnswers[m + 1] /\ m + 1 \in k + 1 .. Len(artAnswers) BY <3>0, <3>1
      <4> QED BY <2>3, <4>1 DEF ArtLastWord
    <3>3. CASE n # 0
      <4>1. artAnswers'[n] = artAnswers[k] /\ k # 0 BY <3>0, <3>1, <3>3
      <4>2. artAnswers[k].op = "list" /\ \A i \in ArtIds : ArtAgrees(artAnswers[k].told, i)
        BY <2>3, <4>1 DEF ArtLastWord
      <4>3. \A i \in ArtIds : ArtAgrees(artAnswers[n].told, i)' BY <1>1, <4>1, <4>2 DEF ArtAgrees
      <4>4. ArtLastWord(n)' BY <3>2, <3>3, <4>1, <4>2, <4>3 DEF ArtLastWord
      <4> QED BY <1>1, <2>1, <3>1, <4>4 DEF ArtListInv
    <3>4. CASE n = 0
      <4>1. \A i \in ArtIds : ArtAgrees(artList, i)'
        <5>1. CASE k = 0
          <6>1. a.op = "get" /\ \A i \in ArtIds : ArtAgrees(artList, i)
            <7>1. 1 \in k + 1 .. Len(artAnswers) BY <3>0, <5>1
            <7> QED BY <2>3, <3>0, <5>1, <7>1 DEF ArtLastWord
          <6>2. artList' = artList BY <1>4, <6>1
          <6> QED BY <1>1, <6>1, <6>2 DEF ArtAgrees
        <5>2. CASE k = 1
          <6>1. a.op = "list" /\ \A i \in ArtIds : ArtAgrees(a.told, i)
            BY <2>3, <3>0, <5>2 DEF ArtLastWord
          <6>2. \A i \in ArtIds : artList'[i] = IF a.told[i].there THEN a.told[i] ELSE ArtNever
            BY <1>4, <6>1
          <6>3. \A i \in ArtIds : artStore[i].there => artStore[i].there = a.told[i].there
            BY <6>1 DEF ArtAgrees
          <6> QED BY <1>1, <6>1, <6>2, <6>3, ArtEntryType DEF ArtAgrees
        <5> QED BY <3>1, <3>4, <5>1, <5>2
      <4>2. ArtLastWord(n)' BY <3>2, <3>4, <4>1 DEF ArtLastWord
      <4> QED BY <1>1, <2>1, <3>1, <4>2 DEF ArtListInv
    <3> QED BY <3>3, <3>4
  <2> QED BY <2>1, <2>2, <2>3
<1>11. ArtClosedInv' /\ ArtFreshInv' /\ ArtShownInv'
  BY <1>1 DEF ArtClosedInv, ArtFreshInv, ArtShownInv
<1> QED BY <1>7, <1>9, <1>10, <1>11 DEF ArtKept

LEMMA ArtInitInv ==
    ArtInit => ArtInv
<1> SUFFICES ASSUME ArtInit PROVE ArtInv OBVIOUS
<1>0. /\ artKind \in ArtKinds /\ artKind \in {"bookmark", "analysis"}
      /\ artOpen = TRUE /\ artStore = ArtNothing /\ artClock = 0
      /\ artCall = [c \in ArtCallers |-> ArtIdle]
      /\ artAsked = IF artKind = "analysis" THEN <<ArtRequest("list", ArtNoId)>> ELSE <<>>
      /\ artEvents = <<>> /\ artAnswers = <<>>
      /\ artKnown = TRUE /\ artHas = FALSE /\ artFetched = FALSE
      /\ artList = ArtNothing /\ artCache = ArtNothing /\ artSelected = ArtNoId
      /\ artSeen = [i \in ArtIds |-> 0] /\ artOvertaken = {}
      /\ artRestored = 0 /\ artStraddled = FALSE BY ArtAssumption DEF ArtInit
<1>1. \A c \in ArtCallers : artCall[c].pc = "idle" /\ artCall[c].op = ArtNoId BY <1>0, ArtIdleType
<1>2. ToSet(artEvents) = {} /\ ToSet(artAnswers) = {} BY <1>0 DEF ToSet
<1>3. artAsked \in Seq(ArtRequests) /\ (artKind = "analysis" => \E r \in ToSet(artAsked) : r.op = "list")
      /\ (artKind = "bookmark" => artAsked = <<>>)
  <2> DEFINE r == ArtRequest("list", ArtNoId)
  <2>1. r \in ArtRequests /\ r.op = "list" BY DEF ArtRequest, ArtRequests
  <2> HIDE DEF r
  <2>2. <<r>> \in Seq(ArtRequests) /\ 1 \in DOMAIN <<r>> /\ <<r>>[1] = r BY <2>1
  <2>3. r \in ToSet(<<r>>) BY <2>2 DEF ToSet
  <2>4. artKind = "analysis" => artAsked = <<r>> BY <1>0 DEF r
  <2>5. artKind # "analysis" => artAsked = <<>> BY <1>0
  <2> QED BY <1>0, <2>1, <2>2, <2>3, <2>4, <2>5
<1>4. \A i \in ArtIds : artStore[i] = ArtNever /\ artList[i] = ArtNever /\ artCache[i] = ArtNever /\ artSeen[i] = 0
  BY <1>0, ArtEntryType
<1>5. /\ \A i, x : ~ArtEmits(i, x)
      /\ \A i, x : ~ArtBirth(i, x) /\ ~ArtReplied(i, x)
      /\ \A i \in ArtIds : \A x : ArtCopy(i, x) => x = ArtNever
  BY <1>1, <1>2, <1>4 DEF ArtEmits, ArtBirth, ArtReplied, ArtCopy
<1>6. ArtTypes
  <2>1. artStore \in ArtLists /\ artList \in ArtLists /\ artCache \in ArtLists BY <1>0, ArtEntryType
  <2>2. artCall \in [ArtCallers -> ArtCalls] /\ \A c \in ArtCallers : ArtCallOK(c)
    BY <1>0, <1>1, ArtIdleType DEF ArtCallOK, ArtNoId
  <2>3. artSeen \in [ArtIds -> Nat] BY <1>0
  <2>4. artAnswers \in Seq(ArtReplies) /\ artEvents \in Seq(ArtNews) BY <1>0
  <2>5. artRestored \in 0 .. artClock /\ artClock \in Nat BY <1>0
  <2> QED BY <1>0, <1>2, <1>3, <2>1, <2>2, <2>3, <2>4, <2>5 DEF ArtTypes
<1>7. ArtOrder BY <1>0, <1>4, <1>5, ArtEntryType DEF ArtOrder
<1>8. ArtHeard BY <1>0, <1>5, ArtEntryType DEF ArtHeard
<1>9. ArtListInv BY <1>0, <1>3 DEF ArtListInv, ArtComing
<1>10. ArtCacheInv BY <1>4, ArtEntryType DEF ArtCacheInv
<1>11. ArtClosedInv BY <1>0, <1>1, <1>2 DEF ArtClosedInv, ArtClosing
<1>12. ArtFreshInv BY <1>1, <1>3 DEF ArtFreshInv, ArtMaking
<1>13. ArtLifeInv BY <1>4, <1>5, ArtEntryType DEF ArtLifeInv
<1>14. ArtShownInv BY <1>0, <1>4, ArtEntryType DEF ArtShownInv, ArtShown
<1> QED BY <1>6, <1>7, <1>8, <1>9, <1>10, <1>11, <1>12, <1>13, <1>14 DEF ArtInv

LEMMA ArtStepInv ==
    ArtInv /\ [ArtNext]_artVars => ArtInv'
<1> SUFFICES ASSUME ArtInv, [ArtNext]_artVars PROVE ArtInv' OBVIOUS
<1>1. CASE \E c \in ArtAgents : ArtCallStart(c) BY <1>1, ArtCallStartKept, ArtKeptInv
<1>2. CASE \E c \in ArtCallers : ArtCallStep(c)
  BY <1>2, ArtCheckKept, ArtChangeKept, ArtClearKept, ArtEmitKept, ArtKeptInv DEF ArtCallStep
<1>3. CASE ArtCommandStart
  <2>1. Head(artAsked).op \in ArtOps \/ Head(artAsked).op \in {"list", "get"}
    BY <1>3 DEF ArtCommandStart, ArtOps
  <2> QED BY <1>3, <2>1, ArtCommandCall, ArtCommandRead, ArtKeptInv
<1>4. CASE ArtHear
  <2>1. artKind \in {"bookmark", "analysis"} BY ArtAssumption DEF ArtInv, ArtTypes
  <2> QED BY <1>4, <2>1, ArtHearBookmark, ArtHearAnalysis, ArtKeptInv
<1>5. CASE ArtReceive
  <2>1. artKind \in {"bookmark", "analysis"} BY ArtAssumption DEF ArtInv, ArtTypes
  <2> QED BY <1>5, <2>1, ArtReceiveBookmarks, ArtReceiveBookmark, ArtReceiveAnalysis, ArtKeptInv
<1>6. CASE ArtClick BY <1>6, ArtClickKept, ArtKeptInv
<1>7. CASE UNCHANGED artVars
  <2>1. UNCHANGED <<artKind, artOpen, artStore, artClock, artRestored, artTold, artList, artCache, artEvents,
                    artAnswers, artCall, artAsked, artFetched, artKnown, artHas, artSelected, artStraddled>>
    BY <1>7 DEF artVars, artBack, artWin, artGhost
  <2>2. ArtStep /\ ArtLifeStep /\ ArtListInv' /\ ArtCacheInv' /\ ArtShownInv' BY <2>1, ArtQuiet
  <2>3. ArtTypes'
    <3>1. \A d \in ArtCallers : ArtCallOK(d)' BY <2>1 DEF ArtInv, ArtTypes, ArtCallOK
    <3> QED BY <2>1, <3>1 DEF ArtInv, ArtTypes, artTold
  <2>4. ArtClosedInv'
    <3>1. ArtClosing' <=> ArtClosing BY <2>1 DEF ArtClosing
    <3>2. ArtHeld' = ArtHeld /\ ArtNothing' = ArtNothing BY <2>1 DEF ArtHeld, ArtNothing, ArtNever
    <3> QED BY <2>1, <3>1, <3>2 DEF ArtInv, ArtClosedInv
  <2>5. ArtFreshInv' BY <2>1, ArtFreshSame
  <2> QED BY <2>2, <2>3, <2>4, <2>5, ArtKeptInv DEF ArtKept
<1> QED BY <1>1, <1>2, <1>3, <1>4, <1>5, <1>6, <1>7 DEF ArtNext

LEMMA ArtInvHolds ==
    ArtSpec => []ArtInv BY ArtInitInv, ArtStepInv, PTL DEF ArtSpec

\* The stores of bookmarks and analyses, the calls, the requests, events
\* and answers on their way, and the window's copies have their types
\* (services/bookmarks.rs, services/analyses.rs, bookmarksStore.ts,
\* analysesStore.ts).
THEOREM ArtTypeCorrect ==
    ArtSpec => []ArtTypeOK
<1>1. ArtInv => ArtTypeOK
  <2> SUFFICES ASSUME ArtInv PROVE ArtTypeOK OBVIOUS
  <2>1. \A c \in ArtCallers : artCall[c].pc \in {"idle", "check", "change", "clear", "emit"}
    BY DEF ArtInv, ArtTypes, ArtCalls
  <2>2. \A k \in DOMAIN artAsked : artAsked[k].op \in {"create", "update", "remove", "list", "get"}
    BY DEF ArtInv, ArtTypes, ArtRequests, ArtOps
  <2>3. \A f \in {artStore, artList, artCache} : \A i \in ArtIds : f[i] \in ArtEntries
    BY DEF ArtInv, ArtTypes, ArtLists
  <2> QED BY <2>1, <2>2, <2>3 DEF ArtInv, ArtTypes, ArtTypeOK
<1> QED BY <1>1, ArtInvHolds, PTL

LEMMA ArtSettledQuiet ==
    ASSUME ArtInv, ArtSettled, NEW i \in ArtIds
    PROVE  /\ \A x : ~ArtEmits(i, x)
           /\ ~ArtComing /\ ~ArtClosing /\ ~ArtFetching(i) /\ Len(artAnswers) = 0
           /\ artStore[i].at > artRestored /\ artOpen => artSeen[i] = artStore[i].at
<1>1. /\ \A c \in ArtCallers : artCall[c].pc = "idle"
      /\ ToSet(artAsked) = {} /\ ToSet(artEvents) = {} /\ ToSet(artAnswers) = {} /\ artEvents = <<>>
      /\ Len(artAnswers) = 0 BY DEF ArtSettled, ToSet
<1>2. \A x : ~ArtEmits(i, x) BY <1>1 DEF ArtEmits
<1>3. ~ArtComing /\ ~ArtClosing /\ ~ArtFetching(i) BY <1>1 DEF ArtComing, ArtClosing, ArtFetching
<1>4. artStore[i].at > artRestored /\ artOpen => artSeen[i] = artStore[i].at
  <2>1. /\ artStore[i] \in ArtEntries /\ artStore[i].at \in Nat /\ artSeen[i] \in Nat
        /\ artSeen[i] <= artStore[i].at /\ ArtCopy(i, artStore[i])
    BY ArtEntryType DEF ArtInv, ArtTypes, ArtOrder, ArtCopy
  <2>2. ~ArtPending(i, artStore[i].at) BY <1>2 DEF ArtPending
  <2> QED BY <2>1, <2>2 DEF ArtInv, ArtHeard
<1> QED BY <1>1, <1>2, <1>3, <1>4

\* Once everything is told, the window's analyses are the store's, whatever
\* the order of events and answers was; its bookmarks of an open session
\* are the store's, except for one told out of order or dropped by a
\* restore; and a closed session leaves none behind unless a creation or
\* an answer crossed the closing (analysesStore.ts:249-270,
\* bookmarksStore.ts:223-227,429-462, bookmarks.rs:35-66).
THEOREM ArtCopiesAgree ==
    ArtSpec => []ArtCopiesSettle
<1>1. ArtInv => ArtAnalysesSettle
  <2> SUFFICES ASSUME ArtInv, artKind = "analysis", ArtSettled, NEW i \in ArtIds
               PROVE  /\ ArtAgrees(artList, i)
                      /\ artCache[i].there /\ i \notin artOvertaken /\ artCache[i].at >= artRestored =>
                            ArtAgrees(artCache, i) BY DEF ArtAnalysesSettle
  <2>1. artOpen /\ ArtAgrees(artList, i) BY ArtSettledQuiet DEF ArtInv, ArtListInv, ArtLastWord
  <2>2. ASSUME artCache[i].there, i \notin artOvertaken, artCache[i].at >= artRestored
        PROVE  artCache[i] = artStore[i]
    <3>1. artCache[i].at = artSeen[i] BY <2>2, ArtSettledQuiet DEF ArtInv, ArtCacheInv
    <3>2. /\ artStore[i].at \in Nat /\ artCache[i].at \in Nat /\ artRestored \in Nat
          /\ artCache[i].at <= artStore[i].at
          /\ (artCache[i].at = artStore[i].at => artCache[i] = artStore[i])
      BY ArtEntryType DEF ArtInv, ArtTypes, ArtOrder, ArtCopy
    <3>3. artStore[i].at > artRestored => artSeen[i] = artStore[i].at BY <2>1, ArtSettledQuiet
    <3> QED BY <2>2, <3>1, <3>2, <3>3
  <2> QED BY <2>1, <2>2 DEF ArtAgrees
<1>2. ArtInv => ArtBookmarksSettle
  <2> SUFFICES ASSUME ArtInv, artKind = "bookmark", ArtSettled
               PROVE  /\ artOpen /\ artFetched => \A i \in ArtIds \ artOvertaken :
                           ArtAgrees(artList, i) \/ (~artStore[i].there /\ artList[i].at < artRestored)
                      /\ ~artOpen /\ ~artStraddled => ~artHas /\ ArtHeld = {}
    BY DEF ArtBookmarksSettle
  <2>1. ~artOpen /\ ~artStraddled => ~artHas /\ ArtHeld = {}
    <3>1. ~ArtClosing /\ ~\E c \in ArtCallers : artCall[c].pc = "clear"
      BY DEF ArtSettled, ArtClosing, ToSet
    <3> QED BY <3>1 DEF ArtInv, ArtClosedInv
  <2>2. ASSUME artOpen, artFetched, NEW i \in ArtIds \ artOvertaken
        PROVE  ArtAgrees(artList, i) \/ (~artStore[i].there /\ artList[i].at < artRestored)
    <3>1. ArtShown(i) /\ ~ArtFetching(i) /\ ~ArtPending(i, artStore[i].at)
      BY <2>2, ArtSettledQuiet DEF ArtInv, ArtShownInv, ArtPending
    <3>2. /\ artStore[i].at \in Nat /\ artList[i].at \in Nat /\ artRestored \in Nat
          /\ artList[i].at <= artStore[i].at
          /\ (artList[i].at = artStore[i].at => artList[i] = artStore[i])
          /\ artList[i] \in ArtEntries /\ ArtCopy(i, artList[i])
          /\ (artList[i].there => artList[i].at > 0)
      BY ArtEntryType DEF ArtInv, ArtTypes, ArtOrder, ArtCopy
    <3>3. artStore[i].at > artRestored => artSeen[i] = artStore[i].at BY <2>2, ArtSettledQuiet
    <3>4. CASE artStore[i].there
      <4>1. artList[i].there /\ artList[i].at = artSeen[i] BY <2>2, <3>1, <3>4 DEF ArtShown
      <4>2. artList[i].at >= artRestored BY <3>2, <3>4, <4>1 DEF ArtInv, ArtLifeInv
      <4>3. artList[i].at = artStore[i].at BY <3>2, <3>3, <4>1, <4>2
      <4> QED BY <3>2, <3>4, <4>3 DEF ArtAgrees
    <3>5. CASE ~artStore[i].there /\ artList[i].there
      <4>1. artList[i].at = artSeen[i] \/ artList[i].at < artRestored
        BY <2>2, <3>1, <3>5 DEF ArtShown
      <4>2. artList[i].at # artStore[i].at BY <3>2, <3>5
      <4> QED BY <3>2, <3>3, <3>5, <4>1, <4>2
    <3> QED BY <3>4, <3>5 DEF ArtAgrees
  <2> QED BY <2>1, <2>2
<1>3. ArtInv => ArtCopiesSettle BY <1>1, <1>2 DEF ArtCopiesSettle
<1> QED BY <1>3, ArtInvHolds, PTL

----------------------------------------
\* The tabs.

\* What an event carries.
TabNewsOk(e) ==
    /\ e.ev = "opened" => e.total = 1 /\ e.indexing = (TabChunks[e.id] > 1)
    /\ e.ev = "progress" => TabChunks[e.id] > 1 /\ e.total \in 1 .. TabChunks[e.id]
    /\ e.ev = "complete" => TabChunks[e.id] > 1 /\ e.total = TabChunks[e.id]
TabMessages == [ev : {"opened", "progress", "complete", "closed"}, id : TabIds, total : Nat, indexing : BOOLEAN]
TabNews == {e \in TabMessages : TabNewsOk(e)}

\* What is among the events: one of a kind, one after each of a kind.
TabIs(events, k, name, i) == events[k].ev = name /\ events[k].id = i
TabHas(events, name, i) == \E k \in DOMAIN events : TabIs(events, k, name, i)
TabFollowed(events, i, name, by) ==
    \A k \in DOMAIN events : TabIs(events, k, name, i) =>
      \E l \in DOMAIN events : l > k /\ TabIs(events, l, by, i)

\* News of a close that the window does not take for the echo of its own.
TabSpare(events, i, pending) ==
    \E k \in DOMAIN events :
      /\ TabIs(events, k, "closed", i)
      /\ i \in pending => \E l \in DOMAIN events : l # k /\ TabIs(events, l, "closed", i)

\* News of an opening that no news of a close follows.
TabComes(events, i) ==
    \E k \in DOMAIN events : /\ TabIs(events, k, "opened", i)
                             /\ \A l \in DOMAIN events : l > k => ~TabIs(events, l, "closed", i)

----------------------------------------
\* Events one after the other.
LEMMA TabConcat ==
    ASSUME NEW S, NEW s \in Seq(S), NEW x \in Seq(S)
    PROVE  /\ s \o x \in Seq(S) /\ Len(s) \in Nat /\ Len(x) \in Nat
           /\ DOMAIN s = 1 .. Len(s) /\ DOMAIN x = 1 .. Len(x)
           /\ DOMAIN (s \o x) = 1 .. Len(s) + Len(x)
           /\ \A k \in 1 .. Len(s) : (s \o x)[k] = s[k]
           /\ \A k \in 1 .. Len(x) : (s \o x)[Len(s) + k] = x[k]
  OBVIOUS

\* An event of the whole is one of the first or one of the second.
LEMMA TabConcatIs ==
    ASSUME NEW S, NEW s \in Seq(S), NEW x \in Seq(S), NEW name, NEW i
    PROVE  /\ \A k \in DOMAIN s : k \in DOMAIN (s \o x) /\ (TabIs(s \o x, k, name, i) <=> TabIs(s, k, name, i))
           /\ \A k \in DOMAIN x : /\ Len(s) + k \in DOMAIN (s \o x)
                                  /\ TabIs(s \o x, Len(s) + k, name, i) <=> TabIs(x, k, name, i)
           /\ \A k \in DOMAIN (s \o x) : k \in DOMAIN s \/ \E l \in DOMAIN x : k = Len(s) + l
<1>1. \A k \in DOMAIN s : k \in DOMAIN (s \o x) /\ (TabIs(s \o x, k, name, i) <=> TabIs(s, k, name, i))
  BY TabConcat DEF TabIs
<1>2. \A k \in DOMAIN x : /\ Len(s) + k \in DOMAIN (s \o x)
                          /\ TabIs(s \o x, Len(s) + k, name, i) <=> TabIs(x, k, name, i)
  BY TabConcat DEF TabIs
<1>3. \A k \in DOMAIN (s \o x) : k \in DOMAIN s \/ \E l \in DOMAIN x : k = Len(s) + l
  <2> SUFFICES ASSUME NEW k \in DOMAIN (s \o x), k \notin DOMAIN s PROVE \E l \in DOMAIN x : k = Len(s) + l
    OBVIOUS
  <2>1. k - Len(s) \in DOMAIN x /\ k = Len(s) + (k - Len(s)) BY TabConcat
  <2> QED BY <2>1
<1> QED BY <1>1, <1>2, <1>3

LEMMA TabConcatHas ==
    ASSUME NEW S, NEW s \in Seq(S), NEW x \in Seq(S), NEW name, NEW i
    PROVE  TabHas(s \o x, name, i) <=> TabHas(s, name, i) \/ TabHas(x, name, i)
<1>1. \A k \in DOMAIN s : k \in DOMAIN (s \o x) /\ (TabIs(s \o x, k, name, i) <=> TabIs(s, k, name, i))
  BY TabConcatIs
<1>2. \A k \in DOMAIN x : /\ Len(s) + k \in DOMAIN (s \o x)
                          /\ TabIs(s \o x, Len(s) + k, name, i) <=> TabIs(x, k, name, i)
  BY TabConcatIs
<1>3. \A k \in DOMAIN (s \o x) : k \in DOMAIN s \/ \E l \in DOMAIN x : k = Len(s) + l BY TabConcatIs
<1> QED BY <1>1, <1>2, <1>3 DEF TabHas

LEMMA TabConcatFollowed ==
    ASSUME NEW S, NEW s \in Seq(S), NEW x \in Seq(S), NEW i, NEW name, NEW by
    PROVE  TabFollowed(s \o x, i, name, by) <=>
             /\ TabFollowed(x, i, name, by)
             /\ TabFollowed(s, i, name, by) \/ TabHas(x, by, i)
<1>1. \A k \in DOMAIN s : k \in DOMAIN (s \o x) /\ (TabIs(s \o x, k, name, i) <=> TabIs(s, k, name, i))
  BY TabConcatIs
<1>2. \A k \in DOMAIN x : /\ Len(s) + k \in DOMAIN (s \o x)
                          /\ TabIs(s \o x, Len(s) + k, name, i) <=> TabIs(x, k, name, i)
  BY TabConcatIs
<1>3. \A k \in DOMAIN (s \o x) : k \in DOMAIN s \/ \E l \in DOMAIN x : k = Len(s) + l BY TabConcatIs
<1>4. \A k \in DOMAIN s : TabIs(s \o x, k, by, i) <=> TabIs(s, k, by, i) BY TabConcatIs
<1>5. \A k \in DOMAIN x : TabIs(s \o x, Len(s) + k, by, i) <=> TabIs(x, k, by, i) BY TabConcatIs
<1>6. /\ \A k \in DOMAIN s, l \in DOMAIN x : Len(s) + l > k
      /\ \A k, l \in DOMAIN x : Len(s) + l > Len(s) + k <=> l > k BY TabConcat
<1>7. ASSUME TabFollowed(s \o x, i, name, by) PROVE TabFollowed(x, i, name, by)
  <2> SUFFICES ASSUME NEW k \in DOMAIN x, TabIs(x, k, name, i)
               PROVE  \E l \in DOMAIN x : l > k /\ TabIs(x, l, by, i) BY DEF TabFollowed
  <2>1. PICK l \in DOMAIN (s \o x) : l > Len(s) + k /\ TabIs(s \o x, l, by, i)
    BY <1>2, <1>7 DEF TabFollowed
  <2>2. l \notin DOMAIN s BY <2>1, TabConcat
  <2> QED BY <1>3, <1>5, <1>6, <2>1, <2>2
<1>8. ASSUME TabFollowed(s \o x, i, name, by), ~TabHas(x, by, i) PROVE TabFollowed(s, i, name, by)
  <2> SUFFICES ASSUME NEW k \in DOMAIN s, TabIs(s, k, name, i)
               PROVE  \E l \in DOMAIN s : l > k /\ TabIs(s, l, by, i) BY DEF TabFollowed
  <2>1. PICK l \in DOMAIN (s \o x) : l > k /\ TabIs(s \o x, l, by, i) BY <1>1, <1>8 DEF TabFollowed
  <2>2. l \in DOMAIN s BY <1>3, <1>5, <1>8, <2>1 DEF TabHas
  <2> QED BY <1>4, <2>1, <2>2
<1>9. ASSUME TabFollowed(x, i, name, by), TabFollowed(s, i, name, by) \/ TabHas(x, by, i)
      PROVE  TabFollowed(s \o x, i, name, by)
  <2> SUFFICES ASSUME NEW k \in DOMAIN (s \o x), TabIs(s \o x, k, name, i)
               PROVE  \E l \in DOMAIN (s \o x) : l > k /\ TabIs(s \o x, l, by, i) BY DEF TabFollowed
  <2>1. CASE k \in DOMAIN s
    <3>1. CASE TabFollowed(s, i, name, by)
      <4>1. PICK l \in DOMAIN s : l > k /\ TabIs(s, l, by, i) BY <1>1, <2>1, <3>1 DEF TabFollowed
      <4> QED BY <1>1, <1>4, <4>1
    <3>2. CASE TabHas(x, by, i)
      <4>1. PICK l \in DOMAIN x : TabIs(x, l, by, i) BY <3>2 DEF TabHas
      <4>2. Len(s) + l \in DOMAIN (s \o x) /\ Len(s) + l > k /\ TabIs(s \o x, Len(s) + l, by, i)
        BY <1>2, <1>5, <1>6, <2>1, <4>1
      <4> QED BY <4>2
    <3> QED BY <1>9, <3>1, <3>2
  <2>2. CASE k \notin DOMAIN s
    <3>1. PICK m \in DOMAIN x : k = Len(s) + m BY <1>3, <2>2
    <3>2. PICK l \in DOMAIN x : l > m /\ TabIs(x, l, by, i) BY <1>2, <1>9, <3>1 DEF TabFollowed
    <3>3. Len(s) + l \in DOMAIN (s \o x) /\ Len(s) + l > k /\ TabIs(s \o x, Len(s) + l, by, i)
      BY <1>2, <1>5, <1>6, <3>1, <3>2
    <3> QED BY <3>3
  <2> QED BY <2>1, <2>2
<1> QED BY <1>7, <1>8, <1>9

LEMMA TabConcatSpare ==
    ASSUME NEW S, NEW s \in Seq(S), NEW x \in Seq(S), NEW i, NEW pending
    PROVE  TabSpare(s \o x, i, pending) <=>
             \/ TabSpare(s, i, pending) \/ TabSpare(x, i, pending)
             \/ TabHas(s, "closed", i) /\ TabHas(x, "closed", i)
<1>1. \A k \in DOMAIN s : /\ k \in DOMAIN (s \o x)
                          /\ TabIs(s \o x, k, "closed", i) <=> TabIs(s, k, "closed", i)
  BY TabConcatIs
<1>2. \A k \in DOMAIN x : /\ Len(s) + k \in DOMAIN (s \o x)
                          /\ TabIs(s \o x, Len(s) + k, "closed", i) <=> TabIs(x, k, "closed", i)
  BY TabConcatIs
<1>3. \A k \in DOMAIN (s \o x) : k \in DOMAIN s \/ \E l \in DOMAIN x : k = Len(s) + l BY TabConcatIs
<1>4. /\ \A k \in DOMAIN s, l \in DOMAIN x : Len(s) + l # k
      /\ \A k, l \in DOMAIN x : Len(s) + l = Len(s) + k <=> l = k BY TabConcat
<1>5. CASE i \notin pending
  <2>1. \A t : TabSpare(t, i, pending) <=> TabHas(t, "closed", i) BY <1>5 DEF TabSpare, TabHas
  <2> QED BY <2>1, TabConcatHas
<1>6. CASE i \in pending
  <2>1. \A t : TabSpare(t, i, pending) <=>
          \E k, l \in DOMAIN t : k # l /\ TabIs(t, k, "closed", i) /\ TabIs(t, l, "closed", i)
    BY <1>6 DEF TabSpare
  <2>2. ASSUME TabSpare(s \o x, i, pending), ~TabSpare(s, i, pending), ~TabSpare(x, i, pending)
        PROVE  TabHas(s, "closed", i) /\ TabHas(x, "closed", i)
    <3>1. PICK k, l \in DOMAIN (s \o x) : /\ k # l /\ TabIs(s \o x, k, "closed", i)
                                          /\ TabIs(s \o x, l, "closed", i) BY <2>1, <2>2
    <3>2. ~(k \in DOMAIN s /\ l \in DOMAIN s) BY <1>1, <2>1, <2>2, <3>1
    <3>3. k \in DOMAIN s \/ l \in DOMAIN s
      <4> SUFFICES ASSUME k \notin DOMAIN s, l \notin DOMAIN s PROVE FALSE OBVIOUS
      <4>1. PICK a \in DOMAIN x : k = Len(s) + a BY <1>3
      <4>2. PICK b \in DOMAIN x : l = Len(s) + b BY <1>3
      <4>3. a # b /\ TabIs(x, a, "closed", i) /\ TabIs(x, b, "closed", i) BY <1>2, <3>1, <4>1, <4>2
      <4> QED BY <2>1, <2>2, <4>3
    <3>4. CASE k \in DOMAIN s
      <4>1. PICK b \in DOMAIN x : l = Len(s) + b BY <1>3, <3>2, <3>4
      <4> QED BY <1>1, <1>2, <3>1, <3>4, <4>1 DEF TabHas
    <3>5. CASE l \in DOMAIN s
      <4>1. PICK b \in DOMAIN x : k = Len(s) + b BY <1>3, <3>2, <3>5
      <4> QED BY <1>1, <1>2, <3>1, <3>5, <4>1 DEF TabHas
    <3> QED BY <3>3, <3>4, <3>5
  <2>3. ASSUME TabSpare(s, i, pending) PROVE TabSpare(s \o x, i, pending) BY <1>1, <2>1, <2>3
  <2>4. ASSUME TabSpare(x, i, pending) PROVE TabSpare(s \o x, i, pending)
    <3>1. PICK k, l \in DOMAIN x : k # l /\ TabIs(x, k, "closed", i) /\ TabIs(x, l, "closed", i)
      BY <2>1, <2>4
    <3>2. /\ Len(s) + k \in DOMAIN (s \o x) /\ TabIs(s \o x, Len(s) + k, "closed", i)
          /\ Len(s) + l \in DOMAIN (s \o x) /\ TabIs(s \o x, Len(s) + l, "closed", i)
          /\ Len(s) + k # Len(s) + l BY <1>2, <1>4, <3>1
    <3> QED BY <2>1, <3>2
  <2>5. ASSUME TabHas(s, "closed", i), TabHas(x, "closed", i) PROVE TabSpare(s \o x, i, pending)
    <3>1. PICK k \in DOMAIN s : TabIs(s, k, "closed", i) BY <2>5 DEF TabHas
    <3>2. PICK l \in DOMAIN x : TabIs(x, l, "closed", i) BY <2>5 DEF TabHas
    <3>3. /\ k \in DOMAIN (s \o x) /\ TabIs(s \o x, k, "closed", i)
          /\ Len(s) + l \in DOMAIN (s \o x) /\ TabIs(s \o x, Len(s) + l, "closed", i)
          /\ Len(s) + l # k BY <1>1, <1>2, <1>4, <3>1, <3>2
    <3> QED BY <2>1, <3>3
  <2> QED BY <2>2, <2>3, <2>4, <2>5
<1> QED BY <1>5, <1>6

LEMMA TabConcatComes ==
    ASSUME NEW S, NEW s \in Seq(S), NEW x \in Seq(S), NEW i
    PROVE  TabComes(s \o x, i) <=> TabComes(x, i) \/ (TabComes(s, i) /\ ~TabHas(x, "closed", i))
<1>1. \A k \in DOMAIN s : /\ k \in DOMAIN (s \o x)
                          /\ TabIs(s \o x, k, "closed", i) <=> TabIs(s, k, "closed", i)
                          /\ TabIs(s \o x, k, "opened", i) <=> TabIs(s, k, "opened", i)
  BY TabConcatIs
<1>2. \A k \in DOMAIN x : /\ Len(s) + k \in DOMAIN (s \o x)
                          /\ TabIs(s \o x, Len(s) + k, "closed", i) <=> TabIs(x, k, "closed", i)
                          /\ TabIs(s \o x, Len(s) + k, "opened", i) <=> TabIs(x, k, "opened", i)
  BY TabConcatIs
<1>3. \A k \in DOMAIN (s \o x) : k \in DOMAIN s \/ \E l \in DOMAIN x : k = Len(s) + l BY TabConcatIs
<1>4. /\ \A k \in DOMAIN s, l \in DOMAIN x : Len(s) + l > k /\ ~(k > Len(s) + l)
      /\ \A k, l \in DOMAIN x : Len(s) + l > Len(s) + k <=> l > k BY TabConcat
<1>5. ASSUME TabComes(s \o x, i), ~TabComes(x, i) PROVE TabComes(s, i) /\ ~TabHas(x, "closed", i)
  <2>1. PICK k \in DOMAIN (s \o x) :
          /\ TabIs(s \o x, k, "opened", i)
          /\ \A l \in DOMAIN (s \o x) : l > k => ~TabIs(s \o x, l, "closed", i) BY <1>5 DEF TabComes
  <2>2. k \in DOMAIN s
    <3> SUFFICES ASSUME k \notin DOMAIN s PROVE FALSE OBVIOUS
    <3>1. PICK m \in DOMAIN x : k = Len(s) + m BY <1>3
    <3>2. TabIs(x, m, "opened", i) BY <1>2, <2>1, <3>1
    <3>3. \A l \in DOMAIN x : l > m => ~TabIs(x, l, "closed", i) BY <1>2, <1>4, <2>1, <3>1
    <3> QED BY <1>5, <3>2, <3>3 DEF TabComes
  <2>3. \A l \in DOMAIN x : ~TabIs(x, l, "closed", i) BY <1>2, <1>4, <2>1, <2>2
  <2>4. \A l \in DOMAIN s : l > k => ~TabIs(s, l, "closed", i) BY <1>1, <2>1
  <2> QED BY <1>1, <2>1, <2>2, <2>3, <2>4 DEF TabComes, TabHas
<1>6. ASSUME TabComes(x, i) PROVE TabComes(s \o x, i)
  <2>1. PICK m \in DOMAIN x : /\ TabIs(x, m, "opened", i)
                              /\ \A l \in DOMAIN x : l > m => ~TabIs(x, l, "closed", i)
    BY <1>6 DEF TabComes
  <2>2. Len(s) + m \in DOMAIN (s \o x) /\ TabIs(s \o x, Len(s) + m, "opened", i) BY <1>2, <2>1
  <2>3. ASSUME NEW l \in DOMAIN (s \o x), l > Len(s) + m PROVE ~TabIs(s \o x, l, "closed", i)
    <3>1. l \notin DOMAIN s BY <1>4, <2>1, <2>3
    <3>2. PICK n \in DOMAIN x : l = Len(s) + n BY <1>3, <3>1
    <3> QED BY <1>2, <1>4, <2>1, <2>3, <3>2
  <2> QED BY <2>2, <2>3 DEF TabComes
<1>7. ASSUME TabComes(s, i), ~TabHas(x, "closed", i) PROVE TabComes(s \o x, i)
  <2>1. PICK k \in DOMAIN s : /\ TabIs(s, k, "opened", i)
                              /\ \A l \in DOMAIN s : l > k => ~TabIs(s, l, "closed", i)
    BY <1>7 DEF TabComes
  <2>2. ASSUME NEW l \in DOMAIN (s \o x), l > k PROVE ~TabIs(s \o x, l, "closed", i)
    BY <1>1, <1>2, <1>3, <1>7, <2>1, <2>2 DEF TabHas
  <2> QED BY <1>1, <2>1, <2>2 DEF TabComes
<1> QED BY <1>5, <1>6, <1>7

\* One event, and none.
LEMMA TabOne ==
    ASSUME NEW e, NEW i
    PROVE  /\ \A name : TabHas(<<e>>, name, i) <=> e.ev = name /\ e.id = i
           /\ \A name, by : TabFollowed(<<e>>, i, name, by) <=> ~(e.ev = name /\ e.id = i)
           /\ \A pending : TabSpare(<<e>>, i, pending) <=> e.ev = "closed" /\ e.id = i /\ i \notin pending
           /\ TabComes(<<e>>, i) <=> e.ev = "opened" /\ e.id = i
<1>1. DOMAIN <<e>> = {1} /\ <<e>>[1] = e OBVIOUS
<1>2. \A name : TabIs(<<e>>, 1, name, i) <=> e.ev = name /\ e.id = i BY <1>1 DEF TabIs
<1>3. ~(1 > 1) OBVIOUS
<1> QED BY <1>1, <1>2, <1>3 DEF TabHas, TabFollowed, TabSpare, TabComes

LEMMA TabNothing ==
    ASSUME NEW i
    PROVE  /\ \A name : ~TabHas(<<>>, name, i)
           /\ \A name, by : TabFollowed(<<>>, i, name, by)
           /\ \A pending : ~TabSpare(<<>>, i, pending)
           /\ ~TabComes(<<>>, i) BY DEF TabHas, TabFollowed, TabSpare, TabComes

\* The first event and the others.
LEMMA TabHeadTail ==
    ASSUME NEW S, NEW s \in Seq(S), s # <<>>
    PROVE  /\ s = <<Head(s)>> \o Tail(s) /\ Head(s) \in S /\ Tail(s) \in Seq(S) /\ <<Head(s)>> \in Seq(S)
<1>1. /\ Head(s) \in S /\ Tail(s) \in Seq(S) /\ Head(s) = s[1] /\ Len(s) \in Nat /\ Len(s) >= 1
      /\ Len(Tail(s)) = Len(s) - 1 /\ DOMAIN s = 1 .. Len(s)
      /\ DOMAIN Tail(s) = 1 .. Len(s) - 1 /\ \A k \in DOMAIN Tail(s) : Tail(s)[k] = s[k + 1]
  BY ArtHeadTail
<1> DEFINE t == <<Head(s)>> \o Tail(s)
<1>2. <<Head(s)>> \in Seq(S) /\ Len(<<Head(s)>>) = 1 /\ <<Head(s)>>[1] = Head(s) BY <1>1
<1>3. t \in Seq(S) /\ Len(t) = Len(s) /\ t[1] = Head(s) BY <1>1, <1>2
<1>4. \A k \in 2 .. Len(s) : t[k] = s[k]
  <2> SUFFICES ASSUME NEW k \in 2 .. Len(s) PROVE t[k] = s[k] OBVIOUS
  <2>1. k - 1 \in 1 .. Len(Tail(s)) /\ 1 + (k - 1) = k /\ k - 1 \in DOMAIN Tail(s) BY <1>1
  <2>2. t[1 + (k - 1)] = Tail(s)[k - 1] BY <1>1, <1>2, <2>1, TabConcat
  <2> QED BY <1>1, <2>1, <2>2
<1>5. \A k \in 1 .. Len(s) : t[k] = s[k]
  <2> HIDE DEF t
  <2> QED BY <1>1, <1>3, <1>4
<1> HIDE DEF t
<1>6. t = s BY <1>1, <1>3, <1>5
<1> QED BY <1>1, <1>2, <1>6 DEF t

\* The echo takes one news of a close: what is more than that is spare.
LEMMA TabSpareCount ==
    ASSUME tabEvents \in Seq(TabNews), NEW i
    PROVE  /\ Cardinality(TabQueued("closed", i)) \in Nat
           /\ Cardinality(TabQueued("closed", i)) > (IF i \in tabPending THEN 1 ELSE 0)
                <=> TabSpare(tabEvents, i, tabPending)
<1> DEFINE Q == TabQueued("closed", i)
<1>1. \A k : k \in Q <=> k \in DOMAIN tabEvents /\ TabIs(tabEvents, k, "closed", i)
  BY DEF TabQueued, TabIs
<1>2. IsFiniteSet(Q)
  <2>1. DOMAIN tabEvents = 1 .. Len(tabEvents) /\ Len(tabEvents) \in Nat OBVIOUS
  <2>2. IsFiniteSet(1 .. Len(tabEvents)) BY <2>1, FS_Interval
  <2>3. Q \in SUBSET (1 .. Len(tabEvents)) BY <1>1, <2>1
  <2> HIDE DEF Q
  <2> QED BY <2>2, <2>3, FS_Subset
<1> HIDE DEF Q
<1>3. Cardinality(Q) \in Nat BY <1>2, FS_CardinalityType
<1>4. Cardinality(Q) = 0 <=> Q = {} BY <1>2, FS_EmptySet
<1>5. Cardinality(Q) = 1 <=> \E x : Q = {x} BY <1>2, FS_Singleton
<1>6. CASE i \notin tabPending
  <2>1. TabSpare(tabEvents, i, tabPending) <=> Q # {} BY <1>1, <1>6 DEF TabSpare
  <2> QED BY <1>3, <1>4, <1>6, <2>1 DEF Q
<1>7. CASE i \in tabPending
  <2>1. TabSpare(tabEvents, i, tabPending) <=> \E k, l \in Q : l # k BY <1>1, <1>7 DEF TabSpare
  <2>2. (\E k, l \in Q : l # k) <=> Q # {} /\ ~\E x : Q = {x} OBVIOUS
  <2>3. Cardinality(Q) > 1 <=> Cardinality(Q) # 0 /\ Cardinality(Q) # 1 BY <1>3
  <2>4. Cardinality(Q) > 1 <=> TabSpare(tabEvents, i, tabPending) BY <1>4, <1>5, <2>1, <2>2, <2>3
  <2>5. (IF i \in tabPending THEN 1 ELSE 0) = 1 BY <1>7
  <2> QED BY <1>3, <2>4, <2>5 DEF Q
<1> QED BY <1>6, <1>7

\* A finite set is listed.
LEMMA TabListed ==
    ASSUME NEW S, IsFiniteSet(S)
    PROVE  /\ Cardinality(S) \in Nat /\ SetToSeq(S) \in [1 .. Cardinality(S) -> S]
           /\ \A x \in S : \E k \in 1 .. Cardinality(S) : SetToSeq(S)[k] = x
<1> DEFINE n == Cardinality(S)
<1>1. n \in Nat /\ ExistsBijection(1 .. n, S) BY FS_CardinalityType
<1>2. PICK g \in Bijection(1 .. n, S) : TRUE BY <1>1 DEF ExistsBijection
<1>3. g \in [1 .. n -> S] /\ IsInjective(g) BY <1>2 DEF Bijection, Injection, IsInjective
<1> DEFINE f == SetToSeq(S)
<1>4. f \in [1 .. n -> S] /\ IsInjective(f) BY <1>3 DEF SetToSeq
<1> HIDE DEF f
<1>5. f \in Injection(1 .. n, S) BY <1>4 DEF Injection, IsInjective
<1>6. IsFiniteSet(1 .. n) /\ Cardinality(1 .. n) = n BY <1>1, FS_Interval
<1>7. Cardinality(1 .. n) = Cardinality(S) BY <1>6
<1> HIDE DEF n
<1>8. f \in Surjection(1 .. n, S) BY <1>5, <1>7, FS_Injection
<1>9. \A x \in S : \E k \in 1 .. n : f[k] = x BY <1>8 DEF Surjection
<1> QED BY <1>1, <1>4, <1>9 DEF f, n

\* The news of the closes of the sessions of S.
TabCloses(S) == [k \in 1 .. Cardinality(S) |-> TabEvent("closed", SetToSeq(S)[k], 0)]
LEMMA TabClosesAre ==
    ASSUME NEW S \in SUBSET TabIds, IsFiniteSet(S)
    PROVE  /\ TabCloses(S) \in Seq(TabNews)
           /\ \A k \in DOMAIN TabCloses(S) : TabCloses(S)[k].ev = "closed" /\ TabCloses(S)[k].id \in S
           /\ \A i : TabHas(TabCloses(S), "closed", i) <=> i \in S
           /\ \A i, name : name # "closed" => ~TabHas(TabCloses(S), name, i)
           /\ \A i, name, by : name # "closed" => TabFollowed(TabCloses(S), i, name, by)
           /\ \A i, pending : TabSpare(TabCloses(S), i, pending) => i \in S
           /\ \A i : ~TabComes(TabCloses(S), i)
<1> DEFINE x == TabCloses(S)
<1>1. Cardinality(S) \in Nat /\ DOMAIN x = 1 .. Cardinality(S) BY TabListed DEF TabCloses
<1>2. \A k \in DOMAIN x : x[k] = TabEvent("closed", SetToSeq(S)[k], 0) /\ SetToSeq(S)[k] \in S
  BY TabListed DEF TabCloses
<1>3. \A k \in DOMAIN x : x[k] \in TabNews /\ x[k].ev = "closed" /\ x[k].id = SetToSeq(S)[k]
  <2>1. ASSUME NEW j \in TabIds
        PROVE  /\ TabEvent("closed", j, 0) \in TabNews /\ TabEvent("closed", j, 0).ev = "closed"
               /\ TabEvent("closed", j, 0).id = j BY DEF TabEvent, TabNews, TabMessages, TabNewsOk
  <2> QED BY <1>2, <2>1
<1>4. x \in [1 .. Cardinality(S) -> TabNews] BY <1>1, <1>3 DEF TabCloses
<1>5. x \in Seq(TabNews) BY <1>1, <1>4
<1>6. \A i : (\E k \in DOMAIN x : x[k].id = i) <=> i \in S BY <1>1, <1>2, <1>3, TabListed
<1> HIDE DEF x
<1>7. \A i, name, k : k \in DOMAIN x => (TabIs(x, k, name, i) <=> name = "closed" /\ x[k].id = i)
  BY <1>3 DEF TabIs
<1>8. \A k \in DOMAIN x : x[k].ev = "closed" /\ x[k].id \in S BY <1>2, <1>3
<1>9. \A i : TabHas(x, "closed", i) <=> i \in S BY <1>6, <1>7 DEF TabHas
<1>10. /\ \A i, name : name # "closed" => ~TabHas(x, name, i)
       /\ \A i, name, by : name # "closed" => TabFollowed(x, i, name, by)
       /\ \A i, pending : TabSpare(x, i, pending) => i \in S
       /\ \A i : ~TabComes(x, i) BY <1>7, <1>8 DEF TabHas, TabFollowed, TabSpare, TabComes
<1> QED BY <1>5, <1>8, <1>9, <1>10 DEF x

\* A tab is removed from the order.
TabPlaceOf(order, i) == CHOOSE n \in DOMAIN order : order[n] = i
LEMMA TabRemoved ==
    ASSUME NEW order \in Seq(TabIds), IsInjective(order), NEW i \in ToSet(order)
    PROVE  /\ TabPlaceOf(order, i) \in 1 .. Len(order)
           /\ RemoveAt(order, TabPlaceOf(order, i)) \in Seq(TabIds)
           /\ IsInjective(RemoveAt(order, TabPlaceOf(order, i)))
           /\ ToSet(RemoveAt(order, TabPlaceOf(order, i))) = ToSet(order) \ {i}
<1> DEFINE k == TabPlaceOf(order, i)
           rest == RemoveAt(order, k)
           n == Len(order)
<1>1. n \in Nat /\ DOMAIN order = 1 .. n OBVIOUS
<1>2. \E m \in DOMAIN order : order[m] = i BY DEF ToSet
<1>3. k \in DOMAIN order /\ order[k] = i BY <1>2 DEF TabPlaceOf
<1> HIDE DEF k
<1>4. k \in 1 .. n BY <1>1, <1>3
<1>5. /\ SubSeq(order, 1, k - 1) \in Seq(TabIds) /\ Len(SubSeq(order, 1, k - 1)) = k - 1
      /\ \A m \in 1 .. k - 1 : SubSeq(order, 1, k - 1)[m] = order[m] BY <1>1, <1>4
<1>6. /\ SubSeq(order, k + 1, n) \in Seq(TabIds) /\ Len(SubSeq(order, k + 1, n)) = n - k
      /\ \A m \in 1 .. n - k : SubSeq(order, k + 1, n)[m] = order[k + m]
  <2>1. k + 1 \in 1 .. n + 1 BY <1>1, <1>4
  <2>2. SubSeq(order, k + 1, n) \in Seq(TabIds) BY <1>1, <2>1
  <2>3. Len(SubSeq(order, k + 1, n)) = n - k
    <3>1. CASE k + 1 <= n BY <1>1, <1>4, <3>1
    <3>2. CASE k = n
      <4>1. SubSeq(order, k + 1, n) = << >> BY <1>1, <1>4, <3>2
      <4> QED BY <1>1, <3>2, <4>1
    <3>3. k + 1 <= n \/ k = n
      <4> HIDE DEF n
      <4> QED BY <1>1, <1>4
    <3> QED BY <3>1, <3>2, <3>3
  <2>4. ASSUME NEW m \in 1 .. n - k PROVE SubSeq(order, k + 1, n)[m] = order[k + m] BY <1>1, <1>4
  <2> QED BY <2>2, <2>3, <2>4
<1>7. /\ rest \in Seq(TabIds) /\ Len(rest) = n - 1 /\ DOMAIN rest = 1 .. n - 1
      /\ \A m \in 1 .. k - 1 : rest[m] = order[m]
  <2> DEFINE a == SubSeq(order, 1, k - 1)
             b == SubSeq(order, k + 1, n)
  <2>1. rest = a \o b BY DEF RemoveAt
  <2>2. a \in Seq(TabIds) /\ b \in Seq(TabIds) /\ Len(a) = k - 1 /\ Len(b) = n - k BY <1>5, <1>6
  <2>3. (k - 1) + (n - k) = n - 1 BY <1>1, <1>4
  <2> HIDE DEF a, b, rest
  <2>4. /\ a \o b \in Seq(TabIds) /\ DOMAIN (a \o b) = 1 .. Len(a) + Len(b)
        /\ \A m \in 1 .. Len(a) : (a \o b)[m] = a[m] BY <2>2
  <2>5. Len(a \o b) = Len(a) + Len(b) BY <2>2
  <2>6. \A m \in 1 .. k - 1 : a[m] = order[m] BY <1>5 DEF a
  <2> QED BY <2>1, <2>2, <2>3, <2>4, <2>5, <2>6
<1>8. \A m \in k .. n - 1 : rest[m] = order[m + 1]
  <2> SUFFICES ASSUME NEW m \in k .. n - 1 PROVE rest[m] = order[m + 1] OBVIOUS
  <2> DEFINE a == SubSeq(order, 1, k - 1)
             b == SubSeq(order, k + 1, n)
  <2>1. rest = a \o b BY DEF RemoveAt
  <2> HIDE DEF a, b
  <2>2. m - (k - 1) \in 1 .. n - k BY <1>1, <1>4
  <2>3. (a \o b)[Len(a) + (m - (k - 1))] = b[m - (k - 1)]
    <3>1. a \in Seq(TabIds) /\ b \in Seq(TabIds) /\ Len(b) = n - k BY <1>5, <1>6 DEF a, b
    <3> QED BY <2>2, <3>1, TabConcat
  <2>4. Len(a) + (m - (k - 1)) = m BY <1>1, <1>4, <1>5 DEF a
  <2>5. b[m - (k - 1)] = order[k + (m - (k - 1))] BY <1>6, <2>2 DEF b
  <2>6. k + (m - (k - 1)) = m + 1 BY <1>1, <1>4
  <2> QED BY <2>1, <2>3, <2>4, <2>5, <2>6
<1> HIDE DEF rest, n
<1> DEFINE Was(m) == IF m < k THEN m ELSE m + 1
<1>9. \A m \in 1 .. n - 1 : Was(m) \in 1 .. n /\ Was(m) # k /\ rest[m] = order[Was(m)]
  BY <1>1, <1>4, <1>7, <1>8
<1>10. \A m \in 1 .. n : m # k => \E l \in 1 .. n - 1 : Was(l) = m
  <2> SUFFICES ASSUME NEW m \in 1 .. n, m # k PROVE \E l \in 1 .. n - 1 : Was(l) = m OBVIOUS
  <2>1. CASE m < k
    <3>1. m \in 1 .. n - 1 /\ Was(m) = m BY <1>1, <1>4, <2>1
    <3> QED BY <3>1
  <2>2. CASE ~(m < k)
    <3>1. m - 1 \in 1 .. n - 1 /\ Was(m - 1) = m BY <1>1, <1>4, <2>2
    <3> QED BY <3>1
  <2> QED BY <2>1, <2>2
<1>11. \A l, m \in 1 .. n - 1 : Was(l) = Was(m) => l = m BY <1>1, <1>4
<1> HIDE DEF Was
<1>12. IsInjective(rest) BY <1>1, <1>7, <1>9, <1>11 DEF IsInjective
<1>13. \A m \in 1 .. n : order[m] = i <=> m = k BY <1>1, <1>3 DEF IsInjective
<1>14. ToSet(rest) = ToSet(order) \ {i} BY <1>1, <1>7, <1>9, <1>10, <1>13 DEF ToSet
<1> QED BY <1>4, <1>7, <1>12, <1>14 DEF rest, k, n

----------------------------------------
\* The window's part of the store: an entry per tab, one of them focused,
\* and a file of one chunk is never shown as half indexed.
TabLines == [total : Nat, indexing : BOOLEAN]
TabWindowOk(entry, order, focus) ==
    /\ entry \in [TabIds -> TabLines] /\ order \in Seq(TabIds) /\ IsInjective(order)
    /\ \A i \in TabIds : (entry[i].total # 0) <=> (i \in ToSet(order))
    /\ \A i \in TabIds : entry[i].total = 0 => ~entry[i].indexing
    /\ focus \in IF order = <<>> THEN {TabNone} ELSE ToSet(order)
    /\ \A i \in TabIds : TabChunks[i] = 1 /\ i \in ToSet(order) => entry[i].total = 1 /\ ~entry[i].indexing
TabFits(i, total, indexing) == total \in 1 .. TabChunks[i] /\ indexing \in BOOLEAN /\ (TabChunks[i] = 1 => ~indexing)

LEMMA TabToSetEmpty ==
    ASSUME NEW order \in Seq(TabIds) PROVE order = <<>> <=> ToSet(order) = {} BY DEF ToSet

LEMMA TabAddIs ==
    ASSUME TabWindowOk(tabEntry, tabOrder, tabFocus), NEW i \in TabIds, NEW total, NEW indexing,
           TabFits(i, total, indexing), NEW focus \in BOOLEAN, TabAdd(i, total, indexing, focus)
    PROVE  /\ TabWindowOk(tabEntry', tabOrder', tabFocus')
           /\ ToSet(tabOrder') = ToSet(tabOrder) \cup {i}
           /\ \A j \in TabIds : j \in ToSet(tabOrder) => tabEntry'[j] = tabEntry[j]
<1> USE TabAssumption
<1>1. total \in Nat /\ total # 0 /\ indexing \in BOOLEAN /\ (TabChunks[i] = 1 => total = 1 /\ ~indexing)
  BY DEF TabFits
<1>2. tabFocus' = IF focus \/ tabFocus = TabNone THEN i ELSE tabFocus BY DEF TabAdd
<1>3. CASE i \in ToSet(tabOrder)
  <2>1. tabEntry' = tabEntry /\ tabOrder' = tabOrder BY <1>3 DEF TabAdd, TabShown
  <2>2. tabOrder # <<>> /\ ToSet(tabOrder) = ToSet(tabOrder) \cup {i} BY <1>3 DEF ToSet
  <2>3. tabFocus' \in ToSet(tabOrder) BY <1>2, <1>3, <2>2 DEF TabWindowOk
  <2> QED BY <2>1, <2>2, <2>3 DEF TabWindowOk
<1>4. CASE i \notin ToSet(tabOrder)
  <2>1. /\ tabEntry' = [tabEntry EXCEPT ![i] = [total |-> total, indexing |-> indexing]]
        /\ tabOrder' = Append(tabOrder, i) BY <1>4 DEF TabAdd, TabShown, TabFirst
  <2>2. tabEntry \in [TabIds -> TabLines] /\ tabOrder \in Seq(TabIds) /\ IsInjective(tabOrder)
    BY DEF TabWindowOk
  <2>3. tabOrder' \in Seq(TabIds) /\ \A x : x \in ToSet(tabOrder') <=> x \in ToSet(tabOrder) \/ x = i
    BY <2>1, <2>2, ArtAppendSet
  <2>4. ToSet(tabOrder') = ToSet(tabOrder) \cup {i} BY <2>3
  <2>5. IsInjective(tabOrder')
    <3>1. /\ Len(tabOrder) \in Nat /\ DOMAIN tabOrder = 1 .. Len(tabOrder)
          /\ DOMAIN tabOrder' = 1 .. Len(tabOrder) + 1 /\ tabOrder'[Len(tabOrder) + 1] = i
          /\ \A k \in 1 .. Len(tabOrder) : tabOrder'[k] = tabOrder[k] BY <2>1, <2>2
    <3>2. \A k \in 1 .. Len(tabOrder) : tabOrder[k] # i BY <1>4, <3>1 DEF ToSet
    <3>3. \A k \in 1 .. Len(tabOrder) + 1 : k \in 1 .. Len(tabOrder) \/ k = Len(tabOrder) + 1
      BY <3>1
    <3> QED BY <2>2, <3>1, <3>2, <3>3 DEF IsInjective
  <2>6. /\ tabEntry' \in [TabIds -> TabLines]
        /\ tabEntry'[i].total = total /\ tabEntry'[i].indexing = indexing
        /\ \A j \in TabIds : j # i => tabEntry'[j] = tabEntry[j]
    <3>1. [total |-> total, indexing |-> indexing] \in TabLines BY <1>1 DEF TabLines
    <3> QED BY <2>1, <2>2, <3>1
  <2>7. tabOrder' # <<>> BY <2>3, TabToSetEmpty
  <2>8. tabFocus' \in ToSet(tabOrder') BY <1>2, <2>4 DEF TabWindowOk
  <2>9. \A j \in TabIds : /\ (tabEntry'[j].total # 0) <=> (j \in ToSet(tabOrder'))
                          /\ tabEntry'[j].total = 0 => ~tabEntry'[j].indexing
                          /\ TabChunks[j] = 1 /\ j \in ToSet(tabOrder') =>
                               tabEntry'[j].total = 1 /\ ~tabEntry'[j].indexing
    <3> SUFFICES ASSUME NEW j \in TabIds
                 PROVE  /\ (tabEntry'[j].total # 0) <=> (j \in ToSet(tabOrder'))
                        /\ tabEntry'[j].total = 0 => ~tabEntry'[j].indexing
                        /\ TabChunks[j] = 1 /\ j \in ToSet(tabOrder') =>
                             tabEntry'[j].total = 1 /\ ~tabEntry'[j].indexing
      OBVIOUS
    <3>1. CASE j = i BY <1>1, <2>3, <2>6, <3>1
    <3>2. CASE j # i BY <2>3, <2>6, <3>2 DEF TabWindowOk
    <3> QED BY <3>1, <3>2
  <2>10. TabWindowOk(tabEntry', tabOrder', tabFocus')
    BY <2>3, <2>5, <2>6, <2>7, <2>8, <2>9 DEF TabWindowOk
  <2>11. \A j \in TabIds : j \in ToSet(tabOrder) => tabEntry'[j] = tabEntry[j] BY <1>4, <2>6
  <2> QED BY <2>4, <2>10, <2>11
<1> QED BY <1>3, <1>4

\* A tab whose lines are set, all others as they were.
LEMMA TabSetIs ==
    ASSUME TabWindowOk(tabEntry, tabOrder, tabFocus), NEW i \in ToSet(tabOrder), NEW total, NEW indexing,
           TabFits(i, total, indexing), NEW focus \in ToSet(tabOrder),
           NEW entry \in [TabIds -> TabLines], entry[i].total = total, entry[i].indexing = indexing,
           \A j \in TabIds : j # i => entry[j] = tabEntry[j]
    PROVE  TabWindowOk(entry, tabOrder, focus)
<1> USE TabAssumption
<1>1. i \in TabIds BY DEF TabWindowOk, ToSet
<1>2. total \in Nat /\ total # 0 /\ indexing \in BOOLEAN /\ (TabChunks[i] = 1 => total = 1 /\ ~indexing)
  BY <1>1 DEF TabFits
<1>3. \A j \in TabIds : /\ (entry[j].total # 0) <=> (j \in ToSet(tabOrder))
                        /\ entry[j].total = 0 => ~entry[j].indexing
                        /\ TabChunks[j] = 1 /\ j \in ToSet(tabOrder) =>
                             entry[j].total = 1 /\ ~entry[j].indexing
  <2> SUFFICES ASSUME NEW j \in TabIds
               PROVE  /\ (entry[j].total # 0) <=> (j \in ToSet(tabOrder))
                      /\ entry[j].total = 0 => ~entry[j].indexing
                      /\ TabChunks[j] = 1 /\ j \in ToSet(tabOrder) =>
                           entry[j].total = 1 /\ ~entry[j].indexing
    OBVIOUS
  <2>1. CASE j = i BY <1>2, <2>1
  <2>2. CASE j # i BY <2>2 DEF TabWindowOk
  <2> QED BY <2>1, <2>2
<1>4. tabOrder # <<>> BY DEF ToSet
<1> QED BY <1>3, <1>4 DEF TabWindowOk

LEMMA TabReplaceIs ==
    ASSUME TabWindowOk(tabEntry, tabOrder, tabFocus), NEW i \in TabIds, NEW total, NEW indexing,
           TabFits(i, total, indexing), TabReplace(i, total, indexing)
    PROVE  /\ TabWindowOk(tabEntry', tabOrder', tabFocus')
           /\ ToSet(tabOrder') = ToSet(tabOrder) \cup {i}
           /\ \A j \in TabIds : j # i => (j \in ToSet(tabOrder) => tabEntry'[j] = tabEntry[j])
<1>1. CASE i \notin ToSet(tabOrder) BY <1>1, TabAddIs DEF TabReplace, TabShown
<1>2. CASE i \in ToSet(tabOrder)
  <2>1. /\ tabEntry' = [tabEntry EXCEPT ![i] = [total |-> total, indexing |-> indexing]]
        /\ tabFocus' = i /\ tabOrder' = tabOrder BY <1>2 DEF TabReplace, TabShown, TabFirst
  <2>2. total \in Nat /\ indexing \in BOOLEAN /\ tabEntry \in [TabIds -> TabLines]
    BY TabAssumption DEF TabFits, TabWindowOk
  <2>3. [total |-> total, indexing |-> indexing] \in TabLines BY <2>2 DEF TabLines
  <2>4. /\ tabEntry' \in [TabIds -> TabLines] /\ tabEntry'[i].total = total /\ tabEntry'[i].indexing = indexing
        /\ \A j \in TabIds : j # i => tabEntry'[j] = tabEntry[j] BY <2>1, <2>2, <2>3
  <2>5. TabWindowOk(tabEntry', tabOrder, i) BY <1>2, <2>4, TabSetIs
  <2>6. ToSet(tabOrder) = ToSet(tabOrder) \cup {i} BY <1>2
  <2> QED BY <2>1, <2>4, <2>5, <2>6
<1> QED BY <1>1, <1>2

LEMMA TabUpdateIs ==
    ASSUME TabWindowOk(tabEntry, tabOrder, tabFocus), NEW i \in TabIds, NEW total, NEW indexing,
           TabFits(i, total, indexing), TabUpdateTotal(i, total, indexing)
    PROVE  /\ TabWindowOk(tabEntry', tabOrder', tabFocus') /\ ToSet(tabOrder') = ToSet(tabOrder)
           /\ \A j \in TabIds : j # i => tabEntry'[j] = tabEntry[j]
           /\ i \in ToSet(tabOrder) => tabEntry'[i].total = total /\ tabEntry'[i].indexing = indexing
<1>1. tabOrder' = tabOrder /\ tabFocus' = tabFocus BY DEF TabUpdateTotal
<1>2. CASE i \notin ToSet(tabOrder)
  <2>1. tabEntry' = tabEntry BY <1>2 DEF TabUpdateTotal, TabShown
  <2> QED BY <1>1, <1>2, <2>1
<1>3. CASE i \in ToSet(tabOrder)
  <2>1. tabEntry' = [tabEntry EXCEPT ![i].total = total, ![i].indexing = indexing]
    BY <1>3 DEF TabUpdateTotal, TabShown
  <2>2. total \in Nat /\ indexing \in BOOLEAN /\ tabEntry \in [TabIds -> TabLines] /\ tabEntry[i] \in TabLines
    BY TabAssumption DEF TabFits, TabWindowOk
  <2>3. /\ tabEntry' \in [TabIds -> TabLines] /\ tabEntry'[i].total = total /\ tabEntry'[i].indexing = indexing
        /\ \A j \in TabIds : j # i => tabEntry'[j] = tabEntry[j] BY <2>1, <2>2 DEF TabLines
  <2>4. tabFocus \in ToSet(tabOrder) BY <1>3 DEF TabWindowOk, ToSet
  <2>5. TabWindowOk(tabEntry', tabOrder, tabFocus) BY <1>3, <2>3, <2>4, TabSetIs
  <2> QED BY <1>1, <2>3, <2>5
<1> QED BY <1>2, <1>3

LEMMA TabRemoveIs ==
    ASSUME TabWindowOk(tabEntry, tabOrder, tabFocus), NEW i \in TabIds, TabRemove(i)
    PROVE  /\ TabWindowOk(tabEntry', tabOrder', tabFocus')
           /\ ToSet(tabOrder') = ToSet(tabOrder) \ {i}
           /\ \A j \in TabIds : j # i => tabEntry'[j] = tabEntry[j]
<1>1. CASE i \notin ToSet(tabOrder)
  <2>1. tabEntry' = tabEntry /\ tabOrder' = tabOrder /\ tabFocus' = tabFocus
    BY <1>1 DEF TabRemove, TabShown, tabWindow
  <2> QED BY <1>1, <2>1
<1>2. CASE i \in ToSet(tabOrder)
  <2> DEFINE k == TabPlaceOf(tabOrder, i)
             rest == RemoveAt(tabOrder, k)
  <2>1. /\ tabEntry' = [tabEntry EXCEPT ![i] = TabNoEntry] /\ tabOrder' = rest
        /\ tabFocus' = IF tabFocus = i THEN TabNeighbour(k, rest) ELSE tabFocus
    BY <1>2 DEF TabRemove, TabShown, TabPlaceOf
  <2>2. tabEntry \in [TabIds -> TabLines] /\ tabOrder \in Seq(TabIds) /\ IsInjective(tabOrder)
    BY DEF TabWindowOk
  <2>3. /\ k \in 1 .. Len(tabOrder) /\ rest \in Seq(TabIds) /\ IsInjective(rest)
        /\ ToSet(rest) = ToSet(tabOrder) \ {i} BY <1>2, <2>2, TabRemoved
  <2> HIDE DEF k, rest
  <2>4. TabNoEntry \in TabLines /\ TabNoEntry.total = 0 /\ TabNoEntry.indexing = FALSE
    BY DEF TabNoEntry, TabLines
  <2>5. /\ tabEntry' \in [TabIds -> TabLines] /\ tabEntry'[i] = TabNoEntry
        /\ \A j \in TabIds : j # i => tabEntry'[j] = tabEntry[j] BY <2>1, <2>2, <2>4
  <2>6. rest # <<>> => TabNeighbour(k, rest) \in ToSet(rest)
    <3> SUFFICES ASSUME rest # <<>> PROVE TabNeighbour(k, rest) \in ToSet(rest) OBVIOUS
    <3>1. Len(rest) \in Nat /\ Len(rest) # 0 /\ DOMAIN rest = 1 .. Len(rest) /\ Len(tabOrder) \in Nat
      BY <2>2, <2>3
    <3>2. \A n \in 1 .. Len(rest) : rest[n] \in ToSet(rest) BY <3>1 DEF ToSet
    <3>3. CASE k <= Len(rest)
      <4>1. k \in 1 .. Len(rest) /\ ~(k > Len(rest)) BY <2>3, <3>1, <3>3
      <4> QED BY <3>2, <3>3, <4>1 DEF TabNeighbour
    <3>4. CASE k > Len(rest)
      <4>1. Len(rest) \in 1 .. Len(rest) /\ ~(k <= Len(rest)) BY <2>3, <3>1, <3>4
      <4> QED BY <3>2, <3>4, <4>1 DEF TabNeighbour, Last
    <3> QED BY <2>3, <3>1, <3>3, <3>4
  <2>7. rest = <<>> => TabNeighbour(k, rest) = TabNone
    <3> SUFFICES ASSUME rest = <<>> PROVE TabNeighbour(k, rest) = TabNone OBVIOUS
    <3>1. Len(rest) = 0 OBVIOUS
    <3>2. ~(k <= Len(rest)) BY <2>3, <3>1
    <3> QED BY <3>2 DEF TabNeighbour
  <2>8. tabFocus \in ToSet(tabOrder) BY <1>2 DEF TabWindowOk, ToSet
  <2>9. tabFocus' \in IF rest = <<>> THEN {TabNone} ELSE ToSet(rest)
    <3>1. rest = <<>> <=> ToSet(rest) = {} BY <2>3, TabToSetEmpty
    <3> QED BY <2>1, <2>3, <2>6, <2>7, <2>8, <3>1
  <2>10. \A j \in TabIds : /\ (tabEntry'[j].total # 0) <=> (j \in ToSet(rest))
                           /\ tabEntry'[j].total = 0 => ~tabEntry'[j].indexing
                           /\ TabChunks[j] = 1 /\ j \in ToSet(rest) =>
                                tabEntry'[j].total = 1 /\ ~tabEntry'[j].indexing
    <3> SUFFICES ASSUME NEW j \in TabIds
                 PROVE  /\ (tabEntry'[j].total # 0) <=> (j \in ToSet(rest))
                        /\ tabEntry'[j].total = 0 => ~tabEntry'[j].indexing
                        /\ TabChunks[j] = 1 /\ j \in ToSet(rest) =>
                             tabEntry'[j].total = 1 /\ ~tabEntry'[j].indexing
      OBVIOUS
    <3>1. CASE j = i BY <2>3, <2>4, <2>5, <3>1
    <3>2. CASE j # i BY <2>3, <2>5, <3>2 DEF TabWindowOk
    <3> QED BY <3>1, <3>2
  <2>11. TabWindowOk(tabEntry', rest, tabFocus') BY <2>3, <2>5, <2>9, <2>10 DEF TabWindowOk
  <2> QED BY <2>1, <2>3, <2>5, <2>11
<1> QED BY <1>1, <1>2

----------------------------------------
\* Types.
TabSession == [open : BOOLEAN, total : Nat, indexing : BOOLEAN]
TabSessionOk(i, s) ==
    /\ s.open => s.total \in 1 .. TabChunks[i] /\ (s.indexing <=> s.total < TabChunks[i])
    /\ ~s.open => s.total = 0 /\ ~s.indexing
TabCalling ==
    [pc : {"none", "load", "loaded", "probe", "probed", "over"}, id : TabIds \cup {TabNone},
     replace : BOOLEAN, token : Nat, total : Nat, indexing : BOOLEAN]
TabCallOk(o) ==
    /\ o.pc # "none" => o.id \in TabIds
    /\ o.pc = "loaded" => o.total = 1 /\ o.indexing = (TabChunks[o.id] > 1)
    /\ o.pc = "probed" => o.total \in 1 .. TabChunks[o.id]
TabOpenIds(back) == {i \in TabIds : back[i].open}
TabBackOk(back) ==
    /\ back \in [TabIds -> TabSession] /\ \A i \in TabIds : TabSessionOk(i, back[i])
    /\ IsFiniteSet(TabOpenIds(back))
TabCallsOk(open) ==
    open \in [1 .. TabCalls -> TabCalling] /\ \A c \in 1 .. TabCalls : TabCallOk(open[c])
TabTypes ==
    /\ TabBackOk(tabBack) /\ tabAnnounce \in SUBSET TabIds /\ tabEvents \in Seq(TabNews)
    /\ TabCallsOk(tabOpen) /\ tabClose \in [TabIds -> {"no", "sent", "answered"}]
    /\ TabWindowOk(tabEntry, tabOrder, tabFocus)
    /\ tabPending \in SUBSET TabIds /\ tabGuard \in [TabIds -> Nat]

LEMMA TabTypesInit == TabInit => TabTypes
<1> SUFFICES ASSUME TabInit PROVE TabTypes OBVIOUS
<1> USE TabAssumption
<1>1. TabBackOk(tabBack)
  <2>1. \A i \in TabIds : tabBack[i].open = FALSE /\ tabBack[i].total = 0 /\ tabBack[i].indexing = FALSE
    BY DEF TabInit, TabShut
  <2>2. tabBack \in [TabIds -> TabSession] BY DEF TabInit, TabShut, TabSession
  <2>3. TabOpenIds(tabBack) = {} BY <2>1 DEF TabOpenIds
  <2> QED BY <2>1, <2>2, <2>3, FS_EmptySet DEF TabBackOk, TabSessionOk
<1>2. TabCallsOk(tabOpen)
  <2>1. TabNoOpen \in TabCalling /\ TabCallOk(TabNoOpen) BY DEF TabNoOpen, TabCalling, TabCallOk
  <2> QED BY <2>1 DEF TabInit, TabCallsOk
<1>3. TabWindowOk(tabEntry, tabOrder, tabFocus)
  <2>1. TabNoEntry \in TabLines /\ TabNoEntry.total = 0 /\ TabNoEntry.indexing = FALSE
    BY DEF TabNoEntry, TabLines
  <2>2. tabOrder = <<>> /\ ToSet(tabOrder) = {} /\ IsInjective(tabOrder)
    BY DEF TabInit, ToSet, IsInjective
  <2> QED BY <2>1, <2>2 DEF TabInit, TabWindowOk
<1>4. tabEvents \in Seq(TabNews) BY DEF TabInit
<1> QED BY <1>1, <1>2, <1>3, <1>4 DEF TabInit, TabTypes

\* A session is created, those of its file are closed.
LEMMA TabCreatedIs ==
    ASSUME TabTypes, NEW i \in TabIds
    PROVE  /\ TabBackOk(TabCreated(i))
           /\ TabStale(i) \in SUBSET TabIds /\ IsFiniteSet(TabStale(i)) /\ i \notin TabStale(i)
           /\ TabCreated(i)[i].open /\ TabCreated(i)[i].total = 1
           /\ TabCreated(i)[i].indexing = (TabChunks[i] > 1)
           /\ \A j \in TabStale(i) : ~TabCreated(i)[j].open /\ tabBack[j].open
           /\ \A j \in TabIds \ {i} : j \notin TabStale(i) => TabCreated(i)[j] = tabBack[j]
<1> USE TabAssumption
<1> DEFINE new == [open |-> TRUE, total |-> 1, indexing |-> TabChunks[i] > 1]
           back == TabCreated(i)
<1>1. TabBackOk(tabBack) /\ IsFiniteSet(TabOpenIds(tabBack)) BY DEF TabTypes, TabBackOk
<1>2. TabStale(i) \in SUBSET TabIds /\ i \notin TabStale(i) BY DEF TabStale
<1>3. TabStale(i) \in SUBSET TabOpenIds(tabBack) BY DEF TabStale, TabOpenIds
<1>4. IsFiniteSet(TabStale(i)) BY <1>1, <1>3, FS_Subset
<1>5. /\ new \in TabSession /\ TabSessionOk(i, new) /\ new.open = TRUE /\ new.total = 1
      /\ new.indexing = (TabChunks[i] > 1)
  <2>1. /\ new \in TabSession /\ new.open = TRUE /\ new.total = 1 /\ new.indexing = (TabChunks[i] > 1)
    BY DEF TabSession
  <2>2. TabChunks[i] \in Nat \ {0} /\ 1 \in 1 .. TabChunks[i] /\ (TabChunks[i] > 1 <=> 1 < TabChunks[i])
    OBVIOUS
  <2> HIDE DEF new
  <2>3. TabSessionOk(i, new) BY <2>1, <2>2 DEF TabSessionOk
  <2> QED BY <2>1, <2>3
<1>6. TabShut \in TabSession /\ TabShut.open = FALSE /\ \A j \in TabIds : TabSessionOk(j, TabShut)
  BY DEF TabShut, TabSession, TabSessionOk
<1>7. back = [j \in TabIds |-> IF j = i THEN new ELSE IF j \in TabStale(i) THEN TabShut ELSE tabBack[j]]
  BY DEF TabCreated
<1> HIDE DEF new, back
<1>8. \A j \in TabIds : back[j] = IF j = i THEN new ELSE IF j \in TabStale(i) THEN TabShut ELSE tabBack[j]
  BY <1>7
<1>9. back \in [TabIds -> TabSession] /\ \A j \in TabIds : TabSessionOk(j, back[j])
  <2>1. \A j \in TabIds : tabBack[j] \in TabSession /\ TabSessionOk(j, tabBack[j])
    BY <1>1 DEF TabBackOk
  <2>2. \A j \in TabIds : back[j] \in TabSession BY <1>5, <1>6, <1>8, <2>1
  <2>3. \A j \in TabIds : TabSessionOk(j, back[j]) BY <1>5, <1>6, <1>8, <2>1
  <2> QED BY <1>7, <2>2, <2>3
<1>10. IsFiniteSet(TabOpenIds(back))
  <2>1. TabOpenIds(back) \in SUBSET (TabOpenIds(tabBack) \cup {i}) BY <1>6, <1>8 DEF TabOpenIds
  <2>2. IsFiniteSet(TabOpenIds(tabBack) \cup {i}) BY <1>1, FS_AddElement
  <2> QED BY <2>1, <2>2, FS_Subset
<1>11. /\ back[i] = new /\ \A j \in TabStale(i) : back[j] = TabShut /\ tabBack[j].open
       /\ \A j \in TabIds \ {i} : j \notin TabStale(i) => back[j] = tabBack[j]
  BY <1>2, <1>8 DEF TabStale
<1> QED BY <1>2, <1>4, <1>5, <1>6, <1>9, <1>10, <1>11 DEF TabBackOk, back

LEMMA TabStaleClosedIs ==
    ASSUME TabTypes, NEW i \in TabIds
    PROVE  /\ TabStaleClosed(i) = tabEvents \o TabCloses(TabStale(i))
           /\ TabCloses(TabStale(i)) \in Seq(TabNews) /\ TabStaleClosed(i) \in Seq(TabNews)
<1>1. TabCloses(TabStale(i)) \in Seq(TabNews) BY TabCreatedIs, TabClosesAre
<1>2. tabEvents \in Seq(TabNews) BY DEF TabTypes
<1>3. TabStaleClosed(i) = tabEvents \o TabCloses(TabStale(i)) BY DEF TabStaleClosed, TabCloses
<1> QED BY <1>1, <1>2, <1>3

\* A session is closed.
LEMMA TabShutIs ==
    ASSUME TabBackOk(tabBack), NEW i \in TabIds, NEW back, back = [tabBack EXCEPT ![i] = TabShut]
    PROVE  /\ TabBackOk(back) /\ ~back[i].open /\ \A j \in TabIds : j # i => back[j] = tabBack[j]
<1>1. TabShut \in TabSession /\ TabShut.open = FALSE /\ TabSessionOk(i, TabShut)
  BY DEF TabShut, TabSession, TabSessionOk
<1>2. back \in [TabIds -> TabSession] /\ back[i] = TabShut /\ \A j \in TabIds : j # i => back[j] = tabBack[j]
  BY <1>1 DEF TabBackOk
<1>3. \A j \in TabIds : TabSessionOk(j, back[j]) BY <1>1, <1>2 DEF TabBackOk
<1>4. TabOpenIds(back) \in SUBSET TabOpenIds(tabBack) /\ IsFiniteSet(TabOpenIds(tabBack))
  BY <1>1, <1>2 DEF TabOpenIds, TabBackOk
<1>5. IsFiniteSet(TabOpenIds(back)) BY <1>4, FS_Subset
<1> QED BY <1>1, <1>2, <1>3, <1>5 DEF TabBackOk

\* Events of each kind.
LEMMA TabEventIs ==
    ASSUME NEW i \in TabIds
    PROVE  /\ TabEvent("closed", i, 0) \in TabNews
           /\ TabEvent("closed", i, 0).ev = "closed" /\ TabEvent("closed", i, 0).id = i
           /\ \A n \in 1 .. TabChunks[i] : TabChunks[i] > 1 =>
                /\ TabEvent("progress", i, n) \in TabNews
                /\ TabEvent("progress", i, n).ev = "progress" /\ TabEvent("progress", i, n).id = i
           /\ TabChunks[i] > 1 =>
                /\ TabEvent("complete", i, TabChunks[i]) \in TabNews
                /\ TabEvent("complete", i, TabChunks[i]).ev = "complete"
                /\ TabEvent("complete", i, TabChunks[i]).id = i
           /\ LET e == [ev |-> "opened", id |-> i, total |-> 1, indexing |-> TabChunks[i] > 1]
              IN  e \in TabNews /\ e.ev = "opened" /\ e.id = i
<1> USE TabAssumption
<1>1. \A name \in {"progress", "complete", "closed"}, n \in Nat :
        /\ TabEvent(name, i, n) \in TabMessages /\ TabEvent(name, i, n).ev = name
        /\ TabEvent(name, i, n).id = i /\ TabEvent(name, i, n).total = n
  BY DEF TabEvent, TabMessages
<1>2. TabChunks[i] \in Nat /\ \A n \in 1 .. TabChunks[i] : n \in Nat OBVIOUS
<1>3. TabEvent("closed", i, 0) \in TabNews BY <1>1 DEF TabNews, TabNewsOk
<1>4. ASSUME NEW n \in 1 .. TabChunks[i], TabChunks[i] > 1 PROVE TabEvent("progress", i, n) \in TabNews
  BY <1>1, <1>2, <1>4 DEF TabNews, TabNewsOk
<1>5. ASSUME TabChunks[i] > 1 PROVE TabEvent("complete", i, TabChunks[i]) \in TabNews
  BY <1>1, <1>2, <1>5 DEF TabNews, TabNewsOk
<1>6. LET e == [ev |-> "opened", id |-> i, total |-> 1, indexing |-> TabChunks[i] > 1]
      IN  e \in TabNews /\ e.ev = "opened" /\ e.id = i BY DEF TabNews, TabNewsOk, TabMessages
<1> QED BY <1>1, <1>2, <1>3, <1>4, <1>5, <1>6

\* A call of openPath goes on.
LEMMA TabCallIs ==
    ASSUME TabCallsOk(tabOpen), NEW c \in 1 .. TabCalls
    PROVE  /\ tabOpen[c] \in TabCalling /\ TabCallOk(tabOpen[c])
           /\ tabOpen[c].pc # "none" => tabOpen[c].id \in TabIds
<1>1. tabOpen[c] \in TabCalling /\ TabCallOk(tabOpen[c]) BY DEF TabCallsOk
<1>2. tabOpen[c].pc # "none" => tabOpen[c].id \in TabIds BY <1>1 DEF TabCallOk
<1> QED BY <1>1, <1>2

TabGoesOn(c, o) ==
    /\ TabCallsOk(tabOpen') /\ tabOpen'[c] = o
    /\ \A d \in 1 .. TabCalls : d # c => tabOpen'[d] = tabOpen[d]

LEMMA TabGo ==
    ASSUME TabCallsOk(tabOpen), NEW c \in 1 .. TabCalls, NEW o \in TabCalling, TabCallOk(o),
           tabOpen' = [tabOpen EXCEPT ![c] = o]
    PROVE  TabGoesOn(c, o)
<1>1. tabOpen' \in [1 .. TabCalls -> TabCalling] /\ tabOpen'[c] = o BY DEF TabCallsOk
<1>2. \A d \in 1 .. TabCalls : d # c => tabOpen'[d] = tabOpen[d] BY DEF TabCallsOk
<1>3. \A d \in 1 .. TabCalls : TabCallOk(tabOpen'[d]) BY <1>1, <1>2 DEF TabCallsOk
<1> QED BY <1>1, <1>2, <1>3 DEF TabGoesOn, TabCallsOk

LEMMA TabLoadIs ==
    ASSUME TabTypes, NEW c \in 1 .. TabCalls, TabLoad(c)
    PROVE  \E o \in TabCalling :
             /\ TabGoesOn(c, o) /\ o.pc = "loaded" /\ o.id = tabOpen[c].id
             /\ tabOpen[c].id \in TabIds /\ tabOpen[c].pc = "load"
<1>0. PICK b \in BOOLEAN : b = (TabChunks[tabOpen[c].id] > 1)
  <2>1. CASE TabChunks[tabOpen[c].id] > 1
    <3>1. TRUE = (TabChunks[tabOpen[c].id] > 1) BY <2>1
    <3> QED BY <3>1
  <2>2. CASE ~(TabChunks[tabOpen[c].id] > 1)
    <3>1. FALSE = (TabChunks[tabOpen[c].id] > 1) BY <2>2
    <3> QED BY <3>1
  <2> QED BY <2>1, <2>2
<1> DEFINE o == [tabOpen[c] EXCEPT !.pc = "loaded", !.total = 1, !.indexing = b]
<1>1. tabOpen[c].pc = "load" /\ tabOpen[c].id \in TabIds /\ TabCallsOk(tabOpen) /\ tabOpen[c] \in TabCalling
  BY TabCallIs DEF TabTypes, TabLoad
<1>2. /\ o \in TabCalling /\ o.pc = "loaded" /\ o.id = tabOpen[c].id /\ o.total = 1
      /\ o.indexing = b BY <1>1 DEF TabCalling
<1>3. tabOpen' = [tabOpen EXCEPT ![c] = o] BY <1>0 DEF TabLoad
<1> HIDE DEF o
<1>4. TabCallOk(o) BY <1>0, <1>1, <1>2 DEF TabCallOk
<1>5. TabGoesOn(c, o) BY <1>1, <1>2, <1>3, <1>4, TabGo
<1> QED BY <1>1, <1>2, <1>5

LEMMA TabOpenSentIs ==
    ASSUME TabTypes, NEW c \in 1 .. TabCalls, NEW i \in TabIds, NEW replace \in BOOLEAN, TabOpenSent(c, i, replace)
    PROVE  \E o \in TabCalling : TabGoesOn(c, o) /\ o.pc = "load" /\ tabOpen[c].pc = "none"
<1> DEFINE o == [TabNoOpen EXCEPT !.pc = "load", !.id = i, !.replace = replace]
<1>1. o \in TabCalling /\ o.pc = "load" /\ o.id = i BY DEF TabNoOpen, TabCalling
<1>2. tabOpen' = [tabOpen EXCEPT ![c] = o] /\ TabCallsOk(tabOpen) /\ tabOpen[c].pc = "none"
  BY DEF TabOpenSent, TabTypes
<1> HIDE DEF o
<1>3. TabCallOk(o) BY <1>1 DEF TabCallOk
<1>4. TabGoesOn(c, o) BY <1>1, <1>2, <1>3, TabGo
<1> QED BY <1>1, <1>2, <1>4

LEMMA TabLoadedIs ==
    ASSUME TabTypes, NEW c \in 1 .. TabCalls, TabLoaded(c), NEW i, i = tabOpen[c].id
    PROVE  /\ i \in TabIds /\ tabOpen[c].pc = "loaded"
           /\ \E o \in TabCalling : TabGoesOn(c, o) /\ o.pc = "probe" /\ o.id = i /\ o.token = tabGuard'[i]
           /\ tabGuard' \in [TabIds -> Nat] /\ \A j \in TabIds : j # i => tabGuard'[j] = tabGuard[j]
           /\ TabWindowOk(tabEntry', tabOrder', tabFocus')
           /\ ToSet(tabOrder') = ToSet(tabOrder) \cup {i}
           /\ \A j \in TabIds : j # i => (j \in ToSet(tabOrder) => tabEntry'[j] = tabEntry[j])
<1> USE TabAssumption
<1> DEFINE o == [tabOpen[c] EXCEPT !.pc = "probe", !.token = tabGuard[i] + 1]
<1>1. /\ tabOpen[c].pc = "loaded" /\ i \in TabIds /\ TabCallsOk(tabOpen) /\ tabOpen[c] \in TabCalling
      /\ TabCallOk(tabOpen[c]) BY TabCallIs DEF TabTypes, TabLoaded
<1>2. tabGuard \in [TabIds -> Nat] /\ tabGuard' = [tabGuard EXCEPT ![i] = tabGuard[i] + 1]
  BY DEF TabTypes, TabLoaded
<1>3. /\ tabGuard' \in [TabIds -> Nat] /\ tabGuard'[i] = tabGuard[i] + 1 /\ tabGuard[i] + 1 \in Nat
      /\ \A j \in TabIds : j # i => tabGuard'[j] = tabGuard[j] BY <1>1, <1>2
<1>4. o \in TabCalling /\ o.pc = "probe" /\ o.id = i /\ o.token = tabGuard[i] + 1
  BY <1>1, <1>3 DEF TabCalling
<1>5. tabOpen' = [tabOpen EXCEPT ![c] = o] BY DEF TabLoaded
<1> HIDE DEF o
<1>6. TabCallOk(o) BY <1>1, <1>4 DEF TabCallOk
<1>7. TabGoesOn(c, o) BY <1>1, <1>4, <1>5, <1>6, TabGo
<1>8. TabFits(i, tabOpen[c].total, tabOpen[c].indexing)
  <2>1. tabOpen[c].total = 1 /\ tabOpen[c].indexing = (TabChunks[i] > 1) BY <1>1 DEF TabCallOk
  <2>2. TabChunks[i] \in Nat \ {0} /\ (TabChunks[i] = 1 => ~(TabChunks[i] > 1)) /\ 1 \in 1 .. TabChunks[i]
    BY <1>1
  <2>3. tabOpen[c].indexing \in BOOLEAN BY <1>1 DEF TabCalling
  <2>4. TabChunks[i] = 1 => ~tabOpen[c].indexing BY <2>1, <2>2
  <2> QED BY <2>1, <2>2, <2>3, <2>4 DEF TabFits
<1>9. TabWindowOk(tabEntry, tabOrder, tabFocus) BY DEF TabTypes
<1>10. /\ TabWindowOk(tabEntry', tabOrder', tabFocus') /\ ToSet(tabOrder') = ToSet(tabOrder) \cup {i}
       /\ \A j \in TabIds : j # i => (j \in ToSet(tabOrder) => tabEntry'[j] = tabEntry[j])
  <2>1. CASE tabOpen[c].replace
    <3>1. TabReplace(i, tabOpen[c].total, tabOpen[c].indexing) BY <2>1 DEF TabLoaded
    <3> QED BY <1>1, <1>8, <1>9, <3>1, TabReplaceIs
  <2>2. CASE ~tabOpen[c].replace
    <3>1. TabAdd(i, tabOpen[c].total, tabOpen[c].indexing, TRUE) BY <2>2 DEF TabLoaded
    <3> QED BY <1>1, <1>8, <1>9, <3>1, TabAddIs
  <2> QED BY <2>1, <2>2
<1> QED BY <1>1, <1>3, <1>4, <1>7, <1>10

LEMMA TabProbeIs ==
    ASSUME TabTypes, NEW c \in 1 .. TabCalls, TabProbe(c), NEW i, i = tabOpen[c].id
    PROVE  /\ i \in TabIds /\ tabOpen[c].pc = "probe"
           /\ \E o \in TabCalling :
                /\ TabGoesOn(c, o) /\ o.id = i /\ o.token = tabOpen[c].token
                /\ o.pc \in {"probed", "over"}
                /\ tabBack[i].open => o.pc = "probed" /\ o.total = tabBack[i].total
<1> USE TabAssumption
<1> DEFINE o == [tabOpen[c] EXCEPT !.pc = IF tabBack[i].open THEN "probed" ELSE "over", !.total = tabBack[i].total]
<1>1. /\ tabOpen[c].pc = "probe" /\ i \in TabIds /\ TabCallsOk(tabOpen) /\ tabOpen[c] \in TabCalling
  BY TabCallIs DEF TabTypes, TabProbe
<1>2. tabBack[i] \in TabSession /\ TabSessionOk(i, tabBack[i]) BY <1>1 DEF TabTypes, TabBackOk
<1>3. tabBack[i].total \in Nat BY <1>2 DEF TabSession
<1>4. /\ o \in TabCalling /\ o.pc = (IF tabBack[i].open THEN "probed" ELSE "over") /\ o.id = i
      /\ o.token = tabOpen[c].token /\ o.total = tabBack[i].total BY <1>1, <1>3 DEF TabCalling
<1>5. tabOpen' = [tabOpen EXCEPT ![c] = o] BY DEF TabProbe
<1> HIDE DEF o
<1>6. TabCallOk(o) BY <1>1, <1>2, <1>4 DEF TabCallOk, TabSessionOk
<1>7. TabGoesOn(c, o) BY <1>1, <1>4, <1>5, <1>6, TabGo
<1> QED BY <1>1, <1>4, <1>7

LEMMA TabProbedIs ==
    ASSUME TabTypes, NEW c \in 1 .. TabCalls, TabProbed(c), NEW i, i = tabOpen[c].id
    PROVE  /\ i \in TabIds /\ tabOpen[c].pc = "probed" /\ tabOpen[c].total \in 1 .. TabChunks[i]
           /\ \E o \in TabCalling : TabGoesOn(c, o) /\ o.pc = "over"
           /\ TabWindowOk(tabEntry', tabOrder', tabFocus') /\ ToSet(tabOrder') = ToSet(tabOrder)
           /\ \A j \in TabIds : j # i \/ tabOpen[c].token # tabGuard[i] => tabEntry'[j] = tabEntry[j]
           /\ tabOpen[c].token = tabGuard[i] /\ i \in ToSet(tabOrder) =>
                tabEntry'[i].total = tabOpen[c].total /\ ~tabEntry'[i].indexing
<1> DEFINE o == [tabOpen[c] EXCEPT !.pc = "over"]
<1>1. /\ tabOpen[c].pc = "probed" /\ i \in TabIds /\ TabCallsOk(tabOpen) /\ tabOpen[c] \in TabCalling
      /\ TabCallOk(tabOpen[c]) BY TabCallIs DEF TabTypes, TabProbed
<1>2. o \in TabCalling /\ o.pc = "over" /\ o.id = i BY <1>1 DEF TabCalling
<1>3. tabOpen' = [tabOpen EXCEPT ![c] = o] BY DEF TabProbed
<1> HIDE DEF o
<1>4. TabCallOk(o) BY <1>1, <1>2 DEF TabCallOk
<1>5. TabGoesOn(c, o) BY <1>1, <1>2, <1>3, <1>4, TabGo
<1>6. TabFits(i, tabOpen[c].total, FALSE) /\ tabOpen[c].total \in 1 .. TabChunks[i]
  BY <1>1 DEF TabCallOk, TabFits
<1>7. TabWindowOk(tabEntry, tabOrder, tabFocus) BY DEF TabTypes
<1>8. CASE tabOpen[c].token = tabGuard[i]
  <2>1. TabUpdateTotal(i, tabOpen[c].total, FALSE) BY <1>8 DEF TabProbed, TabCurrent
  <2>2. /\ TabWindowOk(tabEntry', tabOrder', tabFocus') /\ ToSet(tabOrder') = ToSet(tabOrder)
        /\ \A j \in TabIds : j # i => tabEntry'[j] = tabEntry[j]
        /\ i \in ToSet(tabOrder) => tabEntry'[i].total = tabOpen[c].total /\ tabEntry'[i].indexing = FALSE
    BY <1>1, <1>6, <1>7, <2>1, TabUpdateIs
  <2> QED BY <1>1, <1>2, <1>5, <1>6, <1>8, <2>2
<1>9. CASE tabOpen[c].token # tabGuard[i]
  <2>1. tabEntry' = tabEntry /\ tabOrder' = tabOrder /\ tabFocus' = tabFocus
    BY <1>9 DEF TabProbed, TabCurrent, tabWindow
  <2> QED BY <1>1, <1>2, <1>5, <1>6, <1>7, <1>9, <2>1
<1> QED BY <1>8, <1>9

----------------------------------------
\* What more events change, and the first one heard.
TabDue(open, i) == \E c \in 1 .. TabCalls : open[c].pc = "loaded" /\ open[c].id = i

LEMMA TabDueGoesOn ==
    ASSUME NEW c \in 1 .. TabCalls, NEW o, TabGoesOn(c, o), NEW i
    PROVE  /\ o.pc # "loaded" /\ tabOpen[c].pc # "loaded" => (TabDue(tabOpen', i) <=> TabDue(tabOpen, i))
           /\ o.pc = "loaded" /\ tabOpen[c].pc # "loaded" =>
                (TabDue(tabOpen', i) <=> TabDue(tabOpen, i) \/ o.id = i)
           /\ o.pc # "loaded" /\ tabOpen[c].id # i => (TabDue(tabOpen', i) <=> TabDue(tabOpen, i))
<1>1. tabOpen'[c] = o /\ \A d \in 1 .. TabCalls : d # c => tabOpen'[d] = tabOpen[d] BY DEF TabGoesOn
<1> QED BY <1>1 DEF TabDue

\* As far as opening and closing i goes, the same.
TabSamePlace(s, t, i) ==
    /\ \A name \in {"opened", "closed"} : TabHas(t, name, i) <=> TabHas(s, name, i)
    /\ TabFollowed(t, i, "opened", "closed") <=> TabFollowed(s, i, "opened", "closed")
    /\ \A pending : TabSpare(t, i, pending) <=> TabSpare(s, i, pending)
    /\ TabComes(t, i) <=> TabComes(s, i)
\* As far as its lines go, the same.
TabSameLines(s, t, i) ==
    /\ TabHas(t, "complete", i) <=> TabHas(s, "complete", i)
    /\ \A name \in {"opened", "progress"} :
         TabFollowed(t, i, name, "complete") <=> TabFollowed(s, i, name, "complete")

LEMMA TabOtherEvent ==
    ASSUME NEW s \in Seq(TabNews), NEW e \in TabNews, NEW t, t = s \o <<e>>, NEW i
    PROVE  /\ t \in Seq(TabNews)
           /\ e.id # i => TabSamePlace(s, t, i) /\ TabSameLines(s, t, i)
           /\ e.ev \in {"progress", "complete"} => TabSamePlace(s, t, i)
           /\ e.ev = "closed" => TabSameLines(s, t, i)
           /\ e.ev = "closed" /\ e.id = i =>
                /\ TabHas(t, "closed", i) /\ TabFollowed(t, i, "opened", "closed")
                /\ \A pending : TabSpare(t, i, pending) <=> i \notin pending \/ TabHas(s, "closed", i)
           /\ e.ev = "opened" /\ e.id = i =>
                TabComes(t, i) /\ (TabHas(s, "closed", i) => TabHas(t, "closed", i))
           /\ e.ev = "complete" /\ e.id = i =>
                /\ TabHas(t, "complete", i)
                /\ \A name \in {"opened", "progress"} : TabFollowed(t, i, name, "complete")
<1>1. <<e>> \in Seq(TabNews) /\ t \in Seq(TabNews) OBVIOUS
<1>2. \A name : TabHas(t, name, i) <=> TabHas(s, name, i) \/ TabHas(<<e>>, name, i)
  BY <1>1, TabConcatHas
<1>3. \A name, by : TabFollowed(t, i, name, by) <=>
                      /\ TabFollowed(<<e>>, i, name, by)
                      /\ TabFollowed(s, i, name, by) \/ TabHas(<<e>>, by, i)
  BY <1>1, TabConcatFollowed
<1>4. \A pending : TabSpare(t, i, pending) <=>
                     \/ TabSpare(s, i, pending) \/ TabSpare(<<e>>, i, pending)
                     \/ TabHas(s, "closed", i) /\ TabHas(<<e>>, "closed", i) BY <1>1, TabConcatSpare
<1>5. TabComes(t, i) <=> TabComes(<<e>>, i) \/ (TabComes(s, i) /\ ~TabHas(<<e>>, "closed", i))
  BY <1>1, TabConcatComes
<1>6. /\ \A name : TabHas(<<e>>, name, i) <=> e.ev = name /\ e.id = i
      /\ \A name, by : TabFollowed(<<e>>, i, name, by) <=> ~(e.ev = name /\ e.id = i)
      /\ \A pending : TabSpare(<<e>>, i, pending) <=> e.ev = "closed" /\ e.id = i /\ i \notin pending
      /\ TabComes(<<e>>, i) <=> e.ev = "opened" /\ e.id = i BY TabOne
<1>7. e.id # i => TabSamePlace(s, t, i) /\ TabSameLines(s, t, i)
  BY <1>2, <1>3, <1>4, <1>5, <1>6 DEF TabSamePlace, TabSameLines
<1>8. e.ev \in {"progress", "complete"} => TabSamePlace(s, t, i)
  BY <1>2, <1>3, <1>4, <1>5, <1>6 DEF TabSamePlace
<1>9. e.ev = "closed" => TabSameLines(s, t, i) BY <1>2, <1>3, <1>6 DEF TabSameLines
<1>10. ASSUME e.ev = "closed", e.id = i
       PROVE  /\ TabHas(t, "closed", i) /\ TabFollowed(t, i, "opened", "closed")
              /\ \A pending : TabSpare(t, i, pending) <=> i \notin pending \/ TabHas(s, "closed", i)
  <2>1. \A pending : TabSpare(s, i, pending) => TabHas(s, "closed", i) BY DEF TabSpare, TabHas
  <2> QED BY <1>2, <1>3, <1>4, <1>6, <1>10, <2>1
<1>11. ASSUME e.ev = "opened", e.id = i
       PROVE  TabComes(t, i) /\ (TabHas(s, "closed", i) => TabHas(t, "closed", i))
  BY <1>2, <1>5, <1>6, <1>11
<1>12. ASSUME e.ev = "complete", e.id = i
       PROVE  /\ TabHas(t, "complete", i)
              /\ \A name \in {"opened", "progress"} : TabFollowed(t, i, name, "complete")
  BY <1>2, <1>3, <1>6, <1>12
<1> QED BY <1>1, <1>7, <1>8, <1>9, <1>10, <1>11, <1>12

\* The closes of the sessions of one file.
LEMMA TabClosesSame ==
    ASSUME NEW s \in Seq(TabNews), NEW S \in SUBSET TabIds, IsFiniteSet(S), NEW t, t = s \o TabCloses(S), NEW i
    PROVE  /\ TabSameLines(s, t, i)
           /\ i \notin S => TabSamePlace(s, t, i)
           /\ i \in S =>
                /\ TabHas(t, "closed", i) /\ TabFollowed(t, i, "opened", "closed")
                /\ \A pending : i \notin pending \/ TabHas(s, "closed", i) => TabSpare(t, i, pending)
<1> DEFINE x == TabCloses(S)
<1>1. /\ x \in Seq(TabNews)
      /\ TabHas(x, "closed", i) <=> i \in S
      /\ \A name : name # "closed" => ~TabHas(x, name, i)
      /\ \A name, by : name # "closed" => TabFollowed(x, i, name, by)
      /\ \A pending : TabSpare(x, i, pending) => i \in S
      /\ ~TabComes(x, i) BY TabClosesAre
<1> HIDE DEF x
<1>2. t = s \o x BY DEF x
<1>3. \A name : TabHas(t, name, i) <=> TabHas(s, name, i) \/ TabHas(x, name, i)
  BY <1>1, <1>2, TabConcatHas
<1>4. \A name, by : TabFollowed(t, i, name, by) <=>
                      TabFollowed(x, i, name, by) /\ (TabFollowed(s, i, name, by) \/ TabHas(x, by, i))
  BY <1>1, <1>2, TabConcatFollowed
<1>5. \A pending : TabSpare(t, i, pending) <=>
                     \/ TabSpare(s, i, pending) \/ TabSpare(x, i, pending)
                     \/ TabHas(s, "closed", i) /\ TabHas(x, "closed", i)
  BY <1>1, <1>2, TabConcatSpare
<1>6. TabComes(t, i) <=> TabComes(x, i) \/ (TabComes(s, i) /\ ~TabHas(x, "closed", i))
  BY <1>1, <1>2, TabConcatComes
<1>7. TabSameLines(s, t, i) BY <1>1, <1>3, <1>4 DEF TabSameLines
<1>8. i \notin S => TabSamePlace(s, t, i) BY <1>1, <1>3, <1>4, <1>5, <1>6 DEF TabSamePlace
<1>9. ASSUME i \in S
      PROVE  /\ TabHas(t, "closed", i) /\ TabFollowed(t, i, "opened", "closed")
             /\ \A pending : i \notin pending \/ TabHas(s, "closed", i) => TabSpare(t, i, pending)
  <2>1. \A pending : i \notin pending => (TabSpare(x, i, pending) <=> TabHas(x, "closed", i))
    BY DEF TabSpare, TabHas
  <2> QED BY <1>1, <1>3, <1>4, <1>5, <1>9, <2>1
<1> QED BY <1>7, <1>8, <1>9

\* The first event is heard.
LEMMA TabHeard ==
    ASSUME NEW s \in Seq(TabNews), s # <<>>, NEW e, e = Head(s), NEW t, t = Tail(s), NEW i
    PROVE  /\ e \in TabNews /\ t \in Seq(TabNews)
           /\ e.id # i => TabSamePlace(s, t, i) /\ TabSameLines(s, t, i)
           /\ e.ev \in {"progress", "complete"} => TabSamePlace(s, t, i)
           /\ e.ev = "closed" => TabSameLines(s, t, i)
           /\ e.ev \in {"opened", "progress"} /\ e.id = i =>
                (TabHas(s, "complete", i) <=> TabHas(t, "complete", i))
           /\ \A name, by : TabFollowed(s, i, name, by) => TabFollowed(t, i, name, by)
           /\ \A name, by : e.ev = name /\ e.id = i /\ TabFollowed(s, i, name, by) => TabHas(t, by, i)
           /\ e.ev = "closed" /\ e.id = i =>
                /\ TabComes(s, i) <=> TabComes(t, i)
                /\ TabHas(s, "opened", i) <=> TabHas(t, "opened", i)
                /\ TabHas(t, "closed", i) <=> TabSpare(t, i, {})
                /\ \A pending : TabSpare(s, i, pending) <=> i \notin pending \/ TabHas(t, "closed", i)
           /\ e.ev = "opened" /\ e.id = i =>
                /\ TabHas(s, "closed", i) <=> TabHas(t, "closed", i)
                /\ TabComes(s, i) <=> TabComes(t, i) \/ ~TabHas(t, "closed", i)
                /\ \A pending : TabSpare(s, i, pending) <=> TabSpare(t, i, pending)
           /\ \A pending : TabSpare(t, i, pending) => TabHas(t, "closed", i)
           /\ \A name : TabHas(s, name, i) <=> (e.ev = name /\ e.id = i) \/ TabHas(t, name, i)
<1>1. /\ s = <<e>> \o t /\ e \in TabNews /\ t \in Seq(TabNews) /\ <<e>> \in Seq(TabNews)
  BY TabHeadTail
<1>2. \A name : TabHas(s, name, i) <=> TabHas(<<e>>, name, i) \/ TabHas(t, name, i)
  <2>1. \A name : TabHas(<<e>> \o t, name, i) <=> TabHas(<<e>>, name, i) \/ TabHas(t, name, i)
    BY <1>1, TabConcatHas
  <2> QED BY <1>1, <2>1
<1>3. \A name, by : TabFollowed(s, i, name, by) <=>
                      TabFollowed(t, i, name, by) /\ (TabFollowed(<<e>>, i, name, by) \/ TabHas(t, by, i))
  <2>1. \A name, by : TabFollowed(<<e>> \o t, i, name, by) <=>
                        TabFollowed(t, i, name, by) /\ (TabFollowed(<<e>>, i, name, by) \/ TabHas(t, by, i))
    BY <1>1, TabConcatFollowed
  <2> QED BY <1>1, <2>1
<1>4. \A pending : TabSpare(s, i, pending) <=>
                     \/ TabSpare(<<e>>, i, pending) \/ TabSpare(t, i, pending)
                     \/ TabHas(<<e>>, "closed", i) /\ TabHas(t, "closed", i)
  <2>1. \A pending : TabSpare(<<e>> \o t, i, pending) <=>
                       \/ TabSpare(<<e>>, i, pending) \/ TabSpare(t, i, pending)
                       \/ TabHas(<<e>>, "closed", i) /\ TabHas(t, "closed", i)
    BY <1>1, TabConcatSpare
  <2> QED BY <1>1, <2>1
<1>5. TabComes(s, i) <=> TabComes(t, i) \/ (TabComes(<<e>>, i) /\ ~TabHas(t, "closed", i))
  <2>1. TabComes(<<e>> \o t, i) <=> TabComes(t, i) \/ (TabComes(<<e>>, i) /\ ~TabHas(t, "closed", i))
    BY <1>1, TabConcatComes
  <2> QED BY <1>1, <2>1
<1>6. /\ \A name : TabHas(<<e>>, name, i) <=> e.ev = name /\ e.id = i
      /\ \A name, by : TabFollowed(<<e>>, i, name, by) <=> ~(e.ev = name /\ e.id = i)
      /\ \A pending : TabSpare(<<e>>, i, pending) <=> e.ev = "closed" /\ e.id = i /\ i \notin pending
      /\ TabComes(<<e>>, i) <=> e.ev = "opened" /\ e.id = i BY TabOne
<1>7. /\ \A pending : TabSpare(t, i, pending) => TabHas(t, "closed", i)
      /\ TabHas(t, "closed", i) <=> TabSpare(t, i, {}) BY DEF TabSpare, TabHas
<1>8. e.id # i => TabSamePlace(s, t, i) /\ TabSameLines(s, t, i)
  BY <1>2, <1>3, <1>4, <1>5, <1>6 DEF TabSamePlace, TabSameLines
<1>9. e.ev \in {"progress", "complete"} => TabSamePlace(s, t, i)
  BY <1>2, <1>3, <1>4, <1>5, <1>6 DEF TabSamePlace
<1>10. e.ev = "closed" => TabSameLines(s, t, i) BY <1>2, <1>3, <1>6 DEF TabSameLines
<1>11. /\ \A name, by : TabFollowed(s, i, name, by) => TabFollowed(t, i, name, by)
       /\ \A name, by : e.ev = name /\ e.id = i /\ TabFollowed(s, i, name, by) => TabHas(t, by, i)
       /\ \A name : TabHas(s, name, i) <=> (e.ev = name /\ e.id = i) \/ TabHas(t, name, i)
       /\ e.ev \in {"opened", "progress"} /\ e.id = i => (TabHas(s, "complete", i) <=> TabHas(t, "complete", i))
  BY <1>2, <1>3, <1>6
<1>12. e.ev = "closed" /\ e.id = i =>
         /\ TabComes(s, i) <=> TabComes(t, i)
         /\ TabHas(s, "opened", i) <=> TabHas(t, "opened", i)
         /\ \A pending : TabSpare(s, i, pending) <=> i \notin pending \/ TabHas(t, "closed", i)
  BY <1>2, <1>4, <1>5, <1>6, <1>7
<1>13. e.ev = "opened" /\ e.id = i =>
         /\ TabHas(s, "closed", i) <=> TabHas(t, "closed", i)
         /\ TabComes(s, i) <=> TabComes(t, i) \/ ~TabHas(t, "closed", i)
         /\ \A pending : TabSpare(s, i, pending) <=> TabSpare(t, i, pending)
  BY <1>2, <1>4, <1>5, <1>6
<1> QED BY <1>1, <1>7, <1>8, <1>9, <1>10, <1>11, <1>12, <1>13

----------------------------------------
\* The steps, and the types after them.
LEMMA TabHearIs ==
    ASSUME TabTypes, TabHear, NEW e, e = Head(tabEvents)
    PROVE  /\ tabEvents # <<>> /\ tabEvents' = Tail(tabEvents) /\ e \in TabNews /\ e.id \in TabIds
           /\ e.ev \in {"opened", "progress", "complete", "closed"}
           /\ TabWindowOk(tabEntry', tabOrder', tabFocus')
           /\ \A j \in TabIds : j # e.id =>
                /\ tabEntry'[j] = tabEntry[j]
                /\ j \in ToSet(tabOrder') <=> j \in ToSet(tabOrder)
                /\ j \in tabPending' <=> j \in tabPending
           /\ e.ev = "opened" => /\ e.id \in ToSet(tabOrder')
                                 /\ e.id \in ToSet(tabOrder) => tabEntry'[e.id] = tabEntry[e.id]
           /\ e.ev \in {"progress", "complete"} => ToSet(tabOrder') = ToSet(tabOrder)
           /\ e.ev = "complete" /\ e.id \in ToSet(tabOrder) =>
                tabEntry'[e.id].total = TabChunks[e.id] /\ ~tabEntry'[e.id].indexing
           /\ e.ev = "closed" =>
                /\ e.id \in tabPending => tabEntry' = tabEntry /\ tabOrder' = tabOrder
                /\ e.id \notin tabPending => e.id \notin ToSet(tabOrder')
                /\ e.id \notin tabPending'
           /\ e.ev # "closed" => tabPending' = tabPending
           /\ tabPending' \in SUBSET TabIds
<1> USE TabAssumption
<1>1. tabEvents # <<>> /\ tabEvents' = Tail(tabEvents) /\ tabEvents \in Seq(TabNews)
  BY DEF TabHear, TabTypes
<1>2. e \in TabNews BY <1>1, TabHeadTail
<1>3. /\ e \in TabMessages /\ TabNewsOk(e) /\ e.id \in TabIds /\ e.indexing \in BOOLEAN
      /\ e.ev \in {"opened", "progress", "complete", "closed"} BY <1>2 DEF TabNews, TabMessages
<1>4. TabWindowOk(tabEntry, tabOrder, tabFocus) BY DEF TabTypes
<1>5. /\ tabPending' = (IF e.ev = "closed" THEN tabPending \ {e.id} ELSE tabPending)
      /\ tabPending \in SUBSET TabIds BY DEF TabHear, TabTypes
<1>6. /\ tabPending' \in SUBSET TabIds /\ \A j \in TabIds : j # e.id => (j \in tabPending' <=> j \in tabPending)
      /\ e.ev # "closed" => tabPending' = tabPending
      /\ e.ev = "closed" => e.id \notin tabPending' BY <1>5
<1>7. TabChunks[e.id] \in Nat \ {0} BY <1>3
<1>8. CASE e.ev = "opened"
  <2>1. TabAdd(e.id, e.total, e.indexing, FALSE) BY <1>8 DEF TabHear
  <2>2. TabFits(e.id, e.total, e.indexing)
    <3>1. e.total = 1 /\ e.indexing = (TabChunks[e.id] > 1) BY <1>3, <1>8 DEF TabNewsOk
    <3>2. 1 \in 1 .. TabChunks[e.id] /\ (TabChunks[e.id] = 1 => ~(TabChunks[e.id] > 1)) BY <1>7
    <3>3. TabChunks[e.id] = 1 => ~e.indexing BY <3>1, <3>2
    <3> QED BY <1>3, <3>1, <3>2, <3>3 DEF TabFits
  <2>3. /\ TabWindowOk(tabEntry', tabOrder', tabFocus')
        /\ ToSet(tabOrder') = ToSet(tabOrder) \cup {e.id}
        /\ \A j \in TabIds : j \in ToSet(tabOrder) => tabEntry'[j] = tabEntry[j]
    BY <1>3, <1>4, <2>1, <2>2, TabAddIs
  <2>4. \A j \in TabIds : j # e.id => tabEntry'[j] = tabEntry[j]
    <3> SUFFICES ASSUME NEW j \in TabIds, j # e.id PROVE tabEntry'[j] = tabEntry[j] OBVIOUS
    <3>1. CASE e.id \in ToSet(tabOrder) BY <2>1, <3>1 DEF TabAdd, TabShown
    <3>2. CASE e.id \notin ToSet(tabOrder) BY <1>4, <2>1, <3>2 DEF TabAdd, TabShown, TabWindowOk
    <3> QED BY <3>1, <3>2
  <2> QED BY <1>1, <1>2, <1>3, <1>6, <1>8, <2>3, <2>4
<1>9. CASE e.ev \in {"progress", "complete"}
  <2>1. PICK busy \in BOOLEAN : /\ TabUpdateTotal(e.id, e.total, busy)
                                /\ e.ev = "complete" => busy = FALSE BY <1>9 DEF TabHear
  <2>2. TabFits(e.id, e.total, busy) /\ (e.ev = "complete" => e.total = TabChunks[e.id])
    <3>1. TabChunks[e.id] # 1 /\ e.total \in 1 .. TabChunks[e.id] BY <1>3, <1>7, <1>9 DEF TabNewsOk
    <3> QED BY <1>3, <2>1, <3>1 DEF TabFits, TabNewsOk
  <2>3. /\ TabWindowOk(tabEntry', tabOrder', tabFocus') /\ ToSet(tabOrder') = ToSet(tabOrder)
        /\ \A j \in TabIds : j # e.id => tabEntry'[j] = tabEntry[j]
        /\ e.id \in ToSet(tabOrder) => tabEntry'[e.id].total = e.total /\ tabEntry'[e.id].indexing = busy
    BY <1>3, <1>4, <2>1, <2>2, TabUpdateIs
  <2> QED BY <1>1, <1>2, <1>3, <1>6, <1>9, <2>1, <2>2, <2>3
<1>10. CASE e.ev = "closed" /\ e.id \in tabPending
  <2>1. tabEntry' = tabEntry /\ tabOrder' = tabOrder /\ tabFocus' = tabFocus
    BY <1>10 DEF TabHear, tabWindow
  <2> QED BY <1>1, <1>2, <1>3, <1>4, <1>6, <1>10, <2>1
<1>11. CASE e.ev = "closed" /\ e.id \notin tabPending
  <2>1. TabRemove(e.id) BY <1>11 DEF TabHear
  <2>2. /\ TabWindowOk(tabEntry', tabOrder', tabFocus')
        /\ ToSet(tabOrder') = ToSet(tabOrder) \ {e.id}
        /\ \A j \in TabIds : j # e.id => tabEntry'[j] = tabEntry[j] BY <1>3, <1>4, <2>1, TabRemoveIs
  <2> QED BY <1>1, <1>2, <1>3, <1>6, <1>11, <2>2
<1> QED BY <1>3, <1>8, <1>9, <1>10, <1>11

LEMMA TabIndexIs ==
    ASSUME TabTypes, NEW i \in TabIds, TabIndex(i)
    PROVE  /\ tabBack[i].open /\ TabBackOk(tabBack') /\ tabBack'[i].open /\ TabChunks[i] > 1
           /\ \A j \in TabIds : j # i => tabBack'[j] = tabBack[j]
           /\ tabEvents' \in Seq(TabNews)
           /\ \A j \in TabIds : TabSamePlace(tabEvents, tabEvents', j) /\ (j # i => TabSameLines(tabEvents, tabEvents', j))
           /\ tabBack'[i].total = TabChunks[i] =>
                /\ TabHas(tabEvents', "complete", i)
                /\ \A name \in {"opened", "progress"} : TabFollowed(tabEvents', i, name, "complete")
<1> USE TabAssumption
<1> DEFINE n == tabBack[i].total + 1
<1>1. /\ tabBack[i] \in TabSession /\ TabSessionOk(i, tabBack[i]) /\ tabBack[i].indexing
      /\ tabBack \in [TabIds -> TabSession] /\ tabEvents \in Seq(TabNews)
  BY DEF TabTypes, TabBackOk, TabIndex
<1>2. /\ tabBack[i].open /\ TabChunks[i] \in Nat /\ tabBack[i].total \in Nat
      /\ tabBack[i].total >= 1 /\ tabBack[i].total < TabChunks[i]
  <2>1. tabBack[i].open /\ (tabBack[i].indexing <=> tabBack[i].total < TabChunks[i])
    BY <1>1 DEF TabSessionOk
  <2>2. TabChunks[i] \in Nat /\ tabBack[i].total \in 1 .. TabChunks[i] /\ tabBack[i].total \in Nat
    BY <1>1, <2>1 DEF TabSessionOk, TabSession
  <2> QED BY <1>1, <2>1, <2>2
<1>3. n \in 1 .. TabChunks[i] /\ n \in Nat /\ TabChunks[i] > 1 BY <1>2
<1>4. /\ tabBack' = [tabBack EXCEPT ![i].total = n, ![i].indexing = ~(n = TabChunks[i])]
      /\ tabEvents' = tabEvents \o <<TabEvent("progress", i, n)>>
                        \o (IF n = TabChunks[i] THEN <<TabEvent("complete", i, n)>> ELSE <<>>)
  BY DEF TabIndex
<1> HIDE DEF n
<1>5. PICK b \in BOOLEAN : b = (n < TabChunks[i]) /\ b = ~(n = TabChunks[i])
  <2>1. CASE n = TabChunks[i]
    <3>1. FALSE = (n < TabChunks[i]) /\ FALSE = ~(n = TabChunks[i]) BY <1>3, <2>1
    <3> QED BY <3>1
  <2>2. CASE n # TabChunks[i]
    <3>1. TRUE = (n < TabChunks[i]) /\ TRUE = ~(n = TabChunks[i]) BY <1>2, <1>3, <2>2
    <3> QED BY <3>1
  <2> QED BY <2>1, <2>2
<1>6. tabBack' = [tabBack EXCEPT ![i].total = n, ![i].indexing = b] BY <1>4, <1>5
<1>7. /\ tabBack' \in [TabIds -> TabSession]
      /\ tabBack'[i].open = tabBack[i].open /\ tabBack'[i].total = n /\ tabBack'[i].indexing = b
      /\ \A j \in TabIds : j # i => tabBack'[j] = tabBack[j] BY <1>1, <1>3, <1>6 DEF TabSession
<1>8. TabSessionOk(i, tabBack'[i]) BY <1>2, <1>3, <1>5, <1>7 DEF TabSessionOk
<1>9. TabOpenIds(tabBack') = TabOpenIds(tabBack) BY <1>7 DEF TabOpenIds
<1>10. TabBackOk(tabBack')
  <2>1. TabBackOk(tabBack) BY DEF TabTypes
  <2>2. \A j \in TabIds : TabSessionOk(j, tabBack'[j]) BY <1>7, <1>8, <2>1 DEF TabBackOk
  <2> QED BY <1>7, <1>9, <2>1, <2>2 DEF TabBackOk
<1> DEFINE p == TabEvent("progress", i, n)
           t == tabEvents \o <<p>>
<1>11. p \in TabNews /\ p.ev = "progress" /\ p.id = i
  <2>1. \A m \in 1 .. TabChunks[i] : TabChunks[i] > 1 =>
          /\ TabEvent("progress", i, m) \in TabNews
          /\ TabEvent("progress", i, m).ev = "progress" /\ TabEvent("progress", i, m).id = i
    BY TabEventIs
  <2> QED BY <1>3, <2>1
<1>12. /\ t \in Seq(TabNews)
       /\ \A j \in TabIds : TabSamePlace(tabEvents, t, j) /\ (j # i => TabSameLines(tabEvents, t, j))
  <2> HIDE DEF p
  <2> QED BY <1>1, <1>11, TabOtherEvent
<1>13. CASE n # TabChunks[i]
  <2>1. tabEvents' = t \o <<>> BY <1>4, <1>13
  <2> HIDE DEF t
  <2>2. tabEvents' = t BY <1>12, <2>1
  <2> QED BY <1>2, <1>3, <1>7, <1>10, <1>12, <1>13, <2>2
<1>14. CASE n = TabChunks[i]
  <2> DEFINE c == TabEvent("complete", i, n)
  <2>1. tabEvents' = t \o <<c>> BY <1>4, <1>14
  <2>2. c \in TabNews /\ c.ev = "complete" /\ c.id = i BY <1>3, <1>14, TabEventIs
  <2> HIDE DEF t, c
  <2>3. /\ tabEvents' \in Seq(TabNews)
        /\ \A j \in TabIds : TabSamePlace(t, tabEvents', j) /\ (j # i => TabSameLines(t, tabEvents', j))
        /\ TabHas(tabEvents', "complete", i)
        /\ \A name \in {"opened", "progress"} : TabFollowed(tabEvents', i, name, "complete")
    BY <1>12, <2>1, <2>2, TabOtherEvent
  <2>4. \A j \in TabIds : TabSamePlace(tabEvents, tabEvents', j) /\ (j # i => TabSameLines(tabEvents, tabEvents', j))
    BY <1>12, <2>3 DEF TabSamePlace, TabSameLines
  <2> QED BY <1>2, <1>3, <1>7, <1>10, <2>3, <2>4
<1> QED BY <1>13, <1>14

LEMMA TabTypesCalls ==
    ASSUME TabTypes, NEW c \in 1 .. TabCalls, TabLoad(c) \/ TabLoaded(c) \/ TabProbe(c) \/ TabProbed(c)
    PROVE  TabTypes'
<1>1. CASE TabLoad(c)
  <2>1. TabCallsOk(tabOpen') /\ tabOpen[c].id \in TabIds BY <1>1, TabLoadIs DEF TabGoesOn
  <2>2. TabBackOk(tabBack') /\ tabEvents' \in Seq(TabNews)
    BY <1>1, <2>1, TabCreatedIs, TabStaleClosedIs DEF TabLoad
  <2> QED BY <1>1, <2>1, <2>2 DEF TabLoad, TabTypes, tabWindow
<1>2. CASE TabLoaded(c)
  <2>1. TabCallsOk(tabOpen') /\ tabGuard' \in [TabIds -> Nat] /\ TabWindowOk(tabEntry', tabOrder', tabFocus')
    BY <1>2, TabLoadedIs DEF TabGoesOn
  <2> QED BY <1>2, <2>1 DEF TabLoaded, TabTypes
<1>3. CASE TabProbe(c)
  <2>1. TabCallsOk(tabOpen') BY <1>3, TabProbeIs DEF TabGoesOn
  <2> QED BY <1>3, <2>1 DEF TabProbe, TabTypes, tabWindow
<1>4. CASE TabProbed(c)
  <2>1. TabCallsOk(tabOpen') /\ TabWindowOk(tabEntry', tabOrder', tabFocus')
    BY <1>4, TabProbedIs DEF TabGoesOn
  <2> QED BY <1>4, <2>1 DEF TabProbed, TabTypes
<1> QED BY <1>1, <1>2, <1>3, <1>4

LEMMA TabTypesBack ==
    ASSUME TabTypes, NEW i \in TabIds, TabAgentOpen(i) \/ TabAnnounced(i) \/ TabAgentClose(i) \/ TabIndex(i)
    PROVE  TabTypes'
<1>0. tabEvents \in Seq(TabNews) /\ TabBackOk(tabBack) BY DEF TabTypes
<1>1. CASE TabAgentOpen(i)
  <2>1. TabBackOk(tabBack') /\ tabEvents' \in Seq(TabNews)
    BY <1>1, TabCreatedIs, TabStaleClosedIs DEF TabAgentOpen
  <2> QED BY <1>1, <2>1 DEF TabAgentOpen, TabTypes, tabWindow, tabCalls
<1>2. CASE TabAnnounced(i)
  <2> DEFINE e == [ev |-> "opened", id |-> i, total |-> 1, indexing |-> TabChunks[i] > 1]
  <2>1. e \in TabNews BY TabEventIs
  <2>2. tabEvents' = Append(tabEvents, e) BY <1>2 DEF TabAnnounced
  <2> HIDE DEF e
  <2>3. tabEvents' \in Seq(TabNews) BY <1>0, <2>1, <2>2
  <2> QED BY <1>2, <2>3 DEF TabAnnounced, TabTypes, tabWindow, tabCalls
<1>3. CASE TabAgentClose(i)
  <2>1. TabEvent("closed", i, 0) \in TabNews BY TabEventIs
  <2>2. tabEvents' \in Seq(TabNews) BY <1>0, <1>3, <2>1 DEF TabAgentClose
  <2>3. TabBackOk(tabBack') BY <1>0, <1>3, TabShutIs DEF TabAgentClose
  <2> QED BY <1>3, <2>2, <2>3 DEF TabAgentClose, TabTypes, tabWindow, tabCalls
<1>4. CASE TabIndex(i)
  <2>1. TabBackOk(tabBack') /\ tabEvents' \in Seq(TabNews) BY <1>4, TabIndexIs
  <2> QED BY <1>4, <2>1 DEF TabIndex, TabTypes, tabWindow, tabCalls
<1> QED BY <1>1, <1>2, <1>3, <1>4

LEMMA TabTypesUser ==
    ASSUME TabTypes, NEW i \in TabIds,
           TabCloseSent(i) \/ TabClosed(i) \/ TabCloseAnswered(i) \/ TabFocused(i)
    PROVE  TabTypes'
<1>0. /\ tabEvents \in Seq(TabNews) /\ TabBackOk(tabBack) /\ TabWindowOk(tabEntry, tabOrder, tabFocus)
      /\ tabGuard \in [TabIds -> Nat] /\ tabClose \in [TabIds -> {"no", "sent", "answered"}]
      /\ tabPending \in SUBSET TabIds BY DEF TabTypes
<1>1. CASE TabCloseSent(i)
  <2>1. tabGuard' \in [TabIds -> Nat] /\ tabClose' \in [TabIds -> {"no", "sent", "answered"}]
        /\ tabPending' \in SUBSET TabIds BY <1>0, <1>1 DEF TabCloseSent
  <2> QED BY <1>1, <2>1 DEF TabCloseSent, TabTypes, tabWindow
<1>2. CASE TabClosed(i)
  <2>1. TabEvent("closed", i, 0) \in TabNews BY TabEventIs
  <2>2. tabEvents' \in Seq(TabNews) /\ tabClose' \in [TabIds -> {"no", "sent", "answered"}]
    BY <1>0, <1>2, <2>1 DEF TabClosed
  <2>3. TabBackOk(tabBack') BY <1>0, <1>2, TabShutIs DEF TabClosed
  <2> QED BY <1>2, <2>2, <2>3 DEF TabClosed, TabTypes, tabWindow
<1>3. CASE TabCloseAnswered(i)
  <2>1. tabClose' \in [TabIds -> {"no", "sent", "answered"}] BY <1>0, <1>3 DEF TabCloseAnswered
  <2>2. TabWindowOk(tabEntry', tabOrder', tabFocus') BY <1>0, <1>3, TabRemoveIs DEF TabCloseAnswered
  <2> QED BY <1>3, <2>1, <2>2 DEF TabCloseAnswered, TabTypes
<1>4. CASE TabFocused(i)
  <2>1. tabFocus' \in ToSet(tabOrder) /\ tabOrder # <<>> BY <1>4 DEF TabFocused, TabShown, ToSet
  <2>2. TabWindowOk(tabEntry, tabOrder, tabFocus') BY <1>0, <2>1 DEF TabWindowOk
  <2> QED BY <1>4, <2>2 DEF TabFocused, TabTypes, tabCalls
<1> QED BY <1>1, <1>2, <1>3, <1>4

LEMMA TabTypesNext == TabTypes /\ [TabNext]_tabVars => TabTypes'
<1> SUFFICES ASSUME TabTypes, [TabNext]_tabVars PROVE TabTypes' OBVIOUS
<1>1. CASE TabHear
  <2>1. tabEvents # <<>> /\ tabEvents' = Tail(tabEvents) /\ tabEvents \in Seq(TabNews)
    BY <1>1 DEF TabHear, TabTypes
  <2>2. tabEvents' \in Seq(TabNews) BY <2>1, TabHeadTail
  <2>3. TabWindowOk(tabEntry', tabOrder', tabFocus') /\ tabPending' \in SUBSET TabIds
    BY <1>1, TabHearIs
  <2> QED BY <1>1, <2>2, <2>3 DEF TabHear, TabTypes
<1>2. ASSUME NEW c \in 1 .. TabCalls, TabLoad(c) \/ TabLoaded(c) \/ TabProbe(c) \/ TabProbed(c) PROVE TabTypes'
  BY <1>2, TabTypesCalls
<1>3. ASSUME NEW c \in 1 .. TabCalls, NEW i \in TabIds, NEW replace \in BOOLEAN, TabOpenSent(c, i, replace)
      PROVE  TabTypes'
  <2>1. TabCallsOk(tabOpen') BY <1>3, TabOpenSentIs DEF TabGoesOn
  <2> QED BY <1>3, <2>1 DEF TabOpenSent, TabTypes, tabWindow
<1>4. ASSUME NEW i \in TabIds, TabAgentOpen(i) \/ TabAnnounced(i) \/ TabAgentClose(i) \/ TabIndex(i) PROVE TabTypes'
  BY <1>4, TabTypesBack
<1>5. ASSUME NEW i \in TabIds, TabCloseSent(i) \/ TabClosed(i) \/ TabCloseAnswered(i) \/ TabFocused(i)
      PROVE  TabTypes' BY <1>5, TabTypesUser
<1>6. CASE UNCHANGED tabVars BY <1>6 DEF tabVars, tabWindow, tabCalls, TabTypes
<1> QED BY <1>1, <1>2, <1>3, <1>4, <1>5, <1>6 DEF TabNext

\* Every reachable state is well formed: no session has two tabs, each tab
\* has an entry, and no total is over the chunks of the file (the order
\* and the entries of app/sessions.ts).
THEOREM TabTypeCorrect == TabSpec => []TabTypeOK
<1>1. TabTypes => TabTypeOK
  <2> SUFFICES ASSUME TabTypes PROVE TabTypeOK OBVIOUS
  <2>1. /\ TabBackOk(tabBack) /\ TabWindowOk(tabEntry, tabOrder, tabFocus) /\ tabPending \in SUBSET TabIds
    BY DEF TabTypes
  <2>2. /\ tabBack \in [TabIds -> [open : BOOLEAN, total : Nat, indexing : BOOLEAN]]
        /\ \A i \in TabIds : tabBack[i].total <= TabChunks[i]
    <3>1. /\ tabBack \in [TabIds -> TabSession] /\ \A i \in TabIds : TabSessionOk(i, tabBack[i])
          /\ \A i \in TabIds : TabChunks[i] \in Nat BY <2>1, TabAssumption DEF TabBackOk
    <3> QED BY <3>1 DEF TabSession, TabSessionOk
  <2>3. \A i \in TabIds : (tabEntry[i] # TabNoEntry) <=> (i \in ToSet(tabOrder))
    <3> SUFFICES ASSUME NEW i \in TabIds PROVE (tabEntry[i] # TabNoEntry) <=> (i \in ToSet(tabOrder))
      OBVIOUS
    <3>1. /\ tabEntry[i] \in TabLines /\ ((tabEntry[i].total # 0) <=> (i \in ToSet(tabOrder)))
          /\ tabEntry[i].total = 0 => ~tabEntry[i].indexing BY <2>1 DEF TabWindowOk
    <3>2. TabNoEntry \in TabLines /\ TabNoEntry.total = 0 /\ TabNoEntry.indexing = FALSE
      BY DEF TabNoEntry, TabLines
    <3>3. tabEntry[i] = TabNoEntry <=> tabEntry[i].total = 0 BY <3>1, <3>2 DEF TabLines, TabNoEntry
    <3> QED BY <3>1, <3>3
  <2>4. tabFocus \in TabIds \cup {TabNone} BY <2>1 DEF TabWindowOk, ToSet
  <2> QED BY <2>1, <2>2, <2>3, <2>4 DEF TabTypeOK, TabWindowOk
<1> QED BY <1>1, TabTypesInit, TabTypesNext, PTL DEF TabSpec

----------------------------------------
\* A session that is open has a tab that stays, or one is about to come;
\* the tab of one that is not is about to go.
TabCalm(i) == <<"close passed", i>> \notin tabGhost /\ <<"announced late", i>> \notin tabGhost
TabEchoed(i) == i \in tabPending => tabClose[i] = "sent" \/ TabHas(tabEvents, "closed", i)
TabPlace(i) ==
    /\ tabBack[i].open =>
         \/ TabDue(tabOpen, i) \/ i \in tabAnnounce \/ TabComes(tabEvents, i)
         \/ i \in ToSet(tabOrder) /\ ~TabSpare(tabEvents, i, tabPending)
    /\ ~tabBack[i].open =>
         /\ TabFollowed(tabEvents, i, "opened", "closed")
         /\ \/ TabSpare(tabEvents, i, tabPending) \/ tabClose[i] # "no"
            \/ i \notin ToSet(tabOrder) /\ ~TabHas(tabEvents, "opened", i)
TabPlaced(i) == TabEchoed(i) /\ (TabCalm(i) => TabPlace(i))

LEMMA TabSpareBy ==
    ASSUME NEW s, NEW i, NEW p, NEW q
    PROVE  /\ (i \in p <=> i \in q) => (TabSpare(s, i, p) <=> TabSpare(s, i, q))
           /\ (i \in p => i \in q) => (TabSpare(s, i, q) => TabSpare(s, i, p))
           /\ i \notin p => (TabSpare(s, i, p) <=> TabHas(s, "closed", i)) BY DEF TabSpare, TabHas

LEMMA TabFollowedHas ==
    ASSUME NEW s, NEW i, NEW name, NEW by, TabFollowed(s, i, name, by), TabHas(s, name, i) PROVE TabHas(s, by, i)
  BY DEF TabFollowed, TabHas

LEMMA TabSameIs ==
    ASSUME NEW s, NEW i PROVE TabSamePlace(s, s, i) /\ TabSameLines(s, s, i)
  BY DEF TabSamePlace, TabSameLines

TabSameElse(i) ==
    /\ tabGhost \subseteq tabGhost'
    /\ tabBack'[i].open <=> tabBack[i].open
    /\ i \in tabAnnounce' <=> i \in tabAnnounce
    /\ TabDue(tabOpen', i) <=> TabDue(tabOpen, i)
    /\ tabClose'[i] = tabClose[i]
    /\ i \in ToSet(tabOrder') <=> i \in ToSet(tabOrder)
    /\ i \in tabPending' <=> i \in tabPending

\* Nothing that matters for i.
LEMMA TabPlacedSame ==
    ASSUME NEW i, TabPlaced(i), TabSameElse(i), TabSamePlace(tabEvents, tabEvents', i)
    PROVE  TabPlaced(i)'
<1>1. TabCalm(i)' => TabCalm(i) BY DEF TabCalm, TabSameElse
<1>2. TabSpare(tabEvents', i, tabPending') <=> TabSpare(tabEvents, i, tabPending)
  <2>1. TabSpare(tabEvents', i, tabPending') <=> TabSpare(tabEvents', i, tabPending)
    BY TabSpareBy DEF TabSameElse
  <2> QED BY <2>1 DEF TabSamePlace
<1>3. /\ TabHas(tabEvents', "closed", i) <=> TabHas(tabEvents, "closed", i)
      /\ TabHas(tabEvents', "opened", i) <=> TabHas(tabEvents, "opened", i)
      /\ TabFollowed(tabEvents', i, "opened", "closed") <=> TabFollowed(tabEvents, i, "opened", "closed")
      /\ TabComes(tabEvents', i) <=> TabComes(tabEvents, i) BY DEF TabSamePlace
<1>4. TabEchoed(i)' BY <1>3 DEF TabEchoed, TabPlaced, TabSameElse
<1>5. TabPlace(i) => TabPlace(i)' BY <1>2, <1>3 DEF TabPlace, TabSameElse
<1> QED BY <1>1, <1>4, <1>5 DEF TabPlaced

\* i is closed, and the news of it is on its way.
LEMMA TabPlacedShut ==
    ASSUME NEW i, TabEchoed(i), ~tabBack'[i].open, TabHas(tabEvents', "closed", i),
           TabFollowed(tabEvents', i, "opened", "closed"),
           tabClose'[i] = tabClose[i] \/ tabClose'[i] = "answered", tabPending' = tabPending,
           i \notin tabPending \/ TabHas(tabEvents, "closed", i) => TabSpare(tabEvents', i, tabPending)
    PROVE  TabPlaced(i)'
<1>1. TabEchoed(i)' BY DEF TabEchoed
<1>2. TabSpare(tabEvents', i, tabPending') \/ tabClose'[i] # "no" BY DEF TabEchoed
<1>3. TabPlace(i)' BY <1>2 DEF TabPlace
<1> QED BY <1>1, <1>3 DEF TabPlaced

\* What the creation of a session makes of the others and of the events.
LEMMA TabCreates ==
    ASSUME TabTypes, NEW k \in TabIds, tabBack' = TabCreated(k), tabEvents' = TabStaleClosed(k)
    PROVE  /\ TabStale(k) \in SUBSET TabIds /\ IsFiniteSet(TabStale(k)) /\ k \notin TabStale(k)
           /\ tabBack'[k].open /\ tabBack'[k].total = 1 /\ \A j \in TabStale(k) : ~tabBack'[j].open
           /\ \A j \in TabIds \ {k} : j \notin TabStale(k) => tabBack'[j] = tabBack[j]
           /\ tabEvents \in Seq(TabNews) /\ tabEvents' = tabEvents \o TabCloses(TabStale(k))
<1>1. /\ TabStale(k) \in SUBSET TabIds /\ IsFiniteSet(TabStale(k)) /\ k \notin TabStale(k)
      /\ tabBack'[k].open /\ tabBack'[k].total = 1 /\ \A j \in TabStale(k) : ~tabBack'[j].open
      /\ \A j \in TabIds \ {k} : j \notin TabStale(k) => tabBack'[j] = tabBack[j] BY TabCreatedIs
<1>2. tabEvents \in Seq(TabNews) /\ tabEvents' = tabEvents \o TabCloses(TabStale(k))
  BY TabStaleClosedIs DEF TabTypes
<1> QED BY <1>1, <1>2

\* A session k is created.
LEMMA TabPlacedCreated ==
    ASSUME TabTypes, \A i \in TabIds : TabPlaced(i), NEW k \in TabIds,
           tabBack' = TabCreated(k), tabEvents' = TabStaleClosed(k),
           tabClose' = tabClose, tabOrder' = tabOrder, tabPending' = tabPending, tabGhost' = tabGhost,
           \A i \in TabIds : i # k => /\ i \in tabAnnounce' <=> i \in tabAnnounce
                                      /\ TabDue(tabOpen', i) <=> TabDue(tabOpen, i),
           k \in tabAnnounce' \/ TabDue(tabOpen', k)
    PROVE  \A i \in TabIds : TabPlaced(i)'
<1> SUFFICES ASSUME NEW i \in TabIds PROVE TabPlaced(i)' OBVIOUS
<1>1. /\ tabEvents \in Seq(TabNews) /\ TabStale(k) \in SUBSET TabIds /\ IsFiniteSet(TabStale(k))
      /\ k \notin TabStale(k) /\ tabEvents' = tabEvents \o TabCloses(TabStale(k))
      /\ tabBack'[k].open /\ \A j \in TabStale(k) : ~tabBack'[j].open
      /\ \A j \in TabIds \ {k} : j \notin TabStale(k) => tabBack'[j] = tabBack[j] BY TabCreates
<1>2. /\ i \notin TabStale(k) => TabSamePlace(tabEvents, tabEvents', i)
      /\ i \in TabStale(k) =>
           /\ TabHas(tabEvents', "closed", i) /\ TabFollowed(tabEvents', i, "opened", "closed")
           /\ i \notin tabPending \/ TabHas(tabEvents, "closed", i) => TabSpare(tabEvents', i, tabPending)
  BY <1>1, TabClosesSame
<1>3. TabPlaced(i) OBVIOUS
<1>4. CASE i = k
  <2>1. TabHas(tabEvents', "closed", i) <=> TabHas(tabEvents, "closed", i)
    BY <1>1, <1>2, <1>4 DEF TabSamePlace
  <2>2. TabEchoed(i)' BY <1>3, <2>1 DEF TabEchoed, TabPlaced
  <2>3. TabPlace(i)' BY <1>1, <1>4 DEF TabPlace
  <2> QED BY <2>2, <2>3 DEF TabPlaced
<1>5. CASE i \in TabStale(k)
  <2>1. TabEchoed(i) BY <1>3 DEF TabPlaced
  <2> QED BY <1>1, <1>2, <1>5, <2>1, TabPlacedShut
<1>6. CASE i # k /\ i \notin TabStale(k)
  <2>1. TabSameElse(i) BY <1>1, <1>6 DEF TabSameElse
  <2> QED BY <1>2, <1>3, <1>6, <2>1, TabPlacedSame
<1> QED BY <1>4, <1>5, <1>6

\* A session k is closed.
LEMMA TabPlacedClosed ==
    ASSUME TabTypes, \A i \in TabIds : TabPlaced(i), NEW k \in TabIds,
           tabBack' = [tabBack EXCEPT ![k] = TabShut],
           tabEvents' = Append(tabEvents, TabEvent("closed", k, 0)),
           tabClose'[k] = tabClose[k] \/ tabClose'[k] = "answered",
           \A i \in TabIds : i # k => tabClose'[i] = tabClose[i],
           tabOrder' = tabOrder, tabPending' = tabPending, tabGhost' = tabGhost,
           tabAnnounce' = tabAnnounce, tabOpen' = tabOpen
    PROVE  \A i \in TabIds : TabPlaced(i)'
<1> SUFFICES ASSUME NEW i \in TabIds PROVE TabPlaced(i)' OBVIOUS
<1> DEFINE e == TabEvent("closed", k, 0)
<1>1. e \in TabNews /\ e.ev = "closed" /\ e.id = k BY TabEventIs
<1>2. tabEvents \in Seq(TabNews) /\ TabBackOk(tabBack) BY DEF TabTypes
<1>3. tabEvents' = Append(tabEvents, e) OBVIOUS
<1> HIDE DEF e
<1>4. tabEvents' = tabEvents \o <<e>> BY <1>1, <1>2, <1>3
<1>5. ~tabBack'[k].open /\ \A j \in TabIds : j # k => tabBack'[j] = tabBack[j] BY <1>2, TabShutIs
<1>6. TabPlaced(i) OBVIOUS
<1>7. CASE i = k
  <2>1. /\ TabHas(tabEvents', "closed", i) /\ TabFollowed(tabEvents', i, "opened", "closed")
        /\ \A pending : TabSpare(tabEvents', i, pending) <=> i \notin pending \/ TabHas(tabEvents, "closed", i)
    BY <1>1, <1>2, <1>4, <1>7, TabOtherEvent
  <2>2. TabEchoed(i) BY <1>6 DEF TabPlaced
  <2> QED BY <1>5, <1>7, <2>1, <2>2, TabPlacedShut
<1>8. CASE i # k
  <2>1. TabSamePlace(tabEvents, tabEvents', i) BY <1>1, <1>2, <1>4, <1>8, TabOtherEvent
  <2>2. TabSameElse(i) BY <1>5, <1>8 DEF TabSameElse
  <2> QED BY <1>6, <2>1, <2>2, TabPlacedSame
<1> QED BY <1>7, <1>8

\* The steps of openPath.
LEMMA TabPlacedCalls ==
    ASSUME TabTypes, \A i \in TabIds : TabPlaced(i), NEW c \in 1 .. TabCalls,
           TabLoad(c) \/ TabLoaded(c) \/ TabProbe(c) \/ TabProbed(c)
    PROVE  \A i \in TabIds : TabPlaced(i)'
<1>0. PICK k : k = tabOpen[c].id OBVIOUS
<1>1. CASE TabLoad(c)
  <2>1. PICK o \in TabCalling : TabGoesOn(c, o) /\ o.pc = "loaded" /\ o.id = k /\ k \in TabIds
                                  /\ tabOpen[c].pc = "load" BY <1>0, <1>1, TabLoadIs
  <2>2. \A i : TabDue(tabOpen', i) <=> TabDue(tabOpen, i) \/ k = i BY <2>1, TabDueGoesOn
  <2>3. /\ tabBack' = TabCreated(k) /\ tabEvents' = TabStaleClosed(k)
        /\ tabClose' = tabClose /\ tabOrder' = tabOrder /\ tabPending' = tabPending /\ tabGhost' = tabGhost
        /\ tabAnnounce' = tabAnnounce BY <1>0, <1>1 DEF TabLoad, tabWindow, tabHist
  <2> QED BY <2>1, <2>2, <2>3, TabPlacedCreated
<1>2. CASE TabLoaded(c)
  <2>1. /\ k \in TabIds /\ tabOpen[c].pc = "loaded" /\ ToSet(tabOrder') = ToSet(tabOrder) \cup {k}
        /\ \E o \in TabCalling : TabGoesOn(c, o) /\ o.pc = "probe" BY <1>0, <1>2, TabLoadedIs
  <2>2. \A i : k # i => (TabDue(tabOpen', i) <=> TabDue(tabOpen, i)) BY <1>0, <2>1, TabDueGoesOn
  <2>3. /\ UNCHANGED <<tabBack, tabAnnounce, tabEvents, tabClose, tabPending>>
        /\ tabGhost' = IF TabPassed(k) THEN tabGhost \cup {<<"close passed", k>>} ELSE tabGhost
    BY <1>0, <1>2 DEF TabLoaded
  <2> SUFFICES ASSUME NEW i \in TabIds PROVE TabPlaced(i)' OBVIOUS
  <2>4. CASE i # k
    <3>1. TabSameElse(i) BY <2>1, <2>2, <2>3, <2>4 DEF TabSameElse
    <3>2. TabSamePlace(tabEvents, tabEvents', i) BY <2>3, TabSameIs
    <3> QED BY <3>1, <3>2, TabPlacedSame
  <2>5. CASE i = k
    <3>1. TabPlaced(k) BY <2>1
    <3>2. TabEchoed(k)' BY <2>3, <3>1 DEF TabEchoed, TabPlaced
    <3>3. ASSUME TabCalm(k)' PROVE TabPlace(k)'
      <4>1. TabCalm(k) /\ ~TabPassed(k) BY <2>3, <3>3 DEF TabCalm
      <4>2. TabPlace(k) BY <3>1, <4>1 DEF TabPlaced
      <4>3. /\ Cardinality(TabQueued("closed", k)) \in Nat
            /\ Cardinality(TabQueued("closed", k)) > (IF k \in tabPending THEN 1 ELSE 0)
                 <=> TabSpare(tabEvents, k, tabPending) BY TabSpareCount DEF TabTypes
      <4>4. /\ tabBack[k].open => ~TabSpare(tabEvents, k, tabPending)
            /\ ~tabBack[k].open => TabSpare(tabEvents, k, tabPending) BY <4>1, <4>3 DEF TabPassed
      <4> QED BY <2>1, <2>3, <4>2, <4>4 DEF TabPlace
    <3> QED BY <2>5, <3>2, <3>3 DEF TabPlaced
  <2> QED BY <2>4, <2>5
<1>3. CASE TabProbe(c) \/ TabProbed(c)
  <2>1. /\ tabOpen[c].pc # "loaded" /\ \E o \in TabCalling : TabGoesOn(c, o) /\ o.pc # "loaded"
    BY <1>3, TabProbeIs, TabProbedIs
  <2>2. \A i : TabDue(tabOpen', i) <=> TabDue(tabOpen, i) BY <2>1, TabDueGoesOn
  <2>3. /\ UNCHANGED <<tabBack, tabAnnounce, tabEvents, tabClose, tabPending>>
        /\ tabGhost \subseteq tabGhost' BY <1>3 DEF TabProbe, TabProbed, tabHist
  <2>4. ToSet(tabOrder') = ToSet(tabOrder)
    <3>1. CASE TabProbe(c) BY <3>1 DEF TabProbe, tabWindow
    <3>2. CASE TabProbed(c) BY <3>2, TabProbedIs
    <3> QED BY <1>3, <3>1, <3>2
  <2> SUFFICES ASSUME NEW i \in TabIds PROVE TabPlaced(i)' OBVIOUS
  <2>5. TabSameElse(i) BY <2>2, <2>3, <2>4 DEF TabSameElse
  <2>6. TabSamePlace(tabEvents, tabEvents', i) BY <2>3, TabSameIs
  <2> QED BY <2>5, <2>6, TabPlacedSame
<1> QED BY <1>1, <1>2, <1>3

\* The steps of the back end.
LEMMA TabPlacedBack ==
    ASSUME TabTypes, \A i \in TabIds : TabPlaced(i), NEW k \in TabIds,
           TabAgentOpen(k) \/ TabAnnounced(k) \/ TabAgentClose(k) \/ TabIndex(k)
    PROVE  \A i \in TabIds : TabPlaced(i)'
<1>1. CASE TabAgentOpen(k)
  <2>1. /\ tabBack' = TabCreated(k) /\ tabEvents' = TabStaleClosed(k)
        /\ tabClose' = tabClose /\ tabOrder' = tabOrder /\ tabPending' = tabPending /\ tabGhost' = tabGhost
        /\ tabAnnounce' = tabAnnounce \cup {k} /\ tabOpen' = tabOpen
    BY <1>1 DEF TabAgentOpen, tabWindow, tabCalls
  <2> QED BY <2>1, TabPlacedCreated
<1>2. CASE TabAnnounced(k)
  <2> DEFINE e == [ev |-> "opened", id |-> k, total |-> 1, indexing |-> TabChunks[k] > 1]
  <2>1. e \in TabNews /\ e.ev = "opened" /\ e.id = k BY TabEventIs
  <2>2. /\ tabEvents' = Append(tabEvents, e) /\ tabAnnounce' = tabAnnounce \ {k}
        /\ UNCHANGED <<tabBack, tabOrder, tabOpen, tabClose, tabPending>>
        /\ tabGhost \subseteq tabGhost'
        /\ ~tabBack[k].open => <<"announced late", k>> \in tabGhost'
    BY <1>2 DEF TabAnnounced, tabWindow, tabCalls
  <2> HIDE DEF e
  <2>3. tabEvents \in Seq(TabNews) BY DEF TabTypes
  <2>4. tabEvents' = tabEvents \o <<e>>
    <3>1. e \in TabNews /\ tabEvents' = Append(tabEvents, e) BY <2>1, <2>2
    <3> QED BY <2>3, <3>1
  <2> SUFFICES ASSUME NEW i \in TabIds PROVE TabPlaced(i)' OBVIOUS
  <2>5. CASE i # k
    <3>1. TabSamePlace(tabEvents, tabEvents', i) BY <2>1, <2>3, <2>4, <2>5, TabOtherEvent
    <3>2. TabSameElse(i) BY <2>2, <2>5 DEF TabSameElse
    <3> QED BY <3>1, <3>2, TabPlacedSame
  <2>6. CASE i = k
    <3>1. TabComes(tabEvents', k) /\ (TabHas(tabEvents, "closed", k) => TabHas(tabEvents', "closed", k))
      BY <2>1, <2>3, <2>4, TabOtherEvent
    <3>2. TabEchoed(k)' BY <2>2, <3>1 DEF TabEchoed, TabPlaced
    <3>3. TabCalm(k)' => TabPlace(k)' BY <2>2, <3>1 DEF TabCalm, TabPlace
    <3> QED BY <2>6, <3>2, <3>3 DEF TabPlaced
  <2> QED BY <2>5, <2>6
<1>3. CASE TabAgentClose(k)
  <2>1. /\ tabBack' = [tabBack EXCEPT ![k] = TabShut]
        /\ tabEvents' = Append(tabEvents, TabEvent("closed", k, 0))
        /\ tabClose' = tabClose /\ tabOrder' = tabOrder /\ tabPending' = tabPending /\ tabGhost' = tabGhost
        /\ tabAnnounce' = tabAnnounce /\ tabOpen' = tabOpen
    BY <1>3 DEF TabAgentClose, tabWindow, tabCalls
  <2> QED BY <2>1, TabPlacedClosed
<1>4. CASE TabIndex(k)
  <2> SUFFICES ASSUME NEW i \in TabIds PROVE TabPlaced(i)' OBVIOUS
  <2>1. /\ TabSamePlace(tabEvents, tabEvents', i) /\ tabBack[k].open /\ tabBack'[k].open
        /\ i # k => tabBack'[i] = tabBack[i] BY <1>4, TabIndexIs
  <2>2. UNCHANGED <<tabAnnounce, tabOrder, tabOpen, tabClose, tabPending, tabGhost>>
    BY <1>4 DEF TabIndex, tabWindow, tabCalls, tabHist
  <2>3. TabSameElse(i) BY <2>1, <2>2 DEF TabSameElse
  <2> QED BY <2>1, <2>3, TabPlacedSame
<1> QED BY <1>1, <1>2, <1>3, <1>4

\* The steps of the user.
LEMMA TabPlacedUser ==
    ASSUME TabTypes, \A i \in TabIds : TabPlaced(i), NEW k \in TabIds,
           TabCloseSent(k) \/ TabClosed(k) \/ TabCloseAnswered(k) \/ TabFocused(k)
    PROVE  \A i \in TabIds : TabPlaced(i)'
<1>0. tabClose \in [TabIds -> {"no", "sent", "answered"}] /\ TabWindowOk(tabEntry, tabOrder, tabFocus)
  BY DEF TabTypes
<1>1. CASE TabCloseSent(k)
  <2>1. /\ UNCHANGED <<tabBack, tabAnnounce, tabEvents, tabOrder, tabOpen, tabGhost>>
        /\ tabPending' = tabPending \cup {k} /\ tabClose'[k] = "sent"
        /\ \A i \in TabIds : i # k => tabClose'[i] = tabClose[i]
    BY <1>0, <1>1 DEF TabCloseSent, tabWindow
  <2> SUFFICES ASSUME NEW i \in TabIds PROVE TabPlaced(i)' OBVIOUS
  <2>2. CASE i # k
    <3>1. TabSameElse(i) BY <2>1, <2>2 DEF TabSameElse
    <3>2. TabSamePlace(tabEvents, tabEvents', i) BY <2>1, TabSameIs
    <3> QED BY <3>1, <3>2, TabPlacedSame
  <2>3. CASE i = k
    <3>1. TabEchoed(k)' BY <2>1 DEF TabEchoed
    <3>2. ~TabSpare(tabEvents, k, tabPending) => ~TabSpare(tabEvents, k, tabPending')
      BY <2>1, TabSpareBy
    <3>3. TabCalm(k)' => TabPlace(k) BY <2>1 DEF TabPlaced, TabCalm
    <3>4. TabPlace(k) => TabPlace(k)' BY <2>1, <3>2 DEF TabPlace
    <3> QED BY <2>3, <3>1, <3>3, <3>4 DEF TabPlaced
  <2> QED BY <2>2, <2>3
<1>2. CASE TabClosed(k)
  <2>1. /\ tabBack' = [tabBack EXCEPT ![k] = TabShut]
        /\ tabEvents' = Append(tabEvents, TabEvent("closed", k, 0))
        /\ tabOrder' = tabOrder /\ tabPending' = tabPending /\ tabGhost' = tabGhost
        /\ tabAnnounce' = tabAnnounce /\ tabOpen' = tabOpen
        /\ tabClose'[k] = "answered" /\ \A i \in TabIds : i # k => tabClose'[i] = tabClose[i]
    BY <1>0, <1>2 DEF TabClosed, tabWindow, tabHist
  <2> QED BY <2>1, TabPlacedClosed
<1>3. CASE TabCloseAnswered(k)
  <2>1. /\ UNCHANGED <<tabBack, tabAnnounce, tabEvents, tabOpen, tabPending>>
        /\ tabClose[k] = "answered" /\ \A i \in TabIds : i # k => tabClose'[i] = tabClose[i]
        /\ tabGhost \subseteq tabGhost'
        /\ tabBack[k].open \/ TabQueued("opened", k) # {} => <<"close passed", k>> \in tabGhost'
    BY <1>0, <1>3 DEF TabCloseAnswered
  <2>2. ToSet(tabOrder') = ToSet(tabOrder) \ {k} BY <1>0, <1>3, TabRemoveIs DEF TabCloseAnswered
  <2>3. TabQueued("opened", k) = {} => ~TabHas(tabEvents, "opened", k)
    BY DEF TabQueued, TabHas, TabIs
  <2> SUFFICES ASSUME NEW i \in TabIds PROVE TabPlaced(i)' OBVIOUS
  <2>4. CASE i # k
    <3>1. TabSameElse(i) BY <2>1, <2>2, <2>4 DEF TabSameElse
    <3>2. TabSamePlace(tabEvents, tabEvents', i) BY <2>1, TabSameIs
    <3> QED BY <3>1, <3>2, TabPlacedSame
  <2>5. CASE i = k
    <3>1. TabEchoed(k)' BY <2>1 DEF TabEchoed, TabPlaced
    <3>2. ASSUME TabCalm(k)' PROVE TabPlace(k)'
      <4>1. TabCalm(k) /\ ~tabBack[k].open /\ ~TabHas(tabEvents, "opened", k)
        BY <2>1, <2>3, <3>2 DEF TabCalm
      <4>2. TabPlace(k) BY <4>1 DEF TabPlaced
      <4> QED BY <2>1, <2>2, <4>1, <4>2 DEF TabPlace
    <3> QED BY <2>5, <3>1, <3>2 DEF TabPlaced
  <2> QED BY <2>4, <2>5
<1>4. CASE TabFocused(k)
  <2>1. UNCHANGED <<tabBack, tabAnnounce, tabEvents, tabOrder, tabOpen, tabClose, tabPending, tabGhost>>
    BY <1>4 DEF TabFocused, tabCalls
  <2> SUFFICES ASSUME NEW i \in TabIds PROVE TabPlaced(i)' OBVIOUS
  <2>2. TabSameElse(i) /\ TabSamePlace(tabEvents, tabEvents', i) BY <2>1, TabSameIs DEF TabSameElse
  <2> QED BY <2>2, TabPlacedSame
<1> QED BY <1>1, <1>2, <1>3, <1>4

\* An event is heard.
LEMMA TabPlacedHear ==
    ASSUME TabTypes, \A i \in TabIds : TabPlaced(i), TabHear
    PROVE  \A i \in TabIds : TabPlaced(i)'
<1>0. PICK e, k : e = Head(tabEvents) /\ k = e.id OBVIOUS
<1>1. /\ tabEvents # <<>> /\ tabEvents' = Tail(tabEvents) /\ k \in TabIds
      /\ e.ev \in {"opened", "progress", "complete", "closed"}
      /\ \A j \in TabIds : j # k => /\ j \in ToSet(tabOrder') <=> j \in ToSet(tabOrder)
                                    /\ j \in tabPending' <=> j \in tabPending
      /\ e.ev = "opened" => k \in ToSet(tabOrder')
      /\ e.ev \in {"progress", "complete"} => ToSet(tabOrder') = ToSet(tabOrder)
      /\ e.ev = "closed" => /\ k \in tabPending => tabOrder' = tabOrder
                            /\ k \notin tabPending => k \notin ToSet(tabOrder')
                            /\ k \notin tabPending'
      /\ e.ev # "closed" => tabPending' = tabPending BY <1>0, TabHearIs
<1>2. UNCHANGED <<tabBack, tabAnnounce, tabOpen, tabClose, tabGhost>> BY DEF TabHear, tabHist
<1>3. tabEvents \in Seq(TabNews) BY DEF TabTypes
<1>4. TabPlaced(k) /\ (TabCalm(k)' <=> TabCalm(k)) BY <1>1, <1>2 DEF TabCalm
<1> DEFINE s == tabEvents
           t == tabEvents'
<1>5. /\ \A i : e.id # i => TabSamePlace(s, t, i)
      /\ e.ev \in {"progress", "complete"} => TabSamePlace(s, t, k)
      /\ TabFollowed(s, k, "opened", "closed") => TabFollowed(t, k, "opened", "closed")
      /\ e.ev = "closed" =>
           /\ TabComes(s, k) <=> TabComes(t, k)
           /\ TabHas(s, "opened", k) <=> TabHas(t, "opened", k)
           /\ \A pending : TabSpare(s, k, pending) <=> k \notin pending \/ TabHas(t, "closed", k)
      /\ e.ev = "opened" =>
           /\ TabHas(s, "closed", k) <=> TabHas(t, "closed", k)
           /\ TabComes(s, k) <=> TabComes(t, k) \/ ~TabHas(t, "closed", k)
           /\ \A pending : TabSpare(s, k, pending) <=> TabSpare(t, k, pending)
           /\ TabHas(s, "opened", k)
      /\ \A pending : TabSpare(t, k, pending) => TabHas(t, "closed", k)
  BY <1>0, <1>1, <1>3, TabHeard
<1>6. /\ k \notin tabPending' => (TabSpare(t, k, tabPending') <=> TabHas(t, "closed", k))
      /\ TabFollowed(t, k, "opened", "closed") /\ TabHas(t, "opened", k) => TabHas(t, "closed", k)
  BY TabSpareBy, TabFollowedHas
<1> SUFFICES ASSUME NEW i \in TabIds PROVE TabPlaced(i)' OBVIOUS
<1>7. CASE i # k
  <2>1. TabSameElse(i) BY <1>1, <1>2, <1>7 DEF TabSameElse
  <2>2. TabSamePlace(tabEvents, tabEvents', i) BY <1>0, <1>5, <1>7
  <2> QED BY <2>1, <2>2, TabPlacedSame
<1>8. CASE i = k /\ e.ev \in {"progress", "complete"}
  <2>1. TabSameElse(i) BY <1>1, <1>2, <1>8 DEF TabSameElse
  <2> QED BY <1>5, <1>8, <2>1, TabPlacedSame
<1>9. CASE i = k /\ e.ev = "opened"
  <2>1. TabEchoed(k)' BY <1>1, <1>2, <1>4, <1>5, <1>9 DEF TabPlaced, TabEchoed
  <2>2. TabPlace(k) => TabPlace(k)' BY <1>1, <1>2, <1>5, <1>9 DEF TabPlace
  <2> QED BY <1>4, <1>9, <2>1, <2>2 DEF TabPlaced
<1>10. CASE i = k /\ e.ev = "closed"
  <2>1. TabEchoed(k)' BY <1>1, <1>10 DEF TabEchoed
  <2>2. TabPlace(k) => TabPlace(k)'
    <3>1. CASE k \in tabPending BY <1>1, <1>2, <1>5, <1>6, <1>10, <3>1 DEF TabPlace
    <3>2. CASE k \notin tabPending BY <1>1, <1>2, <1>5, <1>6, <1>10, <3>2 DEF TabPlace
    <3> QED BY <3>1, <3>2
  <2> QED BY <1>4, <1>10, <2>1, <2>2 DEF TabPlaced
<1> QED BY <1>1, <1>7, <1>8, <1>9, <1>10

LEMMA TabPlacedNext ==
    TabTypes /\ (\A i \in TabIds : TabPlaced(i)) /\ [TabNext]_tabVars => \A i \in TabIds : TabPlaced(i)'
<1> SUFFICES ASSUME TabTypes, \A i \in TabIds : TabPlaced(i), [TabNext]_tabVars
             PROVE  \A i \in TabIds : TabPlaced(i)'
  OBVIOUS
<1>1. CASE TabHear BY <1>1, TabPlacedHear
<1>2. ASSUME NEW c \in 1 .. TabCalls, TabLoad(c) \/ TabLoaded(c) \/ TabProbe(c) \/ TabProbed(c)
      PROVE  \A i \in TabIds : TabPlaced(i)' BY <1>2, TabPlacedCalls
<1>3. ASSUME NEW c \in 1 .. TabCalls, NEW k \in TabIds, NEW replace \in BOOLEAN, TabOpenSent(c, k, replace)
      PROVE  \A i \in TabIds : TabPlaced(i)'
  <2>1. /\ tabOpen[c].pc # "loaded" /\ \E o \in TabCalling : TabGoesOn(c, o) /\ o.pc # "loaded"
    BY <1>3, TabOpenSentIs
  <2>2. \A i : TabDue(tabOpen', i) <=> TabDue(tabOpen, i) BY <2>1, TabDueGoesOn
  <2>3. UNCHANGED <<tabBack, tabAnnounce, tabEvents, tabOrder, tabClose, tabPending, tabGhost>>
    BY <1>3 DEF TabOpenSent, tabWindow, tabHist
  <2> SUFFICES ASSUME NEW i \in TabIds PROVE TabPlaced(i)' OBVIOUS
  <2>4. TabSameElse(i) /\ TabSamePlace(tabEvents, tabEvents', i)
    BY <2>2, <2>3, TabSameIs DEF TabSameElse
  <2> QED BY <2>4, TabPlacedSame
<1>4. ASSUME NEW k \in TabIds, TabAgentOpen(k) \/ TabAnnounced(k) \/ TabAgentClose(k) \/ TabIndex(k)
      PROVE  \A i \in TabIds : TabPlaced(i)' BY <1>4, TabPlacedBack
<1>5. ASSUME NEW k \in TabIds, TabCloseSent(k) \/ TabClosed(k) \/ TabCloseAnswered(k) \/ TabFocused(k)
      PROVE  \A i \in TabIds : TabPlaced(i)' BY <1>5, TabPlacedUser
<1>6. CASE UNCHANGED tabVars
  <2>1. UNCHANGED <<tabBack, tabAnnounce, tabEvents, tabOrder, tabOpen, tabClose, tabPending, tabGhost>>
    BY <1>6 DEF tabVars, tabWindow, tabCalls, tabHist
  <2> SUFFICES ASSUME NEW i \in TabIds PROVE TabPlaced(i)' OBVIOUS
  <2>2. TabSameElse(i) /\ TabSamePlace(tabEvents, tabEvents', i) BY <2>1, TabSameIs DEF TabSameElse
  <2> QED BY <2>2, TabPlacedSame
<1> QED BY <1>1, <1>2, <1>3, <1>4, <1>5, <1>6 DEF TabNext

----------------------------------------
\* The tab of a session that is indexed has all its lines, or is about to.
TabClear(i) == \A g \in tabGhost : g[2] # i
TabDone(i) == tabBack[i].open /\ tabBack[i].total = TabChunks[i] /\ TabChunks[i] > 1
TabProbing(open, guard, i) ==
    \E c \in 1 .. TabCalls :
      /\ open[c].id = i /\ open[c].token = guard[i]
      /\ open[c].pc = "probe" \/ (open[c].pc = "probed" /\ open[c].total = TabChunks[i])
TabFull(i) == i \in ToSet(tabOrder) /\ tabEntry[i].total = TabChunks[i] /\ ~tabEntry[i].indexing
TabWhole(i) ==
    /\ TabFollowed(tabEvents, i, "progress", "complete") /\ TabFollowed(tabEvents, i, "opened", "complete")
    /\ \/ TabHas(tabEvents, "complete", i) \/ TabDue(tabOpen, i) \/ i \in tabAnnounce \/ tabClose[i] = "sent"
       \/ TabProbing(tabOpen, tabGuard, i) \/ TabFull(i)
TabLined(i) == TabClear(i) /\ TabDone(i) => TabWhole(i)

LEMMA TabClearCalm == ASSUME NEW i, TabClear(i) PROVE TabCalm(i)
<1>1. ASSUME NEW x, <<x, i>> \in tabGhost PROVE FALSE BY <1>1 DEF TabClear
<1> QED BY <1>1 DEF TabCalm

LEMMA TabProbingGoesOn ==
    ASSUME NEW c \in 1 .. TabCalls, NEW o, TabGoesOn(c, o), NEW i, tabGuard'[i] = tabGuard[i],
           \/ tabOpen[c].id # i \/ tabOpen[c].pc \notin {"probe", "probed"}
           \/ tabOpen[c].token # tabGuard[i]
           \/ o.id = i /\ o.token = tabOpen[c].token /\ o.pc = "probed" /\ o.total = TabChunks[i],
           TabProbing(tabOpen, tabGuard, i)
    PROVE  TabProbing(tabOpen', tabGuard', i)
<1>1. PICK d \in 1 .. TabCalls :
        /\ tabOpen[d].id = i /\ tabOpen[d].token = tabGuard[i]
        /\ tabOpen[d].pc = "probe" \/ (tabOpen[d].pc = "probed" /\ tabOpen[d].total = TabChunks[i])
  BY DEF TabProbing
<1>2. CASE d = c BY <1>1, <1>2 DEF TabProbing, TabGoesOn
<1>3. CASE d # c BY <1>1, <1>3 DEF TabProbing, TabGoesOn
<1> QED BY <1>2, <1>3

\* Nothing is lost of what i waits for.
TabKept(i) ==
    /\ tabGhost \subseteq tabGhost' /\ tabBack'[i] = tabBack[i]
    /\ i \in tabAnnounce => i \in tabAnnounce'
    /\ TabDue(tabOpen, i) => TabDue(tabOpen', i)
    /\ tabClose[i] = "sent" => tabClose'[i] = "sent"
    /\ TabDone(i) /\ TabProbing(tabOpen, tabGuard, i) => TabProbing(tabOpen', tabGuard', i)
    /\ i \in ToSet(tabOrder) => i \in ToSet(tabOrder') /\ tabEntry'[i] = tabEntry[i]

LEMMA TabLinedSame ==
    ASSUME NEW i, TabLined(i), TabKept(i), TabSameLines(tabEvents, tabEvents', i)
    PROVE  TabLined(i)'
<1>1. (TabClear(i)' => TabClear(i)) /\ (TabDone(i)' <=> TabDone(i)) /\ (TabFull(i) => TabFull(i)')
  BY DEF TabClear, TabDone, TabFull, TabKept
<1>2. /\ TabHas(tabEvents', "complete", i) <=> TabHas(tabEvents, "complete", i)
      /\ TabFollowed(tabEvents', i, "opened", "complete") <=> TabFollowed(tabEvents, i, "opened", "complete")
      /\ TabFollowed(tabEvents', i, "progress", "complete") <=> TabFollowed(tabEvents, i, "progress", "complete")
  BY DEF TabSameLines
<1>3. TabDone(i) /\ TabWhole(i) => TabWhole(i)' BY <1>1, <1>2 DEF TabWhole, TabKept
<1> QED BY <1>1, <1>3 DEF TabLined

\* A session without a tab is about to get one.
LEMMA TabAwaited ==
    ASSUME NEW i, TabPlaced(i), TabClear(i), tabBack[i].open, i \notin ToSet(tabOrder)
    PROVE  TabDue(tabOpen, i) \/ i \in tabAnnounce \/ TabHas(tabEvents, "opened", i)
<1>1. TabPlace(i) BY TabClearCalm DEF TabPlaced
<1>2. TabComes(tabEvents, i) => TabHas(tabEvents, "opened", i) BY DEF TabComes, TabHas
<1> QED BY <1>1, <1>2 DEF TabPlace

\* Sessions are created and closed.
LEMMA TabLinedCreated ==
    ASSUME TabTypes, NEW k \in TabIds, tabBack' = TabCreated(k), tabEvents' = TabStaleClosed(k),
           NEW i \in TabIds, TabLined(i), tabBack'[i] = tabBack[i] => TabKept(i)
    PROVE  TabLined(i)'
<1>1. /\ tabEvents \in Seq(TabNews) /\ TabStale(k) \in SUBSET TabIds /\ IsFiniteSet(TabStale(k))
      /\ tabEvents' = tabEvents \o TabCloses(TabStale(k)) /\ tabBack'[k].total = 1
      /\ \A j \in TabStale(k) : ~tabBack'[j].open
      /\ \A j \in TabIds \ {k} : j \notin TabStale(k) => tabBack'[j] = tabBack[j] BY TabCreates
<1>2. CASE i = k \/ i \in TabStale(k)
  <2>1. ~TabDone(i)' BY <1>1, <1>2 DEF TabDone
  <2> QED BY <2>1 DEF TabLined
<1>3. CASE i # k /\ i \notin TabStale(k)
  <2>1. TabSameLines(tabEvents, tabEvents', i) BY <1>1, TabClosesSame
  <2> QED BY <1>1, <1>3, <2>1, TabLinedSame
<1> QED BY <1>2, <1>3

LEMMA TabLinedClosed ==
    ASSUME TabTypes, NEW k \in TabIds, tabBack' = [tabBack EXCEPT ![k] = TabShut],
           tabEvents' = Append(tabEvents, TabEvent("closed", k, 0)),
           NEW i \in TabIds, TabLined(i), i # k => TabKept(i)
    PROVE  TabLined(i)'
<1>1. tabEvents \in Seq(TabNews) /\ ~tabBack'[k].open BY TabShutIs DEF TabTypes
<1>2. CASE i = k
  <2>1. ~TabDone(i)' BY <1>1, <1>2 DEF TabDone
  <2> QED BY <2>1 DEF TabLined
<1>3. CASE i # k
  <2>1. PICK e \in TabNews : e = TabEvent("closed", k, 0) /\ e.ev = "closed"
    <3>1. TabEvent("closed", k, 0) \in TabNews /\ TabEvent("closed", k, 0).ev = "closed"
      BY TabEventIs
    <3> QED BY <3>1
  <2>2. tabEvents' = tabEvents \o <<e>>
    <3>1. tabEvents' = Append(tabEvents, e) BY <2>1
    <3> QED BY <1>1, <3>1
  <2>3. TabSameLines(tabEvents, tabEvents', i) BY <1>1, <2>1, <2>2, TabOtherEvent
  <2> QED BY <1>3, <2>3, TabLinedSame
<1> QED BY <1>2, <1>3

\* The steps of openPath.
LEMMA TabLinedCalls ==
    ASSUME TabTypes, NEW c \in 1 .. TabCalls,
           TabLoad(c) \/ TabLoaded(c) \/ TabProbe(c) \/ TabProbed(c),
           NEW i \in TabIds, TabPlaced(i), TabLined(i)
    PROVE  TabLined(i)'
<1>0. PICK k : k = tabOpen[c].id OBVIOUS
<1>1. CASE TabLoad(c)
  <2>1. PICK o \in TabCalling : TabGoesOn(c, o) /\ o.pc = "loaded" /\ o.id = k /\ k \in TabIds
                                  /\ tabOpen[c].pc = "load" BY <1>0, <1>1, TabLoadIs
  <2>2. TabDue(tabOpen, i) => TabDue(tabOpen', i) BY <2>1, TabDueGoesOn
  <2>3. /\ tabBack' = TabCreated(k) /\ tabEvents' = TabStaleClosed(k)
        /\ UNCHANGED <<tabClose, tabEntry, tabOrder, tabGuard, tabGhost, tabAnnounce>>
    BY <1>0, <1>1 DEF TabLoad, tabWindow, tabHist
  <2>4. tabGuard'[i] = tabGuard[i] /\ tabOpen[c].pc \notin {"probe", "probed"} BY <2>1, <2>3
  <2>5. TabProbing(tabOpen, tabGuard, i) => TabProbing(tabOpen', tabGuard', i)
    BY <2>1, <2>4, TabProbingGoesOn
  <2>6. tabBack'[i] = tabBack[i] => TabKept(i) BY <2>2, <2>3, <2>5 DEF TabKept
  <2> QED BY <2>1, <2>3, <2>6, TabLinedCreated
<1>2. CASE TabLoaded(c)
  <2>1. PICK o \in TabCalling :
          /\ TabGoesOn(c, o) /\ o.pc = "probe" /\ o.id = k /\ o.token = tabGuard'[k]
          /\ k \in TabIds /\ tabOpen[c].pc = "loaded" BY <1>0, <1>2, TabLoadedIs
  <2>2. /\ \A j \in TabIds : j # k => tabGuard'[j] = tabGuard[j]
        /\ ToSet(tabOrder') = ToSet(tabOrder) \cup {k}
        /\ \A j \in TabIds : j # k => (j \in ToSet(tabOrder) => tabEntry'[j] = tabEntry[j])
    BY <1>0, <1>2, TabLoadedIs
  <2>3. UNCHANGED <<tabBack, tabAnnounce, tabEvents, tabClose>> /\ tabGhost \subseteq tabGhost'
    BY <1>2 DEF TabLoaded
  <2>4. CASE i # k
    <3>1. TabDue(tabOpen, i) => TabDue(tabOpen', i) BY <1>0, <2>1, <2>4, TabDueGoesOn
    <3>2. tabGuard'[i] = tabGuard[i] BY <2>2, <2>4
    <3>3. TabProbing(tabOpen, tabGuard, i) => TabProbing(tabOpen', tabGuard', i)
      BY <1>0, <2>1, <2>4, <3>2, TabProbingGoesOn
    <3>4. TabKept(i) BY <2>2, <2>3, <2>4, <3>1, <3>3 DEF TabKept
    <3> QED BY <2>3, <3>4, TabSameIs, TabLinedSame
  <2>5. CASE i = k
    <3>1. TabProbing(tabOpen', tabGuard', i) BY <2>1, <2>5 DEF TabProbing, TabGoesOn
    <3>2. (TabClear(i)' => TabClear(i)) /\ (TabDone(i)' <=> TabDone(i))
      BY <2>3 DEF TabClear, TabDone
    <3>3. TabWhole(i) => TabWhole(i)' BY <2>3, <3>1 DEF TabWhole
    <3> QED BY <3>2, <3>3 DEF TabLined
  <2> QED BY <2>4, <2>5
<1>3. CASE TabProbe(c)
  <2>1. PICK o \in TabCalling :
          /\ TabGoesOn(c, o) /\ o.id = k /\ o.token = tabOpen[c].token /\ o.pc \in {"probed", "over"}
          /\ tabBack[k].open => o.pc = "probed" /\ o.total = tabBack[k].total
          /\ tabOpen[c].pc = "probe" BY <1>0, <1>3, TabProbeIs
  <2>2. UNCHANGED <<tabBack, tabAnnounce, tabEvents, tabClose, tabGhost, tabGuard, tabEntry, tabOrder>>
    BY <1>3 DEF TabProbe, tabWindow, tabHist
  <2>3. TabDue(tabOpen, i) => TabDue(tabOpen', i) BY <2>1, TabDueGoesOn
  <2>4. tabGuard'[i] = tabGuard[i] BY <2>2
  <2>5. TabDone(i) /\ TabProbing(tabOpen, tabGuard, i) => TabProbing(tabOpen', tabGuard', i)
    <3>1. SUFFICES ASSUME TabDone(i), TabProbing(tabOpen, tabGuard, i)
                   PROVE  TabProbing(tabOpen', tabGuard', i)
      OBVIOUS
    <3>2. i = k => o.pc = "probed" /\ o.total = TabChunks[i] BY <2>1, <3>1 DEF TabDone
    <3> QED BY <1>0, <2>1, <2>4, <3>1, <3>2, TabProbingGoesOn
  <2>6. TabKept(i) BY <2>2, <2>3, <2>5 DEF TabKept
  <2> QED BY <2>2, <2>6, TabSameIs, TabLinedSame
<1>4. CASE TabProbed(c)
  <2>1. PICK o \in TabCalling : TabGoesOn(c, o) /\ o.pc = "over" /\ tabOpen[c].pc = "probed"
    BY <1>4, TabProbedIs
  <2>2. /\ ToSet(tabOrder') = ToSet(tabOrder) /\ tabOpen[c].total \in 1 .. TabChunks[k]
        /\ \A j \in TabIds : j # k \/ tabOpen[c].token # tabGuard[k] => tabEntry'[j] = tabEntry[j]
        /\ tabOpen[c].token = tabGuard[k] /\ k \in ToSet(tabOrder) =>
             tabEntry'[k].total = tabOpen[c].total /\ ~tabEntry'[k].indexing
    BY <1>0, <1>4, TabProbedIs
  <2>3. /\ UNCHANGED <<tabBack, tabAnnounce, tabEvents, tabClose, tabGuard>> /\ tabGhost \subseteq tabGhost'
        /\ tabOpen[c].token = tabGuard[k] /\ tabOpen[c].total < tabBack[k].total
             /\ TabQueued("complete", k) = {} => <<"probe passed", k>> \in tabGhost'
    BY <1>0, <1>4 DEF TabProbed
  <2>4. TabDue(tabOpen, i) => TabDue(tabOpen', i) BY <2>1, TabDueGoesOn
  <2>5. tabGuard'[i] = tabGuard[i] BY <2>3
  <2>6. CASE i # k \/ tabOpen[c].token # tabGuard[k]
    <3>1. TabProbing(tabOpen, tabGuard, i) => TabProbing(tabOpen', tabGuard', i)
      BY <1>0, <2>1, <2>5, <2>6, TabProbingGoesOn
    <3>2. TabKept(i) BY <2>2, <2>3, <2>4, <2>6, <3>1 DEF TabKept
    <3> QED BY <2>3, <3>2, TabSameIs, TabLinedSame
  <2>7. CASE i = k /\ tabOpen[c].token = tabGuard[k]
    <3> SUFFICES ASSUME TabClear(i)', TabDone(i)' PROVE TabWhole(i)' BY DEF TabLined
    <3>1. TabClear(i) /\ TabDone(i) BY <2>3 DEF TabClear, TabDone
    <3>2. TabWhole(i) BY <3>1 DEF TabLined
    <3>3. TabHas(tabEvents, "complete", i) \/ tabOpen[c].total = TabChunks[i]
      <4>1. CASE TabQueued("complete", i) # {} BY <4>1 DEF TabQueued, TabHas, TabIs
      <4>2. CASE TabQueued("complete", i) = {}
        <5>1. <<"probe passed", i>> \notin tabGhost' BY DEF TabClear
        <5>2. ~(tabOpen[c].total < TabChunks[i]) BY <2>3, <2>7, <3>1, <4>2, <5>1 DEF TabDone
        <5>3. TabChunks[i] \in Nat BY TabAssumption
        <5> QED BY <2>2, <2>7, <5>2, <5>3
      <4> QED BY <4>1, <4>2
    <3>4. i \notin ToSet(tabOrder) =>
            TabDue(tabOpen, i) \/ i \in tabAnnounce \/ TabHas(tabEvents, "complete", i)
      BY <3>1, <3>2, TabAwaited, TabFollowedHas DEF TabDone, TabWhole
    <3>5. TabFull(i)' \/ TabHas(tabEvents, "complete", i) \/ TabDue(tabOpen, i) \/ i \in tabAnnounce
      BY <2>2, <2>7, <3>3, <3>4 DEF TabFull
    <3> QED BY <2>3, <2>4, <3>2, <3>5 DEF TabWhole
  <2> QED BY <2>6, <2>7
<1> QED BY <1>1, <1>2, <1>3, <1>4

\* The steps of the back end.
LEMMA TabLinedBack ==
    ASSUME TabTypes, NEW k \in TabIds,
           TabAgentOpen(k) \/ TabAnnounced(k) \/ TabAgentClose(k) \/ TabIndex(k),
           NEW i \in TabIds, TabLined(i)
    PROVE  TabLined(i)'
<1>1. CASE TabAgentOpen(k)
  <2>1. /\ tabBack' = TabCreated(k) /\ tabEvents' = TabStaleClosed(k)
        /\ UNCHANGED <<tabClose, tabEntry, tabOrder, tabOpen, tabGuard, tabGhost>>
        /\ tabAnnounce' = tabAnnounce \cup {k} BY <1>1 DEF TabAgentOpen, tabWindow, tabCalls
  <2>2. tabBack'[i] = tabBack[i] => TabKept(i) BY <2>1 DEF TabKept
  <2> QED BY <2>1, <2>2, TabLinedCreated
<1>2. CASE TabAnnounced(k)
  <2>1. /\ tabAnnounce' = tabAnnounce \ {k}
        /\ UNCHANGED <<tabBack, tabEntry, tabOrder, tabOpen, tabClose, tabGuard>>
        /\ tabGhost \subseteq tabGhost'
        /\ tabBack[k].total > 1 => <<"announced late", k>> \in tabGhost'
    BY <1>2 DEF TabAnnounced, tabWindow, tabCalls
  <2>2. CASE i # k
    <3> DEFINE n == [ev |-> "opened", id |-> k, total |-> 1, indexing |-> TabChunks[k] > 1]
    <3>1. n \in TabNews /\ n.id = k BY TabEventIs
    <3>2. tabEvents' = Append(tabEvents, n) BY <1>2 DEF TabAnnounced
    <3> HIDE DEF n
    <3>3. tabEvents \in Seq(TabNews) BY DEF TabTypes
    <3>4. tabEvents' = tabEvents \o <<n>> BY <3>1, <3>2, <3>3
    <3>5. TabSameLines(tabEvents, tabEvents', i) BY <2>2, <3>1, <3>3, <3>4, TabOtherEvent
    <3>6. TabKept(i) BY <2>1, <2>2 DEF TabKept
    <3> QED BY <3>5, <3>6, TabLinedSame
  <2>3. CASE i = k
    <3>1. ~(TabClear(i)' /\ TabDone(i)') BY <2>1, <2>3 DEF TabClear, TabDone
    <3> QED BY <3>1 DEF TabLined
  <2> QED BY <2>2, <2>3
<1>3. CASE TabAgentClose(k)
  <2>1. /\ tabBack' = [tabBack EXCEPT ![k] = TabShut]
        /\ tabEvents' = Append(tabEvents, TabEvent("closed", k, 0))
        /\ UNCHANGED <<tabAnnounce, tabClose, tabEntry, tabOrder, tabOpen, tabGuard, tabGhost>>
    BY <1>3 DEF TabAgentClose, tabWindow, tabCalls
  <2>2. i # k => TabKept(i) BY <2>1 DEF TabKept
  <2> QED BY <2>1, <2>2, TabLinedClosed
<1>4. CASE TabIndex(k)
  <2>1. UNCHANGED <<tabAnnounce, tabEntry, tabOrder, tabOpen, tabClose, tabGuard, tabGhost>>
    BY <1>4 DEF TabIndex, tabWindow, tabCalls, tabHist
  <2>2. CASE i # k
    <3>1. TabSameLines(tabEvents, tabEvents', i) /\ tabBack'[i] = tabBack[i]
      BY <1>4, <2>2, TabIndexIs
    <3>2. TabKept(i) BY <2>1, <3>1 DEF TabKept
    <3> QED BY <3>1, <3>2, TabLinedSame
  <2>3. CASE i = k
    <3>1. tabBack'[i].total = TabChunks[i] => TabWhole(i)' BY <1>4, <2>3, TabIndexIs DEF TabWhole
    <3> QED BY <3>1 DEF TabLined, TabDone
  <2> QED BY <2>2, <2>3
<1> QED BY <1>1, <1>2, <1>3, <1>4

\* The steps of the user.
LEMMA TabLinedUser ==
    ASSUME TabTypes, NEW k \in TabIds,
           TabCloseSent(k) \/ TabClosed(k) \/ TabCloseAnswered(k) \/ TabFocused(k),
           NEW i \in TabIds, TabLined(i)
    PROVE  TabLined(i)'
<1>0. /\ tabClose \in [TabIds -> {"no", "sent", "answered"}] /\ TabWindowOk(tabEntry, tabOrder, tabFocus)
      /\ tabGuard \in [TabIds -> Nat] BY DEF TabTypes
<1>1. CASE TabCloseSent(k)
  <2>1. /\ UNCHANGED <<tabBack, tabAnnounce, tabEvents, tabEntry, tabOrder, tabOpen, tabGhost>>
        /\ tabClose'[k] = "sent"
        /\ \A j \in TabIds : j # k => tabClose'[j] = tabClose[j] /\ tabGuard'[j] = tabGuard[j]
    BY <1>0, <1>1 DEF TabCloseSent, tabWindow
  <2>2. CASE i # k
    <3>1. tabGuard'[i] = tabGuard[i] /\ tabClose'[i] = tabClose[i] BY <2>1, <2>2
    <3>2. TabProbing(tabOpen, tabGuard, i) => TabProbing(tabOpen', tabGuard', i)
      BY <2>1, <3>1 DEF TabProbing
    <3>3. TabKept(i) BY <2>1, <3>1, <3>2 DEF TabKept
    <3> QED BY <2>1, <3>3, TabSameIs, TabLinedSame
  <2>3. CASE i = k
    <3>1. (TabClear(i)' <=> TabClear(i)) /\ (TabDone(i)' <=> TabDone(i))
      BY <2>1 DEF TabClear, TabDone
    <3>2. TabWhole(i) => TabWhole(i)' BY <2>1, <2>3 DEF TabWhole
    <3> QED BY <3>1, <3>2 DEF TabLined
  <2> QED BY <2>2, <2>3
<1>2. CASE TabClosed(k)
  <2>1. /\ tabBack' = [tabBack EXCEPT ![k] = TabShut]
        /\ tabEvents' = Append(tabEvents, TabEvent("closed", k, 0))
        /\ UNCHANGED <<tabAnnounce, tabEntry, tabOrder, tabOpen, tabGuard, tabGhost>>
        /\ \A j \in TabIds : j # k => tabClose'[j] = tabClose[j]
    BY <1>0, <1>2 DEF TabClosed, tabWindow, tabHist
  <2>2. tabBack \in [TabIds -> TabSession] BY DEF TabTypes, TabBackOk
  <2>3. i # k => TabKept(i) BY <2>1, <2>2 DEF TabKept
  <2> QED BY <2>1, <2>3, TabLinedClosed
<1>3. CASE TabCloseAnswered(k)
  <2>1. /\ UNCHANGED <<tabBack, tabAnnounce, tabEvents, tabOpen, tabGuard>>
        /\ \A j \in TabIds : j # k => tabClose'[j] = tabClose[j]
        /\ tabGhost \subseteq tabGhost'
        /\ tabBack[k].open => <<"close passed", k>> \in tabGhost' BY <1>0, <1>3 DEF TabCloseAnswered
  <2>2. /\ ToSet(tabOrder') = ToSet(tabOrder) \ {k}
        /\ \A j \in TabIds : j # k => tabEntry'[j] = tabEntry[j]
    BY <1>0, <1>3, TabRemoveIs DEF TabCloseAnswered
  <2>3. CASE i # k
    <3>1. TabKept(i) BY <2>1, <2>2, <2>3 DEF TabKept
    <3> QED BY <2>1, <3>1, TabSameIs, TabLinedSame
  <2>4. CASE i = k
    <3>1. ~(TabClear(i)' /\ TabDone(i)') BY <2>1, <2>4 DEF TabClear, TabDone
    <3> QED BY <3>1 DEF TabLined
  <2> QED BY <2>3, <2>4
<1>4. CASE TabFocused(k)
  <2>1. UNCHANGED <<tabBack, tabAnnounce, tabEvents, tabEntry, tabOrder, tabOpen, tabClose, tabGuard, tabGhost>>
    BY <1>4 DEF TabFocused, tabCalls
  <2>2. TabKept(i) BY <2>1 DEF TabKept
  <2> QED BY <2>1, <2>2, TabSameIs, TabLinedSame
<1> QED BY <1>1, <1>2, <1>3, <1>4

\* An event is heard.
LEMMA TabLinedHear ==
    ASSUME TabTypes, TabHear, NEW i \in TabIds, TabPlaced(i), TabPlaced(i)', TabLined(i)
    PROVE  TabLined(i)'
<1>0. PICK e, k : e = Head(tabEvents) /\ k = e.id OBVIOUS
<1>1. /\ tabEvents # <<>> /\ tabEvents' = Tail(tabEvents) /\ k \in TabIds
      /\ e.ev \in {"opened", "progress", "complete", "closed"}
      /\ \A j \in TabIds : j # k => /\ j \in ToSet(tabOrder') <=> j \in ToSet(tabOrder)
                                    /\ tabEntry'[j] = tabEntry[j]
      /\ e.ev = "opened" => /\ k \in ToSet(tabOrder')
                            /\ k \in ToSet(tabOrder) => tabEntry'[k] = tabEntry[k]
      /\ e.ev \in {"progress", "complete"} => ToSet(tabOrder') = ToSet(tabOrder)
      /\ e.ev = "complete" /\ k \in ToSet(tabOrder) =>
           tabEntry'[k].total = TabChunks[k] /\ ~tabEntry'[k].indexing
      /\ e.ev = "closed" => /\ k \in tabPending => tabEntry' = tabEntry /\ tabOrder' = tabOrder
                            /\ k \notin tabPending => k \notin ToSet(tabOrder') BY <1>0, TabHearIs
<1>2. UNCHANGED <<tabBack, tabAnnounce, tabOpen, tabClose, tabGuard, tabGhost>>
  BY DEF TabHear, tabHist
<1>3. tabEvents \in Seq(TabNews) BY DEF TabTypes
<1> DEFINE s == tabEvents
           t == tabEvents'
<1>4. /\ \A j : e.id # j => TabSameLines(s, t, j)
      /\ e.ev = "closed" => TabSameLines(s, t, k)
      /\ e.ev \in {"opened", "progress"} => (TabHas(s, "complete", k) <=> TabHas(t, "complete", k))
      /\ \A name, by : TabFollowed(s, k, name, by) => TabFollowed(t, k, name, by)
      /\ \A name, by : e.ev = name /\ TabFollowed(s, k, name, by) => TabHas(t, by, k)
      /\ \A name : TabHas(s, name, k) <=> e.ev = name \/ TabHas(t, name, k)
  BY <1>0, <1>1, <1>3, TabHeard
<1>5. CASE i # k
  <2>1. TabKept(i) BY <1>1, <1>2, <1>5 DEF TabKept
  <2>2. TabSameLines(tabEvents, tabEvents', i) BY <1>0, <1>4, <1>5
  <2> QED BY <2>1, <2>2, TabLinedSame
<1>6. CASE i = k
  <2> SUFFICES ASSUME TabClear(i)', TabDone(i)' PROVE TabWhole(i)' BY DEF TabLined
  <2>1. TabClear(k) /\ TabDone(k) /\ TabPlaced(k) BY <1>2, <1>6 DEF TabClear, TabDone
  <2>2. TabWhole(k) BY <1>6, <2>1 DEF TabLined
  <2>3. /\ TabFollowed(s, k, "progress", "complete") /\ TabFollowed(s, k, "opened", "complete")
        /\ TabFollowed(t, k, "progress", "complete") /\ TabFollowed(t, k, "opened", "complete")
    BY <1>4, <2>2 DEF TabWhole
  <2>4. TabHas(t, "opened", k) => TabHas(t, "complete", k) BY <2>3, TabFollowedHas
  <2>5. CASE e.ev = "opened"
    <3>1. TabHas(t, "complete", k) BY <1>4, <2>3, <2>5
    <3> QED BY <1>6, <2>3, <3>1 DEF TabWhole
  <2>6. CASE e.ev = "progress"
    <3>1. TabHas(t, "complete", k) BY <1>4, <2>3, <2>6
    <3> QED BY <1>6, <2>3, <3>1 DEF TabWhole
  <2>7. CASE e.ev = "complete"
    <3>1. CASE k \in ToSet(tabOrder)
      <4>1. TabFull(k)' BY <1>1, <2>7, <3>1 DEF TabFull
      <4> QED BY <1>2, <1>6, <2>3, <4>1 DEF TabWhole
    <3>2. CASE k \notin ToSet(tabOrder)
      <4>1. TabDue(tabOpen, k) \/ k \in tabAnnounce \/ TabHas(s, "opened", k)
        BY <2>1, <3>2, TabAwaited DEF TabDone
      <4>2. TabDue(tabOpen, k) \/ k \in tabAnnounce \/ TabHas(t, "complete", k)
        BY <1>4, <2>4, <2>7, <4>1
      <4> QED BY <1>2, <1>6, <2>3, <4>2 DEF TabWhole
    <3> QED BY <3>1, <3>2
  <2>8. CASE e.ev = "closed"
    <3>1. TabHas(s, "complete", k) <=> TabHas(t, "complete", k) BY <1>4, <2>8 DEF TabSameLines
    <3>2. CASE k \in tabPending
      <4>1. TabFull(k) => TabFull(k)' BY <1>1, <2>8, <3>2 DEF TabFull
      <4> QED BY <1>2, <1>6, <2>2, <2>3, <3>1, <4>1 DEF TabWhole
    <3>3. CASE k \notin tabPending
      <4>1. k \notin ToSet(tabOrder)' /\ tabBack'[k].open
        BY <1>1, <1>2, <2>1, <2>8, <3>3 DEF TabDone
      <4>2. TabPlace(k)' BY <1>2, <1>6, <2>1, TabClearCalm DEF TabPlaced, TabCalm
      <4>3. TabComes(t, k) => TabHas(t, "opened", k) BY DEF TabComes, TabHas
      <4>4. TabDue(tabOpen, k) \/ k \in tabAnnounce \/ TabHas(t, "complete", k)
        BY <1>2, <2>4, <4>1, <4>2, <4>3 DEF TabPlace
      <4> QED BY <1>2, <1>6, <2>3, <4>4 DEF TabWhole
    <3> QED BY <3>2, <3>3
  <2> QED BY <1>1, <2>5, <2>6, <2>7, <2>8
<1> QED BY <1>5, <1>6

LEMMA TabLinedNext ==
    ASSUME TabTypes, \A i \in TabIds : TabPlaced(i), \A i \in TabIds : TabLined(i), [TabNext]_tabVars
    PROVE  \A i \in TabIds : TabLined(i)'
<1> SUFFICES ASSUME NEW i \in TabIds PROVE TabLined(i)' OBVIOUS
<1>0. TabPlaced(i) /\ TabPlaced(i)' /\ TabLined(i) BY TabPlacedNext
<1>1. CASE TabHear BY <1>0, <1>1, TabLinedHear
<1>2. ASSUME NEW c \in 1 .. TabCalls, TabLoad(c) \/ TabLoaded(c) \/ TabProbe(c) \/ TabProbed(c)
      PROVE  TabLined(i)' BY <1>0, <1>2, TabLinedCalls
<1>3. ASSUME NEW c \in 1 .. TabCalls, NEW k \in TabIds, NEW replace \in BOOLEAN, TabOpenSent(c, k, replace)
      PROVE  TabLined(i)'
  <2>1. PICK o \in TabCalling : TabGoesOn(c, o) /\ o.pc = "load" /\ tabOpen[c].pc = "none"
    BY <1>3, TabOpenSentIs
  <2>2. UNCHANGED <<tabBack, tabAnnounce, tabEvents, tabEntry, tabOrder, tabClose, tabGuard, tabGhost>>
    BY <1>3 DEF TabOpenSent, tabWindow, tabHist
  <2>3. tabGuard'[i] = tabGuard[i] BY <2>2
  <2>4. TabProbing(tabOpen, tabGuard, i) => TabProbing(tabOpen', tabGuard', i)
    BY <2>1, <2>3, TabProbingGoesOn
  <2>5. TabDue(tabOpen, i) => TabDue(tabOpen', i) BY <2>1, TabDueGoesOn
  <2>6. TabKept(i) BY <2>2, <2>4, <2>5 DEF TabKept
  <2> QED BY <1>0, <2>2, <2>6, TabSameIs, TabLinedSame
<1>4. ASSUME NEW k \in TabIds, TabAgentOpen(k) \/ TabAnnounced(k) \/ TabAgentClose(k) \/ TabIndex(k)
      PROVE  TabLined(i)' BY <1>0, <1>4, TabLinedBack
<1>5. ASSUME NEW k \in TabIds, TabCloseSent(k) \/ TabClosed(k) \/ TabCloseAnswered(k) \/ TabFocused(k)
      PROVE  TabLined(i)' BY <1>0, <1>5, TabLinedUser
<1>6. CASE UNCHANGED tabVars
  <2>1. UNCHANGED <<tabBack, tabAnnounce, tabEvents, tabEntry, tabOrder, tabOpen, tabClose, tabGuard, tabGhost>>
    BY <1>6 DEF tabVars, tabWindow, tabCalls, tabHist
  <2>2. TabKept(i) BY <2>1 DEF TabKept
  <2> QED BY <1>0, <2>1, <2>2, TabSameIs, TabLinedSame
<1> QED BY <1>1, <1>2, <1>3, <1>4, <1>5, <1>6 DEF TabNext

TabAgreeing == TabTypes /\ (\A i \in TabIds : TabPlaced(i)) /\ (\A i \in TabIds : TabLined(i))

LEMMA TabAgreeingInit == TabInit => TabAgreeing
<1> SUFFICES ASSUME TabInit PROVE TabAgreeing OBVIOUS
<1>1. TabTypes BY TabTypesInit
<1>2. ASSUME NEW i \in TabIds PROVE TabPlaced(i)
  <2>1. /\ ~tabBack[i].open /\ tabEvents = <<>> /\ ToSet(tabOrder) = {} /\ tabPending = {}
    BY DEF TabInit, TabShut, ToSet
  <2>2. /\ TabFollowed(tabEvents, i, "opened", "closed") /\ ~TabHas(tabEvents, "opened", i)
    BY <2>1, TabNothing
  <2> QED BY <2>1, <2>2 DEF TabPlaced, TabEchoed, TabPlace
<1>3. ASSUME NEW i \in TabIds PROVE TabLined(i) BY DEF TabInit, TabShut, TabLined, TabDone
<1> QED BY <1>1, <1>2, <1>3 DEF TabAgreeing

LEMMA TabAgreeingNext == TabAgreeing /\ [TabNext]_tabVars => TabAgreeing'
<1> SUFFICES ASSUME TabAgreeing, [TabNext]_tabVars PROVE TabAgreeing' OBVIOUS
<1>1. TabTypes' BY TabTypesNext DEF TabAgreeing
<1>2. \A i \in TabIds : TabPlaced(i)' BY TabPlacedNext DEF TabAgreeing
<1>3. \A i \in TabIds : TabLined(i)' BY TabLinedNext DEF TabAgreeing
<1> QED BY <1>1, <1>2, <1>3 DEF TabAgreeing

LEMMA TabAgreeingQuiet ==
    ASSUME TabAgreeing, TabQuiet, NEW i \in TabIds
    PROVE  /\ TabCalm(i) => (i \in ToSet(tabOrder) <=> tabBack[i].open)
           /\ TabClear(i) /\ i \in ToSet(tabOrder) =>
                tabEntry[i].total = tabBack[i].total /\ ~tabEntry[i].indexing
           /\ i \notin tabPending
<1>1. /\ TabTypes /\ TabPlaced(i) /\ TabLined(i) BY DEF TabAgreeing
<1>2. /\ tabEvents = <<>> /\ tabAnnounce = {} /\ tabClose[i] = "no" /\ ~tabBack[i].indexing
      /\ \A c \in 1 .. TabCalls : tabOpen[c].pc \in {"none", "over"} BY DEF TabQuiet
<1>3. /\ ~TabHas(tabEvents, "closed", i) /\ ~TabHas(tabEvents, "complete", i)
      /\ ~TabSpare(tabEvents, i, tabPending) /\ ~TabComes(tabEvents, i) BY <1>2, TabNothing
<1>4. ~TabDue(tabOpen, i) /\ ~TabProbing(tabOpen, tabGuard, i) BY <1>2 DEF TabDue, TabProbing
<1>5. TabCalm(i) => (i \in ToSet(tabOrder) <=> tabBack[i].open)
  BY <1>1, <1>2, <1>3, <1>4 DEF TabPlaced, TabPlace
<1>6. i \notin tabPending BY <1>1, <1>2, <1>3 DEF TabPlaced, TabEchoed
<1>7. ASSUME TabClear(i), i \in ToSet(tabOrder)
      PROVE  tabEntry[i].total = tabBack[i].total /\ ~tabEntry[i].indexing
  <2>1. tabBack[i].open BY <1>5, <1>7, TabClearCalm
  <2>2. TabSessionOk(i, tabBack[i]) /\ TabChunks[i] \in Nat \ {0} /\ TabWindowOk(tabEntry, tabOrder, tabFocus)
    BY <1>1, TabAssumption DEF TabTypes, TabBackOk
  <2>3. tabBack[i].total = TabChunks[i] BY <1>2, <2>1, <2>2 DEF TabSessionOk
  <2>4. CASE TabChunks[i] = 1 BY <1>7, <2>2, <2>3, <2>4 DEF TabWindowOk
  <2>5. CASE TabChunks[i] > 1
    <3>1. TabWhole(i) BY <1>1, <1>7, <2>1, <2>3, <2>5 DEF TabLined, TabDone
    <3>2. TabFull(i) BY <1>2, <1>3, <1>4, <3>1 DEF TabWhole
    <3> QED BY <2>3, <3>2 DEF TabFull
  <2> QED BY <2>2, <2>4, <2>5
<1> QED BY <1>5, <1>6, <1>7

\* Once every event is heard and every answer is in, the tabs of the
\* window are the open sessions of the back end with all their lines, but
\* for the ids whose close, announcement or probe passed another answer,
\* and at all times one of the tabs has the focus (app/sessions.ts,
\* app/actions.ts, services/sessions.rs).
THEOREM TabTabsAgree == TabSpec => []TabsAgree
<1>1. TabAgreeing => TabsAgree
  <2> SUFFICES ASSUME TabAgreeing PROVE TabsAgree OBVIOUS
  <2>1. tabFocus \in IF tabOrder = <<>> THEN {TabNone} ELSE TabShown
    BY DEF TabAgreeing, TabTypes, TabWindowOk, TabShown
  <2>2. ASSUME TabQuiet, NEW i \in TabIds
        PROVE  /\ <<"close passed", i>> \notin tabGhost /\ <<"announced late", i>> \notin tabGhost =>
                    (i \in TabShown) = tabBack[i].open
               /\ (\A g \in tabGhost : g[2] # i) /\ i \in TabShown =>
                    tabEntry[i].total = tabBack[i].total /\ ~tabEntry[i].indexing
               /\ i \notin tabPending
    <3>1. /\ TabCalm(i) => (i \in ToSet(tabOrder) <=> tabBack[i].open)
          /\ TabClear(i) /\ i \in ToSet(tabOrder) =>
               tabEntry[i].total = tabBack[i].total /\ ~tabEntry[i].indexing
          /\ i \notin tabPending BY <2>2, TabAgreeingQuiet
    <3>2. tabBack[i].open \in BOOLEAN BY DEF TabAgreeing, TabTypes, TabBackOk, TabSession
    <3>3. TabCalm(i) => (i \in TabShown) = tabBack[i].open
      <4>1. TabCalm(i) => (i \in TabShown <=> tabBack[i].open) BY <3>1 DEF TabShown
      <4> QED BY <3>2, <4>1
    <3> QED BY <3>1, <3>3 DEF TabCalm, TabClear, TabShown
  <2> QED BY <2>1, <2>2 DEF TabsAgree
<1> QED BY <1>1, TabAgreeingInit, TabAgreeingNext, PTL DEF TabSpec
=============================================================================
