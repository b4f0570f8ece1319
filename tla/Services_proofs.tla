-------------------------- MODULE Services_proofs --------------------------
\* Proofs about what the services keep: the log source of a capture
\* (StreamSource), the session registry and its indexers (Sessions), the
\* settings of the anonymizer and of an agent's access (Redaction), the
\* runs of a session's chain (PipelineRuns).
EXTENDS StreamSource, Sessions, Redaction, PipelineRuns, TLAPS, SequenceTheorems, FiniteSetTheorems

----------------------------------------
\* The log source of a capture.

\* The lines a, a + 1, ... as a sequence, and the bytes of the file.
SrcSpan(a, n) == [i \in 1..n |-> a + i - 1]
SrcByte == (Nat \cup {-1}) \X Nat

\* Memory holds the lines after the evicted ones, and an eviction knows how
\* many lines it takes.
SrcLinesInv ==
  /\ srcEvicted <= SrcTotal /\ srcRaw = SrcSpan(srcEvicted, SrcTotal - srcEvicted)
  /\ srcNext <= srcExcess
  /\ srcPhase = "ready" => srcExcess = 0 /\ srcNext = 0 /\ Len(srcRaw) <= SrcMaxRetained
  /\ srcPhase # "ready" => srcExcess > 0 /\ srcExcess = Len(srcRaw) - SrcMaxRetained
  /\ srcPhase = "open" => srcNext = 0
  /\ srcPhase = "spill" => srcOpened

\* The lines evicted so far, those of the eviction under way included, are
\* written or lost.
SrcGone == srcEvicted + srcNext
SrcCountInv ==
  /\ IsFiniteSet(srcSpilled) /\ srcSpilled \subseteq 0..(SrcGone - 1)
  /\ SrcGone = srcLost + Cardinality(srcSpilled)

\* The cap is looked at after each write, so one line at most is over it.
SrcCapInv ==
  /\ srcBytes < SrcCap + SrcMaxWidth + 1
  /\ ~srcCapped => srcBytes < SrcCap

\* Where nothing got in its way the file holds the first lines evicted,
\* each at its offset and the next one after it, and the handle stands at
\* its end.
SrcWritten == Len(srcOffsets)
SrcFileInv ==
  /\ ~srcOpened => SrcWritten = 0
  /\ srcSpilled = 0..(SrcWritten - 1)
  /\ srcOpened /\ ~srcCapped => SrcWritten = SrcGone
  /\ SrcWritten <= SrcGone /\ srcCursor = srcBytes /\ Len(srcDisk) = srcBytes
  /\ \A i \in 0..(SrcWritten - 1) :
       /\ SrcEnd(i) = SrcOffset(i) + srcWidth[i + 1] + 1 /\ SrcEnd(i) <= srcBytes
       /\ \A j \in 1..(srcWidth[i + 1] + 1) : srcDisk[SrcOffset(i) + j] = SrcRecord(i)[j]

SrcInv ==
  /\ SrcTypeOK /\ SrcLinesInv /\ SrcCountInv /\ SrcCapInv
  /\ SrcUndisturbed => SrcFileInv

LEMMA SrcSpanProperties ==
  ASSUME NEW a \in Nat, NEW n \in Nat
  PROVE  /\ SrcSpan(a, n) \in Seq(Nat) /\ Len(SrcSpan(a, n)) = n
         /\ \A i \in 1..n : SrcSpan(a, n)[i] = a + i - 1
  <1>1. SrcSpan(a, n) \in [1..n -> Nat] BY DEF SrcSpan
  <1>2. SrcSpan(a, n) \in Seq(Nat) BY <1>1, SeqDef
  <1>3. DOMAIN SrcSpan(a, n) = 1..n BY DEF SrcSpan
  <1>4. Len(SrcSpan(a, n)) = n BY <1>2, <1>3, LenProperties
  <1> QED BY <1>2, <1>4 DEF SrcSpan

\* One more batch behind a span, and the first lines of a span gone.
LEMMA SrcSpanGrows ==
  ASSUME NEW a \in Nat, NEW n \in Nat, NEW m \in Nat
  PROVE  SrcSpan(a, n) \o [i \in 1..m |-> a + n + i - 1] = SrcSpan(a, n + m)
  <1> DEFINE left == SrcSpan(a, n)
             right == SrcSpan(a + n, m)
             all == SrcSpan(a, n + m)
  <1>1. [i \in 1..m |-> a + n + i - 1] = right BY DEF SrcSpan
  <1>2. left \in Seq(Nat) /\ Len(left) = n /\ \A i \in 1..n : left[i] = a + i - 1
    BY SrcSpanProperties
  <1>3. right \in Seq(Nat) /\ Len(right) = m /\ \A i \in 1..m : right[i] = (a + n) + i - 1
    <2>1. a + n \in Nat OBVIOUS
    <2> QED BY <2>1, SrcSpanProperties
  <1>4. all \in Seq(Nat) /\ Len(all) = n + m /\ \A i \in 1..(n + m) : all[i] = a + i - 1
    <2>1. n + m \in Nat OBVIOUS
    <2> QED BY <2>1, SrcSpanProperties
  <1> HIDE DEF left, right, all
  <1>5. /\ left \o right \in Seq(Nat) /\ Len(left \o right) = n + m
        /\ \A i \in 1..(n + m) : (left \o right)[i] = IF i <= n THEN left[i] ELSE right[i - n]
    BY ZenonT(30), <1>2, <1>3, <1>4, ConcatProperties
  <1>6. \A i \in 1..(n + m) : (left \o right)[i] = all[i] BY SMTT(30), <1>2, <1>5, <1>3, <1>4
  <1>7. left \o right = all BY <1>2, <1>5, <1>6, <1>4, SeqEqual
  <1> QED BY <1>1, <1>7 DEF left, all

LEMMA SrcSpanShrinks ==
  ASSUME NEW a \in Nat, NEW n \in Nat, NEW k \in 0..n
  PROVE  SubSeq(SrcSpan(a, n), k + 1, Len(SrcSpan(a, n))) = SrcSpan(a + k, n - k)
  <1> DEFINE old == SrcSpan(a, n)
             new == SrcSpan(a + k, n - k)
             rest == SubSeq(old, k + 1, n)
  <1>1. Len(old) = n /\ \A i \in 1..n : old[i] = a + i - 1 BY SrcSpanProperties
  <1>2. new \in Seq(Nat) /\ Len(new) = n - k /\ \A i \in 1..(n - k) : new[i] = (a + k) + i - 1
    <2>1. a + k \in Nat /\ n - k \in Nat OBVIOUS
    <2> QED BY <2>1, SrcSpanProperties
  <1> HIDE DEF old, new
  <1>3. \A i \in (k + 1)..n : old[i] \in Nat BY <1>1
  <1>4. /\ rest \in Seq(Nat) /\ Len(rest) = n - k
        /\ \A i \in 1..(n - (k + 1) + 1) : rest[i] = old[k + 1 + i - 1] BY <1>3, SubSeqProperties
  <1> HIDE DEF rest
  <1>5. \A i \in 1..(n - k) : rest[i] = new[i] BY <1>1, <1>4, <1>2
  <1>6. rest = new BY <1>4, <1>5, <1>2, SeqEqual
  <1> QED BY <1>1, <1>6 DEF rest, old, new

\* A line's record is its content and a newline, all bytes.
LEMMA SrcRecordProperties ==
  ASSUME SrcAssumption, srcWidth \in Seq(SrcWidths), NEW l \in 0..(SrcTotal - 1)
  PROVE  /\ srcWidth[l + 1] \in 0..SrcMaxWidth
         /\ SrcContent(l) \in Seq(SrcByte) /\ Len(SrcContent(l)) = srcWidth[l + 1]
         /\ SrcRecord(l) \in Seq(SrcByte) /\ Len(SrcRecord(l)) = srcWidth[l + 1] + 1
         /\ \A j \in 1..srcWidth[l + 1] : SrcRecord(l)[j] = SrcContent(l)[j]
  <1>1. srcWidth[l + 1] \in 0..SrcMaxWidth
    <2>1. l + 1 \in 1..Len(srcWidth) BY LenProperties DEF SrcTotal
    <2> QED BY <2>1, ElementOfSeq DEF SrcAssumption
  <1>2. SrcContent(l) \in [1..srcWidth[l + 1] -> SrcByte] BY <1>1 DEF SrcContent, SrcByte, SrcTotal
  <1>3. SrcContent(l) \in Seq(SrcByte) BY <1>1, <1>2, SeqDef
  <1>4. DOMAIN SrcContent(l) = 1..srcWidth[l + 1] BY DEF SrcContent
  <1>5. Len(SrcContent(l)) = srcWidth[l + 1] BY <1>1, <1>3, <1>4, LenProperties
  <1>6. <<l, 0>> \in SrcByte BY DEF SrcByte, SrcTotal
  <1> QED BY <1>1, <1>3, <1>5, <1>6 DEF SrcRecord

\* Writing at a position of a file, and at its end.
LEMMA SrcOverwriteProperties ==
  ASSUME NEW f \in Seq(SrcByte), NEW c \in Nat, NEW data \in Seq(SrcByte)
  PROVE  /\ SrcOverwrite(f, c, data) \in Seq(SrcByte)
         /\ c = Len(f) => /\ Len(SrcOverwrite(f, c, data)) = Len(f) + Len(data)
                          /\ \A i \in 1..Len(f) : SrcOverwrite(f, c, data)[i] = f[i]
                          /\ \A j \in 1..Len(data) : SrcOverwrite(f, c, data)[c + j] = data[j]
  <1> DEFINE n == IF c + Len(data) > Len(f) THEN c + Len(data) ELSE Len(f)
             g == SrcOverwrite(f, c, data)
  <1>1. n \in Nat OBVIOUS
  <1>2. SrcHole \in SrcByte BY DEF SrcHole, SrcByte
  <1>3. /\ DOMAIN g = 1..n
        /\ \A i \in 1..n : g[i] = IF i > c /\ i <= c + Len(data) THEN data[i - c]
                                  ELSE IF i <= Len(f) THEN f[i] ELSE SrcHole BY DEF SrcOverwrite
  <1>4. ASSUME NEW i \in 1..n PROVE g[i] \in SrcByte
    <2>1. CASE i > c /\ i <= c + Len(data)
      <3>1. i - c \in 1..Len(data) BY <2>1
      <3> QED BY <1>3, <2>1, <3>1, ElementOfSeq
    <2>2. CASE ~(i > c /\ i <= c + Len(data)) BY <1>2, <1>3, <2>2, ElementOfSeq
    <2> QED BY <2>1, <2>2
  <1>5. g = [i \in 1..n |-> g[i]] BY DEF SrcOverwrite
  <1> HIDE DEF g
  <1>6. g \in [1..n -> SrcByte] BY <1>4, <1>5
  <1>7. g \in Seq(SrcByte) BY <1>1, <1>6, SeqDef
  <1>8. Len(g) = n BY <1>1, <1>7, <1>3, LenProperties
  <1>9. c = Len(f) => n = Len(f) + Len(data) OBVIOUS
  <1> HIDE DEF n
  <1> QED BY <1>3, <1>7, <1>8, <1>9 DEF g

\* The numbers an eviction works with.
LEMMA SrcEvictionFacts ==
  ASSUME SrcAssumption, SrcTypeOK, SrcLinesInv
  PROVE  /\ SrcTotal \in Nat /\ SrcTotal - srcEvicted \in Nat /\ Len(srcRaw) = SrcTotal - srcEvicted
         /\ srcExcess <= Len(srcRaw)
         /\ srcPhase = "ready" => SrcGone = srcEvicted
         /\ srcNext < srcExcess => /\ srcRaw[srcNext + 1] = SrcGone
                                   /\ SrcGone \in 0..(SrcTotal - 1)
  <1>1. SrcTotal \in Nat BY LenProperties DEF SrcTypeOK, SrcTotal
  <1>2. SrcTotal - srcEvicted \in Nat /\ srcEvicted \in Nat BY <1>1 DEF SrcTypeOK, SrcLinesInv
  <1>3. /\ Len(srcRaw) = SrcTotal - srcEvicted
        /\ \A i \in 1..(SrcTotal - srcEvicted) : srcRaw[i] = srcEvicted + i - 1
    BY <1>2, SrcSpanProperties DEF SrcLinesInv
  <1>4. srcExcess <= Len(srcRaw) BY <1>2, <1>3 DEF SrcAssumption, SrcTypeOK, SrcLinesInv
  <1>5. ASSUME srcNext < srcExcess
        PROVE srcRaw[srcNext + 1] = SrcGone /\ SrcGone \in 0..(SrcTotal - 1)
    <2>1. srcNext + 1 \in 1..(SrcTotal - srcEvicted) BY <1>2, <1>3, <1>4, <1>5 DEF SrcTypeOK
    <2> QED BY <1>1, <1>2, <1>3, <2>1 DEF SrcTypeOK, SrcGone
  <1> QED BY <1>1, <1>2, <1>3, <1>4, <1>5 DEF SrcGone, SrcLinesInv

\* Draining: the lines of the eviction leave memory.
LEMMA SrcDrained ==
  ASSUME SrcAssumption, SrcTypeOK, SrcLinesInv, NEW missed \in Nat, SrcDrain(missed)
  PROVE  SrcTypeOK' /\ SrcLinesInv'
  <1>1. /\ SrcTotal \in Nat /\ SrcTotal - srcEvicted \in Nat /\ srcEvicted \in Nat
        /\ Len(srcRaw) = SrcTotal - srcEvicted
        /\ srcExcess \in 0..(SrcTotal - srcEvicted) BY SrcEvictionFacts DEF SrcTypeOK
  <1>2. /\ srcRaw' = SubSeq(srcRaw, srcExcess + 1, Len(srcRaw))
        /\ srcEvicted' = srcEvicted + srcExcess /\ srcLost' = srcLost + missed
        /\ srcPhase' = "ready" /\ srcExcess' = 0 /\ srcNext' = 0
        /\ UNCHANGED <<srcWidth, srcFile, srcHistory>> BY DEF SrcDrain
  <1>3. srcRaw' = SrcSpan(srcEvicted + srcExcess, (SrcTotal - srcEvicted) - srcExcess)
    BY <1>1, <1>2, SrcSpanShrinks DEF SrcLinesInv
  <1>4. /\ srcEvicted' \in Nat /\ SrcTotal' = SrcTotal /\ SrcTotal' - srcEvicted' \in Nat
        /\ srcRaw' = SrcSpan(srcEvicted', SrcTotal' - srcEvicted')
    <2>1. (SrcTotal - srcEvicted) - srcExcess = SrcTotal - (srcEvicted + srcExcess) BY <1>1
    <2> QED BY <1>1, <1>2, <1>3, <2>1 DEF SrcTotal
  <1>5. srcRaw' \in Seq(Nat) /\ Len(srcRaw') = SrcTotal' - srcEvicted' BY <1>4, SrcSpanProperties
  <1>6. SrcTypeOK' BY <1>2, <1>4, <1>5 DEF SrcTypeOK, srcFile, srcHistory
  <1>7. Len(srcRaw') <= SrcMaxRetained
    BY <1>1, <1>2, <1>4, <1>5 DEF SrcTypeOK, SrcLinesInv, SrcAssumption
  <1> QED BY SMTT(30), <1>1, <1>2, <1>4, <1>6, <1>7 DEF SrcLinesInv

LEMMA SrcArrived ==
  ASSUME SrcAssumption, SrcTypeOK, SrcLinesInv,
         NEW n \in 1..SrcMaxBatch, NEW b \in [1..n -> SrcWidths], SrcArrive(b)
  PROVE  SrcTypeOK' /\ SrcLinesInv' /\ SrcTotal' = SrcTotal + n
         /\ \A i \in 1..SrcTotal : srcWidth'[i] = srcWidth[i]
  <1>1. /\ SrcTotal \in Nat /\ SrcTotal - srcEvicted \in Nat /\ srcEvicted \in Nat /\ n \in Nat
        /\ Len(srcRaw) = SrcTotal - srcEvicted BY SrcEvictionFacts DEF SrcTypeOK, SrcAssumption
  <1>2. b \in Seq(SrcWidths) /\ Len(b) = n
    <2>1. b \in Seq(SrcWidths) BY <1>1, SeqDef
    <2> QED BY <1>1, <2>1, LenProperties
  <1>3. /\ srcWidth' \in Seq(SrcWidths) /\ SrcTotal' = SrcTotal + n
        /\ \A i \in 1..SrcTotal : srcWidth'[i] = srcWidth[i]
    <2>1. srcWidth' = srcWidth \o b /\ srcWidth \in Seq(SrcWidths) BY DEF SrcArrive, SrcTypeOK
    <2>2. /\ srcWidth \o b \in Seq(SrcWidths) /\ Len(srcWidth \o b) = Len(srcWidth) + Len(b)
          /\ \A i \in 1..Len(srcWidth) + Len(b) : (srcWidth \o b)[i] =
                IF i <= Len(srcWidth) THEN srcWidth[i] ELSE b[i - Len(srcWidth)]
      BY <1>2, <2>1, ConcatProperties
    <2> QED BY <1>1, <1>2, <2>1, <2>2 DEF SrcTotal
  <1>4. srcRaw' = SrcSpan(srcEvicted, SrcTotal - srcEvicted) \o [i \in 1..n |-> SrcTotal + i - 1]
    <2>1. srcRaw' = srcRaw \o [i \in 1..Len(b) |-> SrcTotal + i - 1] BY DEF SrcArrive
    <2>2. srcRaw = SrcSpan(srcEvicted, SrcTotal - srcEvicted) BY DEF SrcLinesInv
    <2> QED BY <1>2, <2>1, <2>2
  <1>5. srcRaw' = SrcSpan(srcEvicted', SrcTotal' - srcEvicted') /\ srcEvicted' = srcEvicted
    <2> DEFINE k == SrcTotal - srcEvicted
    <2>1. [i \in 1..n |-> SrcTotal + i - 1] = [i \in 1..n |-> srcEvicted + k + i - 1] BY <1>1
    <2>2. k \in Nat BY <1>1
    <2>3. srcRaw' = SrcSpan(srcEvicted, k) \o [i \in 1..n |-> srcEvicted + k + i - 1] BY <1>4, <2>1
    <2> HIDE DEF k
    <2>4. srcRaw' = SrcSpan(srcEvicted, k + n) BY ZenonT(30), <1>1, <2>2, <2>3, SrcSpanGrows
    <2>5. srcRaw' = SrcSpan(srcEvicted, (SrcTotal - srcEvicted) + n) BY <2>4 DEF k
    <2>6. (SrcTotal - srcEvicted) + n = SrcTotal' - srcEvicted /\ srcEvicted' = srcEvicted
      BY <1>1, <1>3 DEF SrcArrive
    <2> QED BY <2>5, <2>6
  <1>6. srcRaw' \in Seq(Nat) /\ Len(srcRaw') = SrcTotal' - srcEvicted /\ Len(srcRaw') \in Nat
    <2>1. srcEvicted' \in Nat /\ SrcTotal' - srcEvicted' \in Nat BY <1>1, <1>3, <1>5
    <2> QED BY <1>5, <2>1, SrcSpanProperties
  <1>7. /\ srcExcess' = SrcExcess(Len(srcRaw'))
        /\ srcPhase' = IF srcExcess' = 0 THEN "ready" ELSE "open"
        /\ srcPhase = "ready"
        /\ UNCHANGED <<srcEvicted, srcLost, srcNext, srcFile, srcHistory>> BY DEF SrcArrive
  <1>8. srcExcess' \in Nat BY <1>6, <1>7 DEF SrcExcess, SrcAssumption
  <1>9. SrcTypeOK' BY <1>3, <1>6, <1>7, <1>8 DEF SrcTypeOK, srcFile, srcHistory
  <1>10. SrcLinesInv'
    BY <1>1, <1>3, <1>5, <1>6, <1>7, <1>8 DEF SrcLinesInv, SrcExcess, SrcAssumption
  <1> QED BY <1>3, <1>9, <1>10

\* One line written, or written in part.
LEMMA SrcSpilledOne ==
  ASSUME SrcAssumption, SrcTypeOK, SrcLinesInv,
         SrcSpillLine \/ \E k \in 0..SrcMaxWidth : SrcSpillLineFails(k)
  PROVE  SrcTypeOK' /\ SrcLinesInv'
  <1>1. srcNext < srcExcess /\ srcPhase = "spill" BY DEF SrcSpillLine, SrcSpillLineFails
  <1>2. srcRaw[srcNext + 1] = SrcGone /\ SrcGone \in 0..(SrcTotal - 1) /\ SrcGone \in Nat
    BY <1>1, SrcEvictionFacts
  <1>3. SrcRecord(SrcGone) \in Seq(SrcByte) /\ Len(SrcRecord(SrcGone)) \in Nat
    BY <1>2, SrcRecordProperties, LenProperties DEF SrcTypeOK
  <1>4. srcDisk \in Seq(SrcByte) /\ srcCursor \in Nat BY DEF SrcTypeOK, SrcByte
  <1>5. CASE SrcSpillLine
    <2>1. /\ srcOffsets' = Append(srcOffsets, srcBytes)
          /\ srcDisk' = SrcOverwrite(srcDisk, srcCursor, SrcRecord(SrcGone))
          /\ srcCursor' = srcCursor + Len(SrcRecord(SrcGone))
          /\ srcBytes' = srcBytes + Len(SrcRecord(SrcGone))
          /\ srcSpilled' = srcSpilled \cup {SrcGone} /\ srcCapped' = SrcCapReached(srcBytes')
          /\ srcNext' = srcNext + 1
          /\ UNCHANGED <<srcLines, srcLost, srcOpened, srcPhase, srcExcess, srcMoved, srcLate,
                         srcBroken>> BY <1>2, <1>5 DEF SrcSpillLine
    <2>2. srcDisk' \in Seq(SrcByte) BY <1>3, <1>4, <2>1, SrcOverwriteProperties
    <2>3. srcCapped' \in BOOLEAN BY <2>1 DEF SrcCapReached
    <2>4. SrcTypeOK' BY SMTT(30), <1>2, <1>3, <2>1, <2>2, <2>3 DEF SrcTypeOK, srcLines, SrcByte
    <2> QED BY SMTT(30), <1>1, <2>1, <2>4 DEF SrcLinesInv, srcLines, SrcTotal, SrcTypeOK
  <1>6. ASSUME NEW k \in 0..SrcMaxWidth, SrcSpillLineFails(k) PROVE SrcTypeOK' /\ SrcLinesInv'
    <2>1. /\ srcOffsets' = Append(srcOffsets, srcBytes) /\ k < Len(SrcRecord(SrcGone))
          /\ srcDisk' = IF k = 0 THEN srcDisk
                        ELSE SrcOverwrite(srcDisk, srcCursor, SubSeq(SrcRecord(SrcGone), 1, k))
          /\ srcCursor' = srcCursor + k /\ srcLost' = srcLost + 1 /\ srcBroken' = TRUE
          /\ srcNext' = srcNext + 1
          /\ UNCHANGED <<srcLines, srcOpened, srcBytes, srcCapped, srcPhase, srcExcess, srcSpilled,
                         srcMoved, srcLate>> BY <1>2, <1>6 DEF SrcSpillLineFails
    <2>2. SubSeq(SrcRecord(SrcGone), 1, k) \in Seq(SrcByte)
      <3>1. \A i \in 1..k : SrcRecord(SrcGone)[i] \in SrcByte
        BY <1>3, <2>1, ElementOfSeq DEF SrcAssumption
      <3> QED BY <3>1, SubSeqProperties DEF SrcAssumption
    <2>3. srcDisk' \in Seq(SrcByte) BY <1>4, <2>1, <2>2, SrcOverwriteProperties
    <2>4. SrcTypeOK' BY <1>2, <1>3, <2>1, <2>3 DEF SrcTypeOK, srcLines, SrcByte, SrcAssumption
    <2> QED BY <1>1, <2>1, <2>4 DEF SrcLinesInv, srcLines, SrcTotal, SrcTypeOK
  <1> QED BY <1>5, <1>6

\* What a read leaves as it was.
LEMMA SrcReadTypes ==
  ASSUME SrcAssumption, SrcTypeOK, NEW i \in Nat, SrcReads(i)
  PROVE  srcCursor' \in Nat /\ srcMoved' \in BOOLEAN
  <1>1. /\ Len(srcOffsets) \in Nat /\ Len(srcDisk) \in Nat /\ srcCursor \in Nat /\ srcBytes \in Nat
        /\ \A j \in 1..Len(srcOffsets) : srcOffsets[j] \in Nat
    BY LenProperties, ElementOfSeq DEF SrcTypeOK
  <1>2. SrcCursorAfterRead(i) \in Nat
    <2>1. CASE i >= Len(srcOffsets) \/ SrcEnd(i) <= SrcOffset(i)
      BY <1>1, <2>1 DEF SrcCursorAfterRead
    <2>2. CASE i < Len(srcOffsets) /\ ~(SrcEnd(i) <= SrcOffset(i))
      <3>1. SrcOffset(i) \in Nat BY <1>1, <2>2 DEF SrcOffset
      <3>2. SrcEnd(i) \in Nat BY <1>1, <2>2 DEF SrcEnd
      <3> QED BY <1>1, <2>2, <3>1, <3>2 DEF SrcCursorAfterRead
    <2> QED BY <1>1, <2>1, <2>2
  <1>3. srcCursor' = SrcCursorAfterRead(i) /\ srcMoved' = (srcMoved \/ srcCursor' # srcCursor)
    BY DEF SrcReads
  <1> QED BY <1>2, <1>3

LEMMA SrcLinesStep ==
  SrcTypeOK /\ SrcLinesInv /\ [SrcNext]_srcVars => SrcTypeOK' /\ SrcLinesInv'
  <1> SUFFICES ASSUME SrcTypeOK, SrcLinesInv, [SrcNext]_srcVars PROVE SrcTypeOK' /\ SrcLinesInv'
    OBVIOUS
  <1> USE SrcAssumption
  <1>1. ASSUME NEW n \in 1..SrcMaxBatch, NEW b \in [1..n -> SrcWidths], SrcArrive(b)
        PROVE SrcTypeOK' /\ SrcLinesInv' BY <1>1, SrcArrived
  <1>2. CASE SrcOpenSpill
    <2>1. srcLate' \in BOOLEAN BY <1>2 DEF SrcOpenSpill
    <2> QED BY <1>2, <2>1 DEF SrcOpenSpill, SrcTypeOK, SrcLinesInv, SrcTotal, srcLines
  <1>3. ASSUME NEW missed \in Nat, SrcDrain(missed) PROVE SrcTypeOK' /\ SrcLinesInv'
    BY <1>3, SrcDrained
  <1>4. CASE SrcOpenSpillFails BY <1>3, <1>4 DEF SrcOpenSpillFails, SrcTypeOK
  <1>5. CASE SrcSpillLine \/ \E k \in 0..SrcMaxWidth : SrcSpillLineFails(k) BY <1>5, SrcSpilledOne
  <1>6. CASE SrcSpillCapped BY <1>3, <1>6 DEF SrcSpillCapped, SrcMissed, SrcTypeOK, SrcLinesInv
  <1>7. CASE SrcSpillDone BY <1>3, <1>7 DEF SrcSpillDone
  <1>8. ASSUME NEW i \in Nat, SrcReads(i) PROVE SrcTypeOK' /\ SrcLinesInv'
    <2>1. srcCursor' \in Nat /\ srcMoved' \in BOOLEAN BY <1>8, SrcReadTypes
    <2> QED BY <1>8, <2>1 DEF SrcReads, SrcTypeOK, SrcLinesInv, SrcTotal, srcLines, srcLoop
  <1>9. CASE (\E l \in 0..(SrcTotal - 1) : SrcRead(l)) \/ SrcSave
    <2>1. Len(srcOffsets) \in Nat /\ SrcTotal \in Nat BY LenProperties DEF SrcTypeOK, SrcTotal
    <2> QED BY <1>8, <1>9, <2>1 DEF SrcRead, SrcSave
  <1>10. CASE UNCHANGED srcVars
    BY <1>10 DEF srcVars, srcLines, srcFile, srcLoop, srcHistory, SrcTypeOK, SrcLinesInv, SrcTotal
  <1> QED BY <1>1, <1>2, <1>4, <1>5, <1>6, <1>7, <1>9, <1>10 DEF SrcNext

\* Every line that leaves memory is counted once.
LEMMA SrcCountStep ==
  SrcTypeOK /\ SrcLinesInv /\ SrcCountInv /\ [SrcNext]_srcVars => SrcCountInv'
  <1> SUFFICES ASSUME SrcTypeOK, SrcLinesInv, SrcCountInv, [SrcNext]_srcVars PROVE SrcCountInv'
    OBVIOUS
  <1>1. /\ srcEvicted \in Nat /\ srcNext \in Nat /\ srcExcess \in Nat /\ srcLost \in Nat
        /\ srcPhase = "ready" => srcNext = 0
        /\ srcPhase = "open" => srcNext = 0
        /\ SrcGone = srcEvicted + srcNext
        /\ IsFiniteSet(srcSpilled) /\ srcSpilled \subseteq 0..(SrcGone - 1)
        /\ Cardinality(srcSpilled) \in Nat /\ SrcGone = srcLost + Cardinality(srcSpilled)
    BY FS_CardinalityType DEF SrcTypeOK, SrcLinesInv, SrcCountInv, SrcGone
  <1>2. CASE SrcSpillLine
    <2>1. /\ srcSpilled' = srcSpilled \cup {SrcGone} /\ SrcGone' = SrcGone + 1 /\ srcLost' = srcLost
      BY SMTT(30), <1>1, <1>2, SrcEvictionFacts, SrcAssumption DEF SrcSpillLine, srcLines, SrcGone
    <2>2. SrcGone \notin srcSpilled BY <1>1
    <2>3. /\ IsFiniteSet(srcSpilled') /\ Cardinality(srcSpilled') = Cardinality(srcSpilled) + 1
      BY <1>1, <2>1, <2>2, FS_AddElement
    <2>4. srcSpilled' \subseteq 0..(SrcGone' - 1)
      <3>1. SrcGone \in Nat BY <1>1
      <3>2. srcSpilled \subseteq 0..(SrcGone - 1) /\ srcSpilled' = srcSpilled \cup {SrcGone}
            /\ SrcGone' = SrcGone + 1 BY <1>1, <2>1
      <3>3. \A x \in srcSpilled' : x \in 0..SrcGone BY <3>1, <3>2
      <3> QED BY <3>1, <3>2, <3>3
    <2>5. SrcGone' = srcLost' + Cardinality(srcSpilled') BY <1>1, <2>1, <2>3
    <2> QED BY <2>3, <2>4, <2>5 DEF SrcCountInv
  <1>3. ASSUME NEW k, SrcSpillLineFails(k) PROVE SrcCountInv'
    <2>1. srcSpilled' = srcSpilled /\ SrcGone' = SrcGone + 1 /\ srcLost' = srcLost + 1
      BY <1>1, <1>3 DEF SrcSpillLineFails, srcLines, SrcGone
    <2> QED BY <1>1, <2>1 DEF SrcCountInv
  <1>4. CASE SrcOpenSpillFails \/ SrcSpillCapped \/ SrcSpillDone
    <2>1. srcSpilled' = srcSpilled /\ srcNext' = 0 /\ srcEvicted' = srcEvicted + srcExcess
      BY <1>4 DEF SrcOpenSpillFails, SrcSpillCapped, SrcSpillDone, SrcDrain, srcHistory
    <2>2. srcLost' = srcLost + (srcExcess - srcNext)
      <3>1. CASE SrcOpenSpillFails BY <1>1, <3>1 DEF SrcOpenSpillFails, SrcDrain
      <3>2. CASE SrcSpillCapped BY <3>2 DEF SrcSpillCapped, SrcDrain, SrcMissed
      <3>3. CASE SrcSpillDone BY <1>1, <3>3 DEF SrcSpillDone, SrcDrain
      <3> QED BY <1>4, <3>1, <3>2, <3>3
    <2>3. srcNext <= srcExcess BY DEF SrcLinesInv
    <2>4. SrcGone' = srcEvicted + srcExcess BY <1>1, <2>1 DEF SrcGone
    <2> QED BY <1>1, <2>1, <2>2, <2>3, <2>4 DEF SrcCountInv
  <1>5. CASE UNCHANGED <<srcSpilled, srcLost, srcEvicted, srcNext>> BY <1>5 DEF SrcCountInv, SrcGone
  <1>6. ASSUME NEW b, SrcArrive(b) PROVE SrcCountInv' BY <1>5, <1>6 DEF SrcArrive, srcHistory
  <1>7. ASSUME NEW i, SrcReads(i) PROVE SrcCountInv' BY <1>5, <1>7 DEF SrcReads, srcLines, srcLoop
  <1>8. CASE SrcOpenSpill BY <1>5, <1>8 DEF SrcOpenSpill, srcLines
  <1>9. CASE UNCHANGED srcVars BY <1>5, <1>9 DEF srcVars, srcLines, srcLoop, srcHistory
  <1> QED BY <1>2, <1>3, <1>4, <1>6, <1>7, <1>8, <1>9 DEF SrcNext, SrcRead, SrcSave

\* The file stops growing with the line that reaches the cap.
LEMMA SrcCapStep ==
  SrcTypeOK /\ SrcLinesInv /\ SrcCapInv /\ [SrcNext]_srcVars => SrcCapInv'
  <1> SUFFICES ASSUME SrcTypeOK, SrcLinesInv, SrcCapInv, [SrcNext]_srcVars PROVE SrcCapInv' OBVIOUS
  <1> USE SrcAssumption
  <1>1. CASE SrcSpillLine
    <2>1. srcRaw[srcNext + 1] = SrcGone /\ SrcGone \in 0..(SrcTotal - 1)
      BY <1>1, SrcEvictionFacts DEF SrcSpillLine
    <2>2. srcWidth \in Seq(SrcWidths) BY DEF SrcTypeOK
    <2>3. Len(SrcRecord(SrcGone)) = srcWidth[SrcGone + 1] + 1 /\ srcWidth[SrcGone + 1] \in 0..SrcMaxWidth
      BY <2>1, <2>2, SrcRecordProperties
    <2>4. Len(SrcRecord(SrcGone)) \in 1..(SrcMaxWidth + 1) /\ srcRaw[srcNext + 1] = SrcGone
      BY <2>1, <2>3 DEF SrcAssumption
    <2>5. /\ ~srcCapped /\ srcBytes' = srcBytes + Len(SrcRecord(SrcGone))
          /\ srcCapped' <=> srcBytes' >= SrcCap BY <1>1, <2>4 DEF SrcSpillLine, SrcCapReached
    <2>6. srcBytes \in Nat /\ srcBytes < SrcCap /\ SrcCap \in Nat /\ SrcMaxWidth \in Nat
      BY <2>5 DEF SrcCapInv, SrcAssumption, SrcTypeOK
    <2> QED BY <2>4, <2>5, <2>6 DEF SrcCapInv
  <1>2. CASE UNCHANGED <<srcBytes, srcCapped>> BY <1>2 DEF SrcCapInv
  <1>3. ASSUME NEW b, SrcArrive(b) PROVE SrcCapInv' BY <1>2, <1>3 DEF SrcArrive, srcFile
  <1>4. ASSUME NEW i, SrcReads(i) PROVE SrcCapInv' BY <1>2, <1>4 DEF SrcReads
  <1>5. ASSUME NEW missed, SrcDrain(missed) PROVE SrcCapInv' BY <1>2, <1>5 DEF SrcDrain, srcFile
  <1>6. ASSUME NEW k, SrcSpillLineFails(k) PROVE SrcCapInv' BY <1>2, <1>6 DEF SrcSpillLineFails
  <1>7. CASE SrcOpenSpill BY <1>2, <1>7 DEF SrcOpenSpill
  <1>8. CASE UNCHANGED srcVars BY <1>2, <1>8 DEF srcVars, srcFile
  <1> QED BY <1>1, <1>3, <1>4, <1>5, <1>6, <1>7, <1>8 DEF SrcNext, SrcRead, SrcSave,
    SrcOpenSpillFails, SrcSpillCapped, SrcSpillDone

\* What is in the file stays there while lines only arrive or leave memory.
LEMMA SrcFileKept ==
  ASSUME SrcTypeOK, SrcLinesInv, SrcCountInv, SrcFileInv, UNCHANGED <<srcFile, srcSpilled>>,
         SrcTotal' \in Nat, SrcTotal <= SrcTotal',
         \A i \in 1..SrcTotal : srcWidth'[i] = srcWidth[i],
         SrcGone' \in Nat, SrcGone <= SrcGone',
         ~srcCapped => SrcGone' = SrcGone
  PROVE  SrcFileInv'
  <1>1. /\ SrcWritten \in Nat /\ SrcWritten <= SrcTotal /\ SrcTotal \in Nat /\ SrcGone \in Nat
        /\ SrcWritten <= SrcGone
    <2>1. SrcWritten \in Nat /\ SrcTotal \in Nat /\ SrcGone \in Nat /\ SrcWritten <= SrcGone
      BY LenProperties DEF SrcTypeOK, SrcWritten, SrcTotal, SrcGone, SrcFileInv
    <2>2. SrcGone <= SrcTotal BY SrcEvictionFacts, SrcAssumption DEF SrcGone, SrcLinesInv, SrcTypeOK
    <2> QED BY <2>1, <2>2
  <1>2. ASSUME NEW i \in 0..(SrcWritten - 1)
        PROVE /\ SrcRecord(i)' = SrcRecord(i) /\ srcWidth'[i + 1] = srcWidth[i + 1]
              /\ SrcEnd(i)' = SrcEnd(i) /\ SrcOffset(i)' = SrcOffset(i)
    <2>1. i + 1 \in 1..SrcTotal BY <1>1
    <2> QED BY <2>1 DEF SrcRecord, SrcContent, SrcEnd, SrcOffset, srcFile
  <1>3. UNCHANGED <<srcOpened, srcOffsets, srcBytes, srcCapped, srcDisk, srcCursor, srcSpilled,
                    SrcWritten>> BY DEF srcFile, SrcWritten
  <1> QED BY <1>1, <1>2, <1>3 DEF SrcFileInv

\* A line written at the end of the file.
LEMMA SrcFileGrows ==
  ASSUME SrcAssumption, SrcTypeOK, SrcLinesInv, SrcCountInv, SrcFileInv, SrcSpillLine
  PROVE  SrcFileInv'
  <1>1. srcDisk \in Seq(SrcByte) /\ srcOffsets \in Seq(Nat) /\ srcBytes \in Nat /\ SrcWritten \in Nat
    BY LenProperties DEF SrcTypeOK, SrcByte, SrcWritten
  <1>2. PICK K \in Nat : K = SrcWritten BY <1>1
  <1>3. /\ K = SrcGone /\ srcRaw[srcNext + 1] = K /\ K \in 0..(SrcTotal - 1) /\ srcOpened
        /\ Len(srcDisk) = srcBytes /\ srcCursor = srcBytes
        /\ srcSpilled = 0..(K - 1) /\ Len(srcOffsets) = K
    <2>1. srcOpened /\ ~srcCapped /\ srcNext < srcExcess BY DEF SrcSpillLine, SrcLinesInv
    <2>2. srcRaw[srcNext + 1] = SrcGone /\ SrcGone \in 0..(SrcTotal - 1) BY <2>1, SrcEvictionFacts
    <2> QED BY <1>2, <2>1, <2>2 DEF SrcFileInv, SrcWritten
  <1>4. /\ srcWidth[K + 1] \in 0..SrcMaxWidth /\ Len(SrcRecord(K)) = srcWidth[K + 1] + 1
        /\ SrcRecord(K) \in Seq(SrcByte)
    <2>1. srcWidth \in Seq(SrcWidths) BY DEF SrcTypeOK
    <2> QED BY <1>3, <2>1, SrcRecordProperties
  <1>5. PICK w \in Nat : w = srcWidth[K + 1] /\ Len(SrcRecord(K)) = w + 1 BY <1>4
  <1>6. /\ srcOffsets' = Append(srcOffsets, srcBytes)
        /\ srcDisk' = SrcOverwrite(srcDisk, srcCursor, SrcRecord(K))
        /\ srcCursor' = srcCursor + Len(SrcRecord(K)) /\ srcBytes' = srcBytes + Len(SrcRecord(K))
        /\ srcSpilled' = srcSpilled \cup {K} /\ srcNext' = srcNext + 1
        /\ UNCHANGED <<srcWidth, srcOpened, srcEvicted>> BY <1>3 DEF SrcSpillLine, srcLines
  <1>7. SrcGone' = SrcGone + 1 BY <1>6 DEF SrcGone, SrcTypeOK
  <1>8. /\ srcDisk' = SrcOverwrite(srcDisk, srcBytes, SrcRecord(K))
        /\ srcCursor' = srcBytes + (w + 1) /\ srcBytes' = srcBytes + (w + 1) BY <1>3, <1>5, <1>6
  <1>9. /\ SrcWritten' = K + 1 /\ srcOffsets'[K + 1] = srcBytes
        /\ \A i \in 1..K : srcOffsets'[i] = srcOffsets[i] BY <1>1, <1>3, <1>6 DEF SrcWritten
  <1>10. /\ Len(srcDisk') = srcBytes'
         /\ \A i \in 1..srcBytes : srcDisk'[i] = srcDisk[i]
         /\ \A j \in 1..(w + 1) : srcDisk'[srcBytes + j] = SrcRecord(K)[j]
    <2>1. /\ Len(SrcOverwrite(srcDisk, srcBytes, SrcRecord(K))) = Len(srcDisk) + Len(SrcRecord(K))
          /\ \A i \in 1..Len(srcDisk) : SrcOverwrite(srcDisk, srcBytes, SrcRecord(K))[i] = srcDisk[i]
          /\ \A j \in 1..Len(SrcRecord(K)) :
                SrcOverwrite(srcDisk, srcBytes, SrcRecord(K))[srcBytes + j] = SrcRecord(K)[j]
      BY ZenonT(30), <1>1, <1>3, <1>4, SrcOverwriteProperties
    <2> QED BY <1>3, <1>5, <1>8, <2>1
  <1>11. srcSpilled' = 0..K BY <1>3, <1>6
  <1>12. \A i \in Nat : SrcRecord(i)' = SrcRecord(i) BY <1>6 DEF SrcRecord, SrcContent
  <1>13. \A i \in 0..(K - 1) :
           /\ SrcOffset(i)' = SrcOffset(i) /\ SrcEnd(i)' = SrcEnd(i) /\ SrcOffset(i) \in Nat
    <2> TAKE i \in 0..(K - 1)
    <2>1. SrcOffset(i)' = SrcOffset(i) /\ SrcOffset(i) \in Nat
      BY <1>1, <1>3, <1>9, ElementOfSeq DEF SrcOffset
    <2>2. SrcEnd(i)' = SrcEnd(i)
      <3>1. CASE i + 1 < K BY <1>3, <1>9, <1>2, <3>1 DEF SrcEnd, SrcWritten
      <3>2. CASE i + 1 = K BY <1>3, <1>9, <1>2, <3>2 DEF SrcEnd, SrcWritten
      <3> QED BY <1>3, <3>1, <3>2
    <2> QED BY <2>1, <2>2
  <1>14. SrcOffset(K)' = srcBytes /\ SrcEnd(K)' = srcBytes'
    <2>1. Len(srcOffsets') = K + 1 BY <1>3, <1>9 DEF SrcWritten
    <2> QED BY <1>3, <1>9, <2>1 DEF SrcOffset, SrcEnd
  <1>15. ASSUME NEW i \in 0..K
         PROVE /\ SrcEnd(i)' = SrcOffset(i)' + srcWidth'[i + 1] + 1 /\ SrcEnd(i)' <= srcBytes'
               /\ \A j \in 1..(srcWidth'[i + 1] + 1) : srcDisk'[SrcOffset(i)' + j] = SrcRecord(i)'[j]
    <2>1. CASE i = K
      <3>1. SrcEnd(i)' = srcBytes + (w + 1) /\ SrcOffset(i)' = srcBytes /\ srcWidth'[i + 1] = w
        BY <1>5, <1>8, <1>14, <1>6, <2>1
      <3>2. SrcRecord(i)' = SrcRecord(K) BY <1>12, <2>1
      <3> QED BY SMTT(30), <1>1, <1>5, <1>8, <1>10, <3>1, <3>2
    <2>2. CASE i \in 0..(K - 1)
      <3>1. /\ SrcEnd(i) = SrcOffset(i) + srcWidth[i + 1] + 1 /\ SrcEnd(i) <= srcBytes
            /\ \A j \in 1..(srcWidth[i + 1] + 1) : srcDisk[SrcOffset(i) + j] = SrcRecord(i)[j]
        BY <1>2, <2>2 DEF SrcFileInv
      <3>2. srcWidth[i + 1] \in Nat
        <4>1. i \in 0..(SrcTotal - 1) /\ srcWidth \in Seq(SrcWidths)
          BY <1>3, <2>2 DEF SrcTypeOK, SrcTotal
        <4> QED BY <4>1, SrcRecordProperties DEF SrcAssumption
      <3>3. \A j \in 1..(srcWidth[i + 1] + 1) : SrcOffset(i) + j \in 1..srcBytes
        <4>1. SrcOffset(i) \in Nat BY <1>13, <2>2
        <4> QED BY <1>1, <3>1, <3>2, <4>1
      <3>4. SrcEnd(i)' = SrcEnd(i) /\ SrcOffset(i)' = SrcOffset(i) /\ SrcRecord(i)' = SrcRecord(i)
        BY <1>3, <1>12, <1>13, <2>2
      <3>5. SrcEnd(i) <= srcBytes'
        <4>1. SrcOffset(i) \in Nat BY <1>13, <2>2
        <4>2. SrcEnd(i) \in Nat /\ SrcEnd(i) <= srcBytes BY <3>1, <3>2, <4>1
        <4>3. srcBytes' = srcBytes + (w + 1) /\ srcBytes \in Nat /\ w \in Nat BY <1>1, <1>5, <1>8
        <4> QED BY <4>2, <4>3
      <3> QED BY <1>10, <1>6, <3>1, <3>3, <3>4, <3>5
    <2> QED BY <1>3, <2>1, <2>2
  <1>16. SrcWritten' - 1 = K BY <1>3, <1>9
  <1> QED BY <1>3, <1>8, <1>9, <1>10, <1>11, <1>15, <1>16, <1>6, <1>7 DEF SrcFileInv

LEMMA SrcFileStep ==
  SrcInv /\ [SrcNext]_srcVars => (SrcUndisturbed' => SrcFileInv')
  <1> SUFFICES ASSUME SrcInv, [SrcNext]_srcVars, SrcUndisturbed' PROVE SrcFileInv' OBVIOUS
  <1> USE SrcAssumption
  <1>1. /\ SrcTypeOK /\ SrcLinesInv /\ SrcCountInv
        /\ SrcTypeOK' /\ SrcTotal \in Nat /\ SrcGone \in Nat /\ SrcTotal' \in Nat /\ SrcGone' \in Nat
        /\ srcEvicted \in Nat /\ srcNext \in Nat /\ srcExcess \in Nat /\ SrcGone = srcEvicted + srcNext
    BY SMTT(30), SrcLinesStep, LenProperties DEF SrcInv, SrcTypeOK, SrcTotal, SrcGone
  <1>2. SrcUndisturbed /\ SrcFileInv
    <2>1. SrcUndisturbed => SrcFileInv BY DEF SrcInv
    <2>2. ASSUME NEW b, SrcArrive(b) PROVE SrcUndisturbed
      BY <2>2 DEF SrcArrive, srcHistory, SrcUndisturbed
    <2>3. ASSUME NEW missed, SrcDrain(missed) PROVE SrcUndisturbed
      BY <2>3 DEF SrcDrain, srcHistory, SrcUndisturbed
    <2>4. SrcSpillLine => SrcUndisturbed BY DEF SrcSpillLine, SrcUndisturbed
    <2>5. ASSUME NEW k, SrcSpillLineFails(k) PROVE SrcUndisturbed
      BY <2>5 DEF SrcSpillLineFails, SrcUndisturbed
    <2>6. ASSUME SrcOpenSpill PROVE SrcUndisturbed
      <3>1. UNCHANGED <<srcMoved, srcBroken>> BY <2>6 DEF SrcOpenSpill
      <3>2. srcLate' = (srcLate \/ (~srcOpened /\ srcEvicted > 0)) BY <2>6 DEF SrcOpenSpill
      <3>3. ~srcLate BY <3>2, Zenon DEF SrcUndisturbed
      <3> QED BY <3>1, <3>3 DEF SrcUndisturbed
    <2>7. ASSUME NEW i, SrcReads(i) PROVE SrcUndisturbed BY <2>7, Zenon DEF SrcReads, SrcUndisturbed
    <2>8. CASE SrcNext BY <2>8, <2>1, <2>2, <2>3, <2>4, <2>5, <2>6, <2>7 DEF SrcNext,
      SrcOpenSpillFails, SrcSpillCapped, SrcSpillDone, SrcRead, SrcSave
    <2>9. CASE UNCHANGED srcVars BY <2>9 DEF SrcUndisturbed, SrcInv, srcVars, srcHistory
    <2> QED BY <2>8, <2>9
  <1>3. ASSUME NEW n \in 1..SrcMaxBatch, NEW b \in [1..n -> SrcWidths], SrcArrive(b)
        PROVE SrcFileInv'
    <2>1. SrcTotal' = SrcTotal + n /\ \A i \in 1..SrcTotal : srcWidth'[i] = srcWidth[i]
      BY <1>1, <1>3, SrcArrived
    <2>2. UNCHANGED <<srcFile, srcSpilled, SrcGone>> BY <1>3 DEF SrcArrive, srcHistory, SrcGone
    <2> QED BY <1>1, <1>2, <2>1, <2>2, SrcFileKept DEF SrcAssumption
  <1>4. CASE SrcOpenSpill
    <2>1. /\ srcOpened' = TRUE /\ srcLate' = (srcLate \/ (~srcOpened /\ srcEvicted > 0))
          /\ UNCHANGED <<srcWidth, SrcGone, srcOffsets, srcBytes, srcCapped, srcDisk, srcCursor,
                         srcSpilled>>
          /\ srcPhase = "open" BY <1>4 DEF SrcOpenSpill, srcLines, SrcGone
    <2>2. srcOpened \/ (SrcGone = 0 /\ SrcWritten = 0)
      <3>1. ~(~srcOpened /\ srcEvicted > 0) BY <2>1, Zenon DEF SrcUndisturbed
      <3>2. srcOpened \/ srcEvicted = 0 BY <1>1, <3>1
      <3>3. srcNext = 0 BY <1>1, <2>1 DEF SrcLinesInv
      <3> QED BY <1>1, <1>2, <3>2, <3>3 DEF SrcFileInv
    <2>3. \A i \in Nat : /\ SrcRecord(i)' = SrcRecord(i) /\ SrcEnd(i)' = SrcEnd(i)
                         /\ SrcOffset(i)' = SrcOffset(i)
      BY <2>1 DEF SrcRecord, SrcContent, SrcEnd, SrcOffset
    <2>4. SrcWritten' = SrcWritten /\ SrcWritten \in Nat
      BY <1>1, <2>1, LenProperties DEF SrcWritten, SrcTypeOK
    <2> QED BY <1>2, <2>1, <2>2, <2>3, <2>4 DEF SrcFileInv
  <1>5. CASE SrcOpenSpillFails \/ SrcSpillCapped \/ SrcSpillDone
    <2>1. /\ UNCHANGED <<srcWidth, srcFile, srcSpilled>>
          /\ SrcGone' = srcEvicted + srcExcess /\ srcNext <= srcExcess
      BY <1>1, <1>5
      DEF SrcOpenSpillFails, SrcSpillCapped, SrcSpillDone, SrcDrain, srcHistory, SrcGone, SrcLinesInv
    <2>2. CASE SrcSpillCapped \/ SrcSpillDone
      <3>1. srcCapped \/ SrcGone' = SrcGone BY <1>1, <2>1, <2>2 DEF SrcSpillCapped, SrcSpillDone
      <3> QED BY <1>1, <1>2, <2>1, <3>1, SrcFileKept DEF SrcTotal
    <2>3. CASE SrcOpenSpillFails
      <3>1. /\ ~srcOpened /\ SrcWritten = 0 /\ SrcWritten' = 0
            /\ UNCHANGED <<srcOpened, srcOffsets, srcBytes, srcCapped, srcDisk, srcCursor>>
        BY <1>2, <2>1, <2>3 DEF SrcOpenSpillFails, SrcFileInv, srcFile, SrcWritten
      <3> QED BY <1>1, <1>2, <2>1, <3>1 DEF SrcFileInv
    <2> QED BY <1>5, <2>2, <2>3
  <1>6. CASE SrcSpillLine BY <1>1, <1>2, <1>6, SrcFileGrows
  <1>7. ASSUME NEW k, SrcSpillLineFails(k) PROVE SrcFileInv'
    BY <1>7 DEF SrcSpillLineFails, SrcUndisturbed
  <1>8. ASSUME NEW i, SrcReads(i) PROVE SrcFileInv'
    <2>1. srcCursor' = srcCursor BY <1>8, Zenon DEF SrcReads, SrcUndisturbed
    <2>2. UNCHANGED <<srcWidth, srcFile, srcSpilled, SrcGone>>
      BY <1>8, <2>1 DEF SrcReads, srcLines, srcFile, srcLoop, SrcGone
    <2> QED BY <1>1, <1>2, <2>2, SrcFileKept DEF SrcTotal
  <1>9. CASE UNCHANGED srcVars
    <2>1. UNCHANGED <<srcWidth, srcFile, srcSpilled, SrcGone>>
      BY <1>9 DEF srcVars, srcLines, srcLoop, srcHistory, SrcGone
    <2> QED BY <1>1, <1>2, <2>1, SrcFileKept DEF SrcTotal
  <1> QED BY <1>3, <1>4, <1>5, <1>6, <1>7, <1>8, <1>9 DEF SrcNext, SrcRead, SrcSave

LEMMA SrcInitially == SrcInit => SrcInv
  <1> SUFFICES ASSUME SrcInit PROVE SrcInv OBVIOUS
  <1> USE SrcAssumption DEF SrcAssumption
  <1>1. SrcTotal = 0 /\ SrcWritten = 0 /\ SrcGone = 0 BY DEF SrcInit, SrcTotal, SrcWritten, SrcGone
  <1>2. SrcTypeOK
    <2>1. /\ srcWidth \in Seq(SrcWidths) /\ srcRaw \in Seq(Nat) /\ srcOffsets \in Seq(Nat)
          /\ srcDisk \in Seq((Nat \cup {-1}) \X Nat) BY EmptySeq DEF SrcInit
    <2> QED BY <2>1 DEF SrcInit, SrcTypeOK
  <1>3. SrcLinesInv BY <1>1 DEF SrcInit, SrcLinesInv, SrcSpan
  <1>4. SrcCountInv BY <1>1, FS_EmptySet DEF SrcInit, SrcCountInv
  <1>5. SrcCapInv BY DEF SrcInit, SrcCapInv
  <1>6. SrcFileInv BY <1>1 DEF SrcInit, SrcFileInv
  <1> QED BY <1>2, <1>3, <1>4, <1>5, <1>6 DEF SrcInv

LEMMA SrcStep == SrcInv /\ [SrcNext]_srcVars => SrcInv'
  BY SrcLinesStep, SrcCountStep, SrcCapStep, SrcFileStep DEF SrcInv

\* What the file says of a line that was written.
LEMMA SrcReadsBack ==
  ASSUME SrcAssumption, SrcTypeOK, SrcFileInv, NEW i \in 0..(SrcWritten - 1), i < SrcTotal
  PROVE  SrcReadLine(i) = SrcContent(i)
  <1>1. /\ srcDisk \in Seq(SrcByte) /\ srcOffsets \in Seq(Nat) /\ srcBytes \in Nat /\ i \in Nat
        /\ Len(srcOffsets) = SrcWritten /\ SrcWritten \in Nat /\ Len(srcDisk) = srcBytes
        /\ i < SrcWritten BY LenProperties DEF SrcTypeOK, SrcByte, SrcWritten, SrcFileInv
  <1>2. i \in 0..(SrcTotal - 1) /\ srcWidth \in Seq(SrcWidths)
    BY LenProperties DEF SrcTypeOK, SrcTotal
  <1>3. PICK w \in Nat : /\ w = srcWidth[i + 1] /\ Len(SrcContent(i)) = w
                         /\ SrcContent(i) \in Seq(SrcByte)
                         /\ \A j \in 1..w : SrcRecord(i)[j] = SrcContent(i)[j]
    BY <1>2, SrcRecordProperties DEF SrcAssumption
  <1>4. PICK o \in Nat : o = SrcOffset(i) BY <1>1, ElementOfSeq DEF SrcOffset
  <1>5. /\ SrcEnd(i) = o + w + 1 /\ o + w + 1 <= srcBytes
        /\ \A j \in 1..(w + 1) : srcDisk[o + j] = SrcRecord(i)[j] BY <1>3, <1>4 DEF SrcFileInv
  <1>6. SrcReadLine(i) = SubSeq(srcDisk, o + 1, o + w)
    <2>1. ~(i >= Len(srcOffsets)) /\ ~(SrcEnd(i) <= SrcOffset(i)) /\ SrcEnd(i) - 1 = o + w
          /\ ~(SrcEnd(i) - 1 > Len(srcDisk)) BY SMTT(30), <1>1, <1>3, <1>4, <1>5
    <2> QED BY <1>4, <2>1 DEF SrcReadLine
  <1> DEFINE read == SubSeq(srcDisk, o + 1, o + w)
  <1>7. \A j \in (o + 1)..(o + w) : srcDisk[j] \in SrcByte
    BY SMTT(30), <1>1, <1>3, <1>4, <1>5, ElementOfSeq
  <1>8. /\ read \in Seq(SrcByte) /\ Len(read) = w
        /\ \A j \in 1..(o + w - (o + 1) + 1) : read[j] = srcDisk[o + 1 + j - 1]
    <2>1. o + 1 \in Int /\ o + w \in Int /\ (o + 1 <= o + w <=> w > 0)
          /\ o + w - (o + 1) + 1 = w
      OBVIOUS
    <2>2. /\ read \in Seq(SrcByte) /\ Len(read) = IF o + 1 <= o + w THEN o + w - (o + 1) + 1 ELSE 0
          /\ \A j \in 1..(o + w - (o + 1) + 1) : read[j] = srcDisk[o + 1 + j - 1]
      BY <1>7, <2>1, SubSeqProperties
    <2> QED BY <2>1, <2>2
  <1> HIDE DEF read
  <1>9. \A j \in 1..w : read[j] = SrcContent(i)[j]
    <2> TAKE j \in 1..w
    <2>1. j \in 1..(o + w - (o + 1) + 1) /\ o + 1 + j - 1 = o + j /\ j \in 1..(w + 1) OBVIOUS
    <2> QED BY <1>3, <1>5, <1>8, <2>1
  <1>10. read = SrcContent(i) BY <1>3, <1>8, <1>9, SeqEqual
  <1> QED BY <1>6, <1>10 DEF read

LEMMA SrcInvMeansSound == SrcInv => SrcSound
  <1> SUFFICES ASSUME SrcInv PROVE SrcSound OBVIOUS
  <1> USE SrcAssumption
  <1>1. SrcTypeOK /\ SrcLinesInv /\ SrcCountInv /\ SrcCapInv BY DEF SrcInv
  <1>2. SrcEveryLineAccountedFor BY <1>1, SrcEvictionFacts DEF SrcEveryLineAccountedFor,
    SrcLinesInv, SrcCountInv, SrcSpan
  <1>3. ASSUME srcPhase = "ready", SrcUndisturbed, NEW l \in 0..(SrcTotal - 1) PROVE SrcFaithful(l)
    <2>1. SrcFileInv /\ SrcTotal \in Nat /\ srcEvicted \in Nat /\ l \in Nat /\ l < SrcTotal
          /\ srcEvicted <= SrcTotal /\ Len(srcRaw) = SrcTotal - srcEvicted
          /\ SrcWritten \in Nat /\ SrcWritten <= srcEvicted /\ srcSpilled = 0..(SrcWritten - 1)
      BY <1>1, <1>3, SrcEvictionFacts, LenProperties
      DEF SrcInv, SrcTypeOK, SrcFileInv, SrcLinesInv, SrcWritten
    <2>2. CASE l >= srcEvicted
      <3>1. l - srcEvicted + 1 \in 1..(SrcTotal - srcEvicted)
            /\ l - srcEvicted < Len(srcRaw) BY <2>1, <2>2
      <3>2. srcRaw[l - srcEvicted + 1] = l BY <1>1, <2>1, <3>1 DEF SrcLinesInv, SrcSpan
      <3> QED BY <2>1, <2>2, <3>1, <3>2 DEF SrcFaithful, SrcRawLine
    <2>3. CASE l < srcEvicted /\ l \in srcSpilled
      <3>1. l \in 0..(SrcWritten - 1) /\ srcOpened BY <2>1, <2>3 DEF SrcFileInv
      <3>2. SrcReadLine(l) = SrcContent(l) BY <1>1, <2>1, <3>1, SrcReadsBack
      <3> QED BY <2>3, <3>1, <3>2 DEF SrcFaithful, SrcRawLine
    <2>4. CASE l < srcEvicted /\ l \notin srcSpilled
      <3>1. l >= Len(srcOffsets) BY <2>1, <2>4 DEF SrcWritten
      <3> QED BY <2>4, <3>1 DEF SrcFaithful, SrcRawLine, SrcReadLine
    <2> QED BY <2>1, <2>2, <2>3, <2>4
  <1> QED BY <1>1, <1>2, <1>3 DEF SrcSound, SrcSpillFaithful, SrcCapInv

\* The type invariant of the source holds for any cap and any lines.
THEOREM SrcTypeCorrect == SrcSpec => []SrcTypeOK
  <1>1. SrcInv => SrcTypeOK BY DEF SrcInv
  <1> QED BY <1>1, SrcInitially, SrcStep, PTL DEF SrcSpec

\* No line of a capture goes uncounted, the spill file stays within its
\* cap, and what nothing disturbed reads back as it arrived
\* (core/log_source.rs:699-739, 846-899).
THEOREM SrcNothingUncounted == SrcSpec => []SrcSound
  BY SrcInitially, SrcStep, SrcInvMeansSound, PTL DEF SrcSpec

----------------------------------------
\* The session registry: types.

SesAnyId == SesIds \cup {SesNone}
SesLiveRecs == [gen : 0..SesMaxGen, indexed : Seq(Nat), indexing : BOOLEAN]
SesIndexerRecs == [pc : {"none", "check", "chunk", "finish", "ended"}, id : SesAnyId, cursor : Nat]
SesOpenPcs == {"idle", "rescue", "take", "list", "task", "live", "artifacts", "announce", "load",
               "insert", "restore", "spawn", "answer"}
SesOpenRecs == [pc : SesOpenPcs, id : SesAnyId, mine : SUBSET SesMarks, left : SUBSET SesIds,
                gone : SUBSET SesIds, gen : 0..SesMaxGen]

\* An open call under way has an id of a file; while it closes a session
\* there is one left to close.
SesCallTypes ==
  /\ \A o \in SesOpeners :
       /\ sesOpen[o].pc # "idle" => sesOpen[o].id \in SesIds
       /\ sesOpen[o].pc \in {"live", "artifacts"} => sesOpen[o].left # {}
       /\ sesOpen[o].pc \in {"insert", "restore", "spawn", "answer"} => sesOpen[o].gen # 0
  /\ sesClose.pc # "idle" => sesClose.id \in SesIds
  /\ sesPush.mark # "none" => sesPush.id \in SesIds
  /\ \A g \in SesGens : sesIndexer[g].pc \in {"check", "chunk", "finish"} => sesIndexer[g].id \in SesIds

SesTypeInv == SesTypeOK /\ SesCallTypes

\* What a step of an open call does to its locals.
LEMMA SesSetPc ==
  ASSUME NEW o \in SesOpeners, sesOpen \in [SesOpeners -> SesOpenRecs], NEW pc \in SesOpenPcs,
         sesOpen' = [sesOpen EXCEPT ![o].pc = pc]
  PROVE  /\ sesOpen' \in [SesOpeners -> SesOpenRecs] /\ sesOpen'[o].pc = pc
         /\ sesOpen'[o].id = sesOpen[o].id /\ sesOpen'[o].mine = sesOpen[o].mine
         /\ sesOpen'[o].left = sesOpen[o].left /\ sesOpen'[o].gone = sesOpen[o].gone
         /\ sesOpen'[o].gen = sesOpen[o].gen
         /\ \A p \in SesOpeners \ {o} : sesOpen'[p] = sesOpen[p] BY DEF SesOpenRecs

LEMMA SesSetLeft ==
  ASSUME NEW o \in SesOpeners, sesOpen \in [SesOpeners -> SesOpenRecs], NEW pc \in SesOpenPcs, NEW left \in SUBSET SesIds,
         sesOpen' = [sesOpen EXCEPT ![o].pc = pc, ![o].left = left]
  PROVE  /\ sesOpen' \in [SesOpeners -> SesOpenRecs] /\ sesOpen'[o].pc = pc
         /\ sesOpen'[o].id = sesOpen[o].id /\ sesOpen'[o].mine = sesOpen[o].mine
         /\ sesOpen'[o].left = left /\ sesOpen'[o].gone = sesOpen[o].gone
         /\ sesOpen'[o].gen = sesOpen[o].gen
         /\ \A p \in SesOpeners \ {o} : sesOpen'[p] = sesOpen[p] BY DEF SesOpenRecs

LEMMA SesSetMine ==
  ASSUME NEW o \in SesOpeners, sesOpen \in [SesOpeners -> SesOpenRecs], NEW pc \in SesOpenPcs, NEW mine \in SUBSET SesMarks, NEW left \in SUBSET SesIds,
         sesOpen' = [sesOpen EXCEPT ![o].pc = pc, ![o].mine = mine, ![o].left = left]
  PROVE  /\ sesOpen' \in [SesOpeners -> SesOpenRecs] /\ sesOpen'[o].pc = pc
         /\ sesOpen'[o].id = sesOpen[o].id /\ sesOpen'[o].mine = mine /\ sesOpen'[o].left = left
         /\ sesOpen'[o].gone = sesOpen[o].gone /\ sesOpen'[o].gen = sesOpen[o].gen
         /\ \A p \in SesOpeners \ {o} : sesOpen'[p] = sesOpen[p] BY DEF SesOpenRecs

LEMMA SesSetGone ==
  ASSUME NEW o \in SesOpeners, sesOpen \in [SesOpeners -> SesOpenRecs], NEW pc \in SesOpenPcs, NEW left \in SUBSET SesIds, NEW gone \in SUBSET SesIds,
         sesOpen' = [sesOpen EXCEPT ![o].pc = pc, ![o].left = left, ![o].gone = gone]
  PROVE  /\ sesOpen' \in [SesOpeners -> SesOpenRecs] /\ sesOpen'[o].pc = pc
         /\ sesOpen'[o].id = sesOpen[o].id /\ sesOpen'[o].mine = sesOpen[o].mine
         /\ sesOpen'[o].left = left /\ sesOpen'[o].gone = gone /\ sesOpen'[o].gen = sesOpen[o].gen
         /\ \A p \in SesOpeners \ {o} : sesOpen'[p] = sesOpen[p] BY DEF SesOpenRecs

LEMMA SesSetGen ==
  ASSUME NEW o \in SesOpeners, sesOpen \in [SesOpeners -> SesOpenRecs], NEW pc \in SesOpenPcs, NEW gen \in 0..SesMaxGen,
         sesOpen' = [sesOpen EXCEPT ![o].pc = pc, ![o].gen = gen]
  PROVE  /\ sesOpen' \in [SesOpeners -> SesOpenRecs] /\ sesOpen'[o].pc = pc
         /\ sesOpen'[o].id = sesOpen[o].id /\ sesOpen'[o].mine = sesOpen[o].mine
         /\ sesOpen'[o].left = sesOpen[o].left /\ sesOpen'[o].gone = sesOpen[o].gone
         /\ sesOpen'[o].gen = gen
         /\ \A p \in SesOpeners \ {o} : sesOpen'[p] = sesOpen[p] BY DEF SesOpenRecs

LEMMA SesSetTaken ==
  ASSUME NEW o \in SesOpeners, sesOpen \in [SesOpeners -> SesOpenRecs], NEW pc \in SesOpenPcs, NEW mine \in SUBSET SesMarks,
         sesOpen' = [sesOpen EXCEPT ![o].pc = pc, ![o].mine = mine]
  PROVE  /\ sesOpen' \in [SesOpeners -> SesOpenRecs] /\ sesOpen'[o].pc = pc
         /\ sesOpen'[o].id = sesOpen[o].id /\ sesOpen'[o].mine = mine
         /\ sesOpen'[o].left = sesOpen[o].left /\ sesOpen'[o].gone = sesOpen[o].gone
         /\ sesOpen'[o].gen = sesOpen[o].gen
         /\ \A p \in SesOpeners \ {o} : sesOpen'[p] = sesOpen[p] BY DEF SesOpenRecs

LEMMA SesSetNew ==
  ASSUME NEW o \in SesOpeners, sesOpen \in [SesOpeners -> SesOpenRecs], NEW r \in SesOpenRecs,
         sesOpen' = [sesOpen EXCEPT ![o] = r]
  PROVE  /\ sesOpen' \in [SesOpeners -> SesOpenRecs] /\ sesOpen'[o] = r
         /\ \A p \in SesOpeners \ {o} : sesOpen'[p] = sesOpen[p]
  OBVIOUS

LEMMA SesIdleRec == SesIdle \in SesOpenRecs /\ SesIdle.pc = "idle"
  BY SesAssumption DEF SesIdle, SesOpenRecs, SesOpenPcs, SesAnyId, SesAssumption

----------------------------------------
\* The index.  A generation belongs to one open call at a time, its indexer
\* starts after its session was stored, and only this indexer writes into
\* this instance: what it has read is what the instance holds.
SesHasGen(o) == sesOpen[o].pc \in {"insert", "restore", "spawn"}

SesGensInv ==
  /\ \A g \in SesGens : g >= sesNextGen => sesIndexer[g].pc = "none"
  /\ \A id \in SesIds : sesLive[id].gen < sesNextGen
  /\ \A o \in SesOpeners : SesHasGen(o) =>
       /\ sesOpen[o].gen < sesNextGen /\ sesIndexer[sesOpen[o].gen].pc = "none"
       /\ \A p \in SesOpeners \ {o} : SesHasGen(p) => sesOpen[p].gen # sesOpen[o].gen
       /\ sesOpen[o].pc = "insert" => \A id \in SesIds : sesLive[id].gen # sesOpen[o].gen
       /\ sesOpen[o].pc = "spawn" => SesIndexingNeeded(sesOpen[o].id)
       /\ sesOpen[o].pc \in {"restore", "spawn"} /\ sesLive[sesOpen[o].id].gen = sesOpen[o].gen =>
            Len(sesLive[sesOpen[o].id].indexed) = 1

SesCursorInv ==
  \A g \in SesGens : LET x == sesIndexer[g] IN
    x.pc \in {"check", "chunk"} =>
      /\ x.cursor < SesChunks[x.id.ver]
      /\ sesLive[x.id].gen = g => Len(sesLive[x.id].indexed) = x.cursor + 1

SesIndexInv == SesGensInv /\ SesCursorInv /\ SesIndexIsPrefix

----------------------------------------
\* The registry.  Where calls do not overlap: what is settled between two
\* calls, and how far each step of a call has taken it apart.
SesOne == \A a, b \in SesLiveIds : a = b
SesKeeps(marks) == sesStored \ sesExcused \subseteq marks
SesShows(ids) == "failed" \notin sesExcused => sesShown = ids
SesRefers(ids) == {"failed", "cite"} \cap sesExcused = {} => sesCite \in ids \cup {SesNone}
SesMarksAt(ids) == UNION {sesMarksOf[id] : id \in ids}

SesSettled ==
  /\ SesOne /\ SesKeeps(SesMarksAt(SesLiveIds)) /\ SesShows(SesLiveIds) /\ SesRefers(SesLiveIds)

SesShowsAtMost(id) == "failed" \notin sesExcused => sesShown \subseteq {id}

SesOpenPhase(o) ==
  LET pc == sesOpen[o].pc
      id == sesOpen[o].id
      left == sesOpen[o].left
      gone == sesOpen[o].gone
      mine == sesOpen[o].mine
  IN
  /\ pc = "rescue" => SesSettled
  /\ pc \notin {"idle", "rescue"} => SesRefers({id})
  /\ pc = "take" => SesShows(SesLiveIds) /\ SesKeeps(SesMarksAt(left))
  /\ pc = "list" => SesShows(SesLiveIds)
  /\ pc \in {"list", "task", "live", "artifacts", "announce", "load", "insert", "restore"} =>
       SesKeeps(mine)
  /\ pc \in {"task", "live", "artifacts", "announce"} => SesShows(gone)
  /\ pc \in {"task", "live"} => SesLiveIds = left
  /\ pc = "artifacts" => SesLiveIds = left \ {CHOOSE i \in left : TRUE}
  /\ pc \in {"announce", "load", "insert"} => SesLiveIds = {}
  /\ pc \in {"load", "insert", "restore", "spawn", "answer"} => SesShowsAtMost(id)
  /\ pc \in {"restore", "spawn", "answer"} => SesLiveIds = {id}
  /\ pc \in {"spawn", "answer"} => SesKeeps(sesMarksOf[id])

SesClosePhase ==
  LET id == sesClose.id IN
  /\ sesClose.pc \in {"task", "live"} => SesSettled
  /\ sesClose.pc \in {"artifacts", "announce"} =>
       SesOne /\ id \notin SesLiveIds
       /\ ("failed" \notin sesExcused => sesShown \ {id} = SesLiveIds)
  /\ sesClose.pc = "artifacts" =>
       SesKeeps(SesMarksAt(SesLiveIds) \cup sesMarksOf[id]) /\ SesRefers(SesLiveIds \cup {id})
  /\ sesClose.pc = "announce" =>
       SesKeeps(SesMarksAt(SesLiveIds)) /\ SesRefers(SesLiveIds)

SesPushPhase == sesPush.mark # "none" => SesSettled /\ sesPush.id \in SesLiveIds

SesAlone ==
  /\ \A o \in SesOpeners : sesOpen[o].pc # "idle" =>
       /\ \A p \in SesOpeners \ {o} : sesOpen[p].pc = "idle"
       /\ sesClose.pc = "idle" /\ sesPush.mark = "none"
  /\ sesClose.pc # "idle" => sesPush.mark = "none"

SesRegistryInv ==
  ~sesOverlap =>
    /\ SesAlone
    /\ SesQuiet => SesSettled
    /\ \A o \in SesOpeners : SesOpenPhase(o)
    /\ SesClosePhase /\ SesPushPhase

SesInv == SesTypeInv /\ SesIndexInv /\ SesRegistryInv
----------------------------------------
\* Types.

LEMMA SesIdFacts ==
  /\ SesNone \notin SesIds /\ SesGens = 1..SesMaxGen
  /\ \A id \in SesIds : id.ver \in 0..SesMaxVer /\ SesChunks[id.ver] \in Nat
  BY SesAssumption DEF SesAssumption, SesNone, SesIds, SesGens

LEMMA SesTypeFacts ==
  ASSUME SesTypeInv
  PROVE  /\ sesOpen \in [SesOpeners -> SesOpenRecs] /\ sesLive \in [SesIds -> SesLiveRecs]
         /\ sesIndexer \in [SesGens -> SesIndexerRecs] /\ sesMarksOf \in [SesIds -> SUBSET SesMarks]
         /\ SesLiveIds \subseteq SesIds /\ sesNextGen \in 1..(SesMaxGen + 1)
  BY DEF SesTypeInv, SesTypeOK, SesOpenRecs, SesOpenPcs, SesAnyId, SesLiveRecs, SesIndexerRecs,
    SesLiveIds

\* The locals of a call that goes on.
LEMMA SesOpenTypes ==
  ASSUME SesTypeInv, NEW o \in SesOpeners, SesOpenStep(o)
  PROVE  /\ sesOpen' \in [SesOpeners -> SesOpenRecs]
         /\ \A p \in SesOpeners \ {o} : sesOpen'[p] = sesOpen[p]
         /\ sesOpen'[o].pc # "idle" => sesOpen'[o].id \in SesIds
         /\ sesOpen'[o].pc \in {"live", "artifacts"} => sesOpen'[o].left # {}
         /\ sesOpen'[o].pc \in {"insert", "restore", "spawn", "answer"} => sesOpen'[o].gen # 0
         /\ UNCHANGED <<sesClose, sesPush>>
  <1>1. /\ sesOpen \in [SesOpeners -> SesOpenRecs] /\ SesLiveIds \subseteq SesIds
        /\ sesMarksOf \in [SesIds -> SUBSET SesMarks] /\ sesNextGen \in 1..(SesMaxGen + 1)
        /\ SesMaxGen \in Nat BY SesTypeFacts, SesAssumption DEF SesAssumption
  <1>2. /\ sesOpen[o] \in SesOpenRecs
        /\ sesOpen[o].pc # "idle" => sesOpen[o].id \in SesIds
        /\ sesOpen[o].pc \in {"live", "artifacts"} => sesOpen[o].left # {}
        /\ sesOpen[o].pc \in {"insert", "restore", "spawn", "answer"} => sesOpen[o].gen # 0
    BY <1>1 DEF SesTypeInv, SesCallTypes
  <1>3. UNCHANGED <<sesClose, sesPush>>
    BY DEF SesOpenStep, SesRescue, SesTake, SesListStale, SesCloseStaleTask, SesCloseStaleSession,
      SesCloseStaleArtifacts, SesAnnounceStale, SesLoadFails, SesLoad, SesInsert, SesRestore,
      SesSpawn, SesAnswer
  <1> USE DEF SesOpenPcs
  <1>4. CASE SesRescue(o)
    <2> DEFINE found == {id \in SesLiveIds : SesMigratable(id)}
    <2>1. found \in SUBSET SesIds BY <1>1
    <2>2. sesOpen' = [sesOpen EXCEPT ![o].pc = "take", ![o].left = found] /\ sesOpen[o].pc = "rescue"
      BY <1>4 DEF SesRescue
    <2> HIDE DEF found
    <2> QED BY <1>1, <1>2, <1>3, <2>1, <2>2, SesSetLeft
  <1>5. CASE SesTake(o)
    <2> DEFINE mine == UNION {sesMarksOf[id] : id \in sesOpen[o].left}
    <2>1. mine \in SUBSET SesMarks BY <1>1, <1>2 DEF SesOpenRecs
    <2>2. sesOpen' = [sesOpen EXCEPT ![o].pc = "list", ![o].mine = mine, ![o].left = {}]
          /\ sesOpen[o].pc = "take" BY <1>5 DEF SesTake
    <2> HIDE DEF mine
    <2> QED
      <3>1. {} \in SUBSET SesIds /\ "list" \in SesOpenPcs OBVIOUS
      <3>2. sesOpen' \in [SesOpeners -> SesOpenRecs] /\ sesOpen'[o].pc = "list"
            /\ sesOpen'[o].id = sesOpen[o].id /\ \A p \in SesOpeners \ {o} : sesOpen'[p] = sesOpen[p]
        BY ZenonT(30), <1>1, <2>1, <2>2, <3>1, SesSetMine
      <3> QED BY <1>2, <1>3, <2>2, <3>2
  <1>6. CASE SesListStale(o)
    <2>1. sesOpen' = [sesOpen EXCEPT ![o].pc = "task", ![o].left = SesLiveIds, ![o].gone = SesLiveIds]
          /\ sesOpen[o].pc = "list" BY <1>6 DEF SesListStale, SesStale
    <2> QED
      <3>1. SesLiveIds \in SUBSET SesIds /\ "task" \in SesOpenPcs BY <1>1
      <3>2. sesOpen' \in [SesOpeners -> SesOpenRecs] /\ sesOpen'[o].pc = "task"
            /\ sesOpen'[o].id = sesOpen[o].id /\ \A p \in SesOpeners \ {o} : sesOpen'[p] = sesOpen[p]
        BY ZenonT(30), <1>1, <2>1, <3>1, SesSetGone
      <3> QED BY <1>2, <1>3, <2>1, <3>2
  <1>7. CASE SesCloseStaleTask(o) \/ SesCloseStaleSession(o) \/ SesAnnounceStale(o) \/ SesInsert(o)
             \/ SesSpawn(o)
    <2>1. PICK pc \in SesOpenPcs : /\ sesOpen' = [sesOpen EXCEPT ![o].pc = pc]
                                   /\ sesOpen[o].pc # "idle" /\ pc # "idle"
                                   /\ pc \in {"live", "artifacts"} => sesOpen[o].left # {}
                                   /\ pc \in {"insert", "restore", "spawn", "answer"} => sesOpen[o].gen # 0
      BY <1>2, <1>7
      DEF SesCloseStaleTask, SesCloseStaleSession, SesAnnounceStale, SesInsert, SesSpawn
    <2> QED BY <1>1, <1>2, <1>3, <2>1, SesSetPc
  <1>8. CASE SesCloseStaleArtifacts(o)
    <2> DEFINE rest == sesOpen[o].left \ {CHOOSE id \in sesOpen[o].left : TRUE}
    <2>1. rest \in SUBSET SesIds BY <1>2 DEF SesOpenRecs
    <2>2. sesOpen' = [sesOpen EXCEPT ![o].pc = "task", ![o].left = rest] /\ sesOpen[o].pc = "artifacts"
      BY <1>8 DEF SesCloseStaleArtifacts
    <2> HIDE DEF rest
    <2> QED BY <1>1, <1>2, <1>3, <2>1, <2>2, SesSetLeft
  <1>9. CASE SesLoadFails(o) \/ SesAnswer(o)
    <2>1. sesOpen' = [sesOpen EXCEPT ![o] = SesIdle] BY <1>9 DEF SesLoadFails, SesAnswer
    <2> QED BY <1>1, <1>2, <1>3, <2>1, SesSetNew, SesIdleRec
  <1>10. CASE SesLoad(o)
    <2>1. sesOpen' = [sesOpen EXCEPT ![o].pc = "insert", ![o].gen = sesNextGen]
          /\ sesOpen[o].pc = "load" /\ sesNextGen \in 0..SesMaxGen /\ sesNextGen # 0
      BY <1>1, <1>10 DEF SesLoad
    <2> QED BY ZenonT(30), <1>1, <1>2, <1>3, <2>1, SesSetGen
  <1>11. CASE SesRestore(o)
    <2>1. PICK pc \in {"spawn", "answer"} : sesOpen' = [sesOpen EXCEPT ![o].pc = pc, ![o].mine = {}]
      BY <1>11 DEF SesRestore
    <2>2. sesOpen[o].pc = "restore" BY <1>11 DEF SesRestore
    <2> QED
      <3>1. {} \in SUBSET SesMarks /\ pc \in SesOpenPcs OBVIOUS
      <3>2. sesOpen' \in [SesOpeners -> SesOpenRecs] /\ sesOpen'[o].pc = pc
            /\ sesOpen'[o].id = sesOpen[o].id /\ sesOpen'[o].gen = sesOpen[o].gen
            /\ \A p \in SesOpeners \ {o} : sesOpen'[p] = sesOpen[p] BY <1>1, <2>1, <3>1, SesSetTaken
      <3> QED BY <1>2, <1>3, <2>2, <3>2
  <1> QED BY <1>4, <1>5, <1>6, <1>7, <1>8, <1>9, <1>10, <1>11 DEF SesOpenStep

\* A chunk more in an instance's index.
LEMMA SesIndexGrows ==
  ASSUME NEW id \in SesIds, sesLive \in [SesIds -> SesLiveRecs], NEW n \in Nat, NEW b \in BOOLEAN,
         sesLive' = [sesLive EXCEPT ![id].indexed = Append(@, n), ![id].indexing = b]
  PROVE  /\ sesLive' \in [SesIds -> SesLiveRecs] /\ sesLive'[id].gen = sesLive[id].gen
         /\ sesLive'[id].indexed = Append(sesLive[id].indexed, n) /\ sesLive'[id].indexing = b
         /\ \A i \in SesIds \ {id} : sesLive'[i] = sesLive[i]
  <1>1. \A r \in SesLiveRecs : r.indexed \in Seq(Nat) /\ Append(r.indexed, n) \in Seq(Nat)
    BY DEF SesLiveRecs
  <1> QED BY <1>1 DEF SesLiveRecs

\* What an indexer's step does to the sessions and the indexers.
LEMMA SesIndexerTypes ==
  ASSUME SesTypeInv, NEW g \in SesGens, SesIndexerStep(g)
  PROVE  /\ sesLive' \in [SesIds -> SesLiveRecs] /\ sesIndexer' \in [SesGens -> SesIndexerRecs]
         /\ sesIndexer'[g].pc \in {"check", "chunk", "finish"} => sesIndexer'[g].id \in SesIds
         /\ \A h \in SesGens \ {g} : sesIndexer'[h] = sesIndexer[h]
         /\ sesTasks' \in [SesIds -> 0..SesMaxGen] /\ sesCancelled' \subseteq SesGens
         /\ UNCHANGED <<sesWorld, sesArtifacts, sesCalls, sesHistory>>
  <1>1. /\ sesLive \in [SesIds -> SesLiveRecs] /\ sesIndexer \in [SesGens -> SesIndexerRecs]
        /\ sesTasks \in [SesIds -> 0..SesMaxGen] /\ sesCancelled \subseteq SesGens
        /\ sesIndexer[g].pc \in {"check", "chunk", "finish"} => sesIndexer[g].id \in SesIds
        /\ SesMaxGen \in Nat
    BY SesTypeFacts, SesAssumption DEF SesTypeInv, SesTypeOK, SesCallTypes, SesAssumption
  <1>2. UNCHANGED <<sesWorld, sesArtifacts, sesCalls, sesHistory>>
    BY DEF SesIndexerStep, SesIndexerCheck, SesIndexerChunk, SesIndexerFinish
  <1>3. ASSUME NEW r \in SesIndexerRecs, sesIndexer' = [sesIndexer EXCEPT ![g] = r]
        PROVE /\ sesIndexer' \in [SesGens -> SesIndexerRecs] /\ sesIndexer'[g] = r
              /\ \A h \in SesGens \ {g} : sesIndexer'[h] = sesIndexer[h] BY <1>1, <1>3
  <1>4. [SesNoIndexer EXCEPT !.pc = "ended"] \in SesIndexerRecs
        /\ [SesNoIndexer EXCEPT !.pc = "ended"].pc = "ended"
    BY DEF SesNoIndexer, SesIndexerRecs, SesAnyId
  <1>5. ASSUME SesEnd(g), UNCHANGED <<sesLive, sesTasks>>
        PROVE /\ sesLive' \in [SesIds -> SesLiveRecs]
              /\ sesIndexer' \in [SesGens -> SesIndexerRecs] /\ sesIndexer'[g].pc = "ended"
              /\ \A h \in SesGens \ {g} : sesIndexer'[h] = sesIndexer[h]
              /\ sesTasks' \in [SesIds -> 0..SesMaxGen] /\ sesCancelled' \subseteq SesGens
    BY <1>1, <1>3, <1>4, <1>5 DEF SesEnd
  <1>6. ASSUME NEW r \in SesIndexerRecs, NEW pc \in {"check", "chunk", "finish"}, NEW cursor \in Nat
        PROVE [r EXCEPT !.pc = pc] \in SesIndexerRecs
              /\ [r EXCEPT !.cursor = cursor, !.pc = pc] \in SesIndexerRecs
    BY <1>6 DEF SesIndexerRecs
  <1>7. CASE SesIndexerCheck(g)
    <2>1. CASE g \in sesCancelled BY <1>2, <1>5, <1>7, <2>1 DEF SesIndexerCheck
    <2>2. CASE g \notin sesCancelled
      <3>1. /\ sesIndexer' = [sesIndexer EXCEPT ![g] = [sesIndexer[g] EXCEPT !.pc = "chunk"]]
            /\ sesIndexer[g].pc = "check" /\ UNCHANGED <<sesCancelled, sesLive, sesTasks>>
        BY <1>7, <2>2 DEF SesIndexerCheck
      <3>2. [sesIndexer[g] EXCEPT !.pc = "chunk"] \in SesIndexerRecs BY <1>1, <1>6
      <3>3. [sesIndexer[g] EXCEPT !.pc = "chunk"].id = sesIndexer[g].id BY <1>1 DEF SesIndexerRecs
      <3> QED BY <1>1, <1>2, <1>3, <3>1, <3>2, <3>3
    <2> QED BY <2>1, <2>2
  <1>8. CASE SesIndexerChunk(g)
    <2> DEFINE id == sesIndexer[g].id
               next == sesIndexer[g].cursor + 1
               done == next >= SesChunks[id.ver]
    <2>1. sesIndexer[g].pc = "chunk" /\ sesTasks' = sesTasks /\ id \in SesIds /\ next \in Nat
      BY <1>1, <1>8 DEF SesIndexerChunk, SesIndexerRecs
    <2>2. CASE SesIsLive(id) /\ SesSameInstance(g)
      <3>1. /\ sesLive' = [sesLive EXCEPT ![id].indexed = Append(@, next), ![id].indexing = ~done]
            /\ sesIndexer' = [sesIndexer EXCEPT ![g].cursor = next,
                                                ![g].pc = IF done THEN "finish" ELSE "check"]
            /\ UNCHANGED sesCancelled BY <1>8, <2>2 DEF SesIndexerChunk
      <3>2. sesLive' \in [SesIds -> SesLiveRecs]
        <4>1. (~done) \in BOOLEAN OBVIOUS
        <4> HIDE DEF id, next, done
        <4> QED BY <1>1, <2>1, <3>1, <4>1, SesIndexGrows
      <3>3. PICK pc \in {"check", "finish"} :
              sesIndexer' = [sesIndexer EXCEPT ![g] = [sesIndexer[g] EXCEPT !.cursor = next, !.pc = pc]]
        BY <3>1
      <3>4. [sesIndexer[g] EXCEPT !.cursor = next, !.pc = pc] \in SesIndexerRecs BY <1>1, <1>6, <2>1
      <3>5. [sesIndexer[g] EXCEPT !.cursor = next, !.pc = pc].id = id BY <1>1 DEF SesIndexerRecs
      <3> QED BY <1>1, <1>2, <1>3, <2>1, <3>1, <3>2, <3>3, <3>4, <3>5
    <2>3. CASE ~(SesIsLive(id) /\ SesSameInstance(g))
      <3>1. SesEnd(g) /\ UNCHANGED sesLive BY <1>8, <2>3 DEF SesIndexerChunk
      <3> QED BY <1>2, <1>5, <2>1, <3>1
    <2> QED BY <2>2, <2>3
  <1>9. CASE SesIndexerFinish(g)
    <2>1. /\ sesTasks' = [sesTasks EXCEPT ![sesIndexer[g].id] = 0] /\ sesIndexer[g].pc = "finish"
          /\ sesIndexer' = [sesIndexer EXCEPT ![g] = [SesNoIndexer EXCEPT !.pc = "ended"]]
          /\ sesCancelled' = sesCancelled \cup ({sesTasks[sesIndexer[g].id]} \ {0}) \cup {g}
          /\ UNCHANGED sesLive BY <1>9 DEF SesIndexerFinish, SesDropSender
    <2>2. sesTasks' \in [SesIds -> 0..SesMaxGen] /\ sesCancelled' \subseteq SesGens
      BY <1>1, <2>1 DEF SesGens
    <2> QED BY <1>1, <1>2, <1>3, <1>4, <2>1, <2>2
  <1> QED BY <1>7, <1>8, <1>9 DEF SesIndexerStep

\* The rest of the state, by step of an open call.
SesRestTypes ==
  /\ sesDisk \in 0..SesMaxVer /\ sesLive \in [SesIds -> SesLiveRecs]
  /\ sesTasks \in [SesIds -> 0..SesMaxGen] /\ sesCancelled \subseteq SesGens
  /\ sesIndexer \in [SesGens -> SesIndexerRecs] /\ sesMarksOf \in [SesIds -> SUBSET SesMarks]
  /\ sesCite \in SesAnyId /\ sesNextGen \in 1..(SesMaxGen + 1) /\ sesShown \subseteq SesIds
  /\ sesStored \subseteq SesMarks /\ sesExcused \subseteq SesMarks \cup {"failed", "cite"}
  /\ sesOverlap \in BOOLEAN
  /\ \A g \in SesGens : sesIndexer[g].pc \in {"check", "chunk", "finish"} => sesIndexer[g].id \in SesIds

LEMMA SesTypeParts ==
  SesTypeInv <=>
    /\ SesRestTypes /\ sesOpen \in [SesOpeners -> SesOpenRecs]
    /\ \A o \in SesOpeners :
         /\ sesOpen[o].pc # "idle" => sesOpen[o].id \in SesIds
         /\ sesOpen[o].pc \in {"live", "artifacts"} => sesOpen[o].left # {}
         /\ sesOpen[o].pc \in {"insert", "restore", "spawn", "answer"} => sesOpen[o].gen # 0
    /\ sesClose \in [pc : {"idle", "task", "live", "artifacts", "announce"}, id : SesAnyId]
    /\ sesPush \in [mark : SesMarks \cup {"none"}, id : SesAnyId]
    /\ sesClose.pc # "idle" => sesClose.id \in SesIds
    /\ sesPush.mark # "none" => sesPush.id \in SesIds
  BY DEF SesTypeInv, SesTypeOK, SesCallTypes, SesRestTypes, SesOpenRecs, SesOpenPcs, SesAnyId,
    SesLiveRecs, SesIndexerRecs

LEMMA SesNewRecords ==
  /\ SesNoSession \in SesLiveRecs
  /\ \A id \in SesIds : [pc |-> "check", id |-> id, cursor |-> 0] \in SesIndexerRecs
  /\ \A g \in 0..SesMaxGen, b \in BOOLEAN : [gen |-> g, indexed |-> <<0>>, indexing |-> b] \in SesLiveRecs
  BY SesAssumption DEF SesAssumption, SesNoSession, SesLiveRecs, SesIndexerRecs, SesAnyId

LEMMA SesSenderTypes ==
  ASSUME SesRestTypes, NEW id \in SesIds
  PROVE  SesDropSender(id) \subseteq SesGens
  <1>1. sesTasks[id] \in 0..SesMaxGen /\ sesCancelled \subseteq SesGens /\ SesMaxGen \in Nat
    BY SesAssumption DEF SesRestTypes, SesAssumption
  <1>2. {sesTasks[id]} \ {0} \subseteq SesGens BY <1>1 DEF SesGens
  <1> QED BY <1>1, <1>2 DEF SesDropSender

LEMMA SesOpenRest ==
  ASSUME SesTypeInv, NEW o \in SesOpeners, SesOpenStep(o)
  PROVE  SesRestTypes'
  <1>1. SesRestTypes /\ sesOpen[o] \in SesOpenRecs BY SesTypeParts
  <1>2. /\ sesOpen[o].pc # "idle" => sesOpen[o].id \in SesIds
        /\ sesOpen[o].pc \in {"live", "artifacts"} => sesOpen[o].left # {}
        /\ sesOpen[o].pc \in {"insert", "restore", "spawn", "answer"} =>
             sesOpen[o].gen # 0 /\ sesOpen[o].gen \in SesGens
        /\ SesMaxGen \in Nat /\ sesOpen[o].left \subseteq SesIds /\ sesOpen[o].mine \subseteq SesMarks
        /\ sesOpen[o].gen \in 0..SesMaxGen
    BY SesTypeParts, SesAssumption DEF SesAssumption, SesOpenRecs, SesGens
  <1>3. sesOpen[o].pc \in {"live", "artifacts"} =>
          (CHOOSE id \in sesOpen[o].left : TRUE) \in SesIds BY <1>2
  <1>4. CASE SesRescue(o)
    <2> DEFINE found == {id \in SesLiveIds : SesMigratable(id)}
               gone == UNION {sesMarksOf[id] \cup {"cite"} : id \in {i \in SesLiveIds : i.ver # sesDisk}}
    <2>1. /\ sesCite' = (IF sesCite \in found THEN sesOpen[o].id ELSE sesCite)
          /\ sesExcused' = sesExcused \cup gone /\ sesOpen[o].pc = "rescue"
          /\ UNCHANGED <<sesWorld, sesIndexing, sesMarksOf, sesOverlap, sesStored>>
      BY <1>4 DEF SesRescue
    <2>2. gone \subseteq SesMarks \cup {"cite"} BY <1>1 DEF SesRestTypes, SesLiveIds
    <2> HIDE DEF found, gone
    <2> QED BY <1>1, <1>2, <2>1, <2>2 DEF SesRestTypes, SesAnyId, sesWorld, sesIndexing
  <1>5. CASE SesTake(o)
    <2>1. sesMarksOf' \in [SesIds -> SUBSET SesMarks] BY <1>1, <1>5 DEF SesTake, SesRestTypes
    <2>2. UNCHANGED <<sesWorld, sesIndexing, sesCite, sesHistory>> BY <1>5 DEF SesTake
    <2> QED BY <1>1, <2>1, <2>2 DEF SesRestTypes, sesWorld, sesIndexing, sesHistory
  <1>6. CASE SesListStale(o)
    BY <1>1, <1>6 DEF SesListStale, SesRestTypes, sesWorld, sesIndexing, sesArtifacts, sesHistory
  <1>7. CASE SesCloseStaleTask(o)
    <2>1. sesTasks' \in [SesIds -> 0..SesMaxGen] /\ sesCancelled' \subseteq SesGens
      <3>1. CASE sesOpen[o].left = {} BY <1>1, <1>7, <3>1 DEF SesCloseStaleTask, SesRestTypes
      <3>2. CASE sesOpen[o].left # {}
        <4>1. PICK id \in SesIds : SesRemoveTask(id) BY <1>2, <1>7, <3>2 DEF SesCloseStaleTask
        <4> QED BY <1>1, <1>2, <4>1, SesSenderTypes DEF SesRemoveTask, SesRestTypes
      <3> QED BY <3>1, <3>2
    <2>2. UNCHANGED <<sesWorld, sesLive, sesIndexer, sesArtifacts, sesHistory>>
      BY <1>7 DEF SesCloseStaleTask
    <2> QED BY <1>1, <2>1, <2>2 DEF SesRestTypes, sesWorld, sesArtifacts, sesHistory
  <1>8. CASE SesCloseStaleSession(o)
    <2>1. PICK id : id \in SesIds /\ sesLive' = [sesLive EXCEPT ![id] = SesNoSession]
      BY <1>3, <1>8 DEF SesCloseStaleSession, SesRemoveSession
    <2>2. sesLive' \in [SesIds -> SesLiveRecs] BY <1>1, <2>1, SesNewRecords DEF SesRestTypes
    <2>3. UNCHANGED <<sesWorld, sesTasks, sesCancelled, sesIndexer, sesArtifacts, sesHistory>>
      BY <1>8 DEF SesCloseStaleSession
    <2> QED BY <1>1, <2>2, <2>3 DEF SesRestTypes, sesWorld, sesArtifacts, sesHistory
  <1>9. CASE SesCloseStaleArtifacts(o)
    <2>1. PICK id : id \in SesIds /\ sesMarksOf' = [sesMarksOf EXCEPT ![id] = {}]
      BY <1>3, <1>9 DEF SesCloseStaleArtifacts, SesRemoveArtifacts
    <2>2. sesMarksOf' \in [SesIds -> SUBSET SesMarks] BY <1>1, <2>1 DEF SesRestTypes
    <2>3. UNCHANGED <<sesWorld, sesIndexing, sesCite, sesHistory>>
      BY <1>9 DEF SesCloseStaleArtifacts
    <2> QED BY <1>1, <2>2, <2>3 DEF SesRestTypes, sesWorld, sesIndexing, sesHistory
  <1>10. CASE SesAnnounceStale(o)
    BY <1>1, <1>10 DEF SesAnnounceStale, SesRestTypes, sesIndexing, sesArtifacts, sesHistory
  <1>11. CASE SesLoadFails(o)
    BY <1>1, <1>2, <1>11 DEF SesLoadFails, SesRestTypes, sesWorld, sesIndexing, sesArtifacts
  <1>12. CASE SesLoad(o)
    BY <1>1, <1>2, <1>12 DEF SesLoad, SesRestTypes, sesIndexing, sesArtifacts, sesHistory
  <1>13. CASE SesInsert(o)
    <2>1. PICK b \in BOOLEAN, id \in SesIds :
            sesLive' = [sesLive EXCEPT ![id] = [gen |-> sesOpen[o].gen, indexed |-> <<0>>, indexing |-> b]]
      <3>1. SesIndexingNeeded(sesOpen[o].id) = (SesChunks[sesOpen[o].id.ver] > 0)
            /\ SesChunks[sesOpen[o].id.ver] \in Nat /\ sesOpen[o].id \in SesIds
        BY <1>2, <1>13, SesIdFacts DEF SesIndexingNeeded, SesInsert
      <3>2. CASE SesChunks[sesOpen[o].id.ver] > 0
        <4>1. SesIndexingNeeded(sesOpen[o].id) = TRUE BY <3>1, <3>2
        <4> QED BY <1>13, <3>1, <4>1 DEF SesInsert
      <3>3. CASE ~(SesChunks[sesOpen[o].id.ver] > 0)
        <4>1. SesIndexingNeeded(sesOpen[o].id) = FALSE BY <3>3 DEF SesIndexingNeeded
        <4> QED BY <1>13, <3>1, <4>1 DEF SesInsert
      <3> QED BY <3>2, <3>3
    <2>2. sesLive' \in [SesIds -> SesLiveRecs] BY <1>1, <1>2, <2>1, SesNewRecords DEF SesRestTypes
    <2>3. UNCHANGED <<sesWorld, sesTasks, sesCancelled, sesIndexer, sesArtifacts, sesHistory>>
      BY <1>13 DEF SesInsert
    <2> QED BY <1>1, <2>2, <2>3 DEF SesRestTypes, sesWorld, sesArtifacts, sesHistory
  <1>14. CASE SesRestore(o)
    <2>1. sesMarksOf' \in [SesIds -> SUBSET SesMarks]
      BY <1>1, <1>2, <1>14 DEF SesRestore, SesRestTypes
    <2>2. UNCHANGED <<sesWorld, sesIndexing, sesCite, sesHistory>> BY <1>14 DEF SesRestore
    <2> QED BY <1>1, <2>1, <2>2 DEF SesRestTypes, sesWorld, sesIndexing, sesHistory
  <1>15. CASE SesSpawn(o)
    <2>1. PICK id \in SesIds, g \in SesGens :
            /\ sesCancelled' = SesDropSender(id) /\ sesTasks' = [sesTasks EXCEPT ![id] = g]
            /\ sesIndexer' = [sesIndexer EXCEPT ![g] = [pc |-> "check", id |-> id, cursor |-> 0]]
      BY <1>2, <1>15 DEF SesSpawn
    <2>2. sesTasks' \in [SesIds -> 0..SesMaxGen] /\ sesCancelled' \subseteq SesGens
      BY <1>1, <1>2, <2>1, SesSenderTypes DEF SesRestTypes, SesGens
    <2>3. /\ sesIndexer' \in [SesGens -> SesIndexerRecs]
          /\ \A h \in SesGens : sesIndexer'[h].id = IF h = g THEN id ELSE sesIndexer[h].id
          /\ \A h \in SesGens \ {g} : sesIndexer'[h].pc = sesIndexer[h].pc
      BY <1>1, <2>1, SesNewRecords DEF SesRestTypes
    <2>4. UNCHANGED <<sesWorld, sesLive, sesArtifacts, sesHistory>> BY <1>15 DEF SesSpawn
    <2> QED BY <1>1, <2>2, <2>3, <2>4 DEF SesRestTypes, sesWorld, sesArtifacts, sesHistory
  <1>16. CASE SesAnswer(o)
    BY <1>1, <1>2, <1>16 DEF SesAnswer, SesRestTypes, sesIndexing, sesArtifacts, sesHistory
  <1> QED BY <1>4, <1>5, <1>6, <1>7, <1>8, <1>9, <1>10, <1>11, <1>12, <1>13, <1>14, <1>15, <1>16 DEF
    SesOpenStep

\* What the other calls do to the locals.
LEMMA SesTypeMade ==
  ASSUME SesRestTypes',
         sesOpen' \in [SesOpeners -> SesOpenRecs],
         \A o \in SesOpeners :
           /\ sesOpen'[o].pc # "idle" => sesOpen'[o].id \in SesIds
           /\ sesOpen'[o].pc \in {"live", "artifacts"} => sesOpen'[o].left # {}
           /\ sesOpen'[o].pc \in {"insert", "restore", "spawn", "answer"} => sesOpen'[o].gen # 0,
         sesClose' \in [pc : {"idle", "task", "live", "artifacts", "announce"}, id : SesAnyId],
         sesPush' \in [mark : SesMarks \cup {"none"}, id : SesAnyId],
         sesClose'.pc # "idle" => sesClose'.id \in SesIds,
         sesPush'.mark # "none" => sesPush'.id \in SesIds
  PROVE  SesTypeInv'
  BY DEF SesTypeInv, SesTypeOK, SesCallTypes, SesRestTypes, SesOpenRecs, SesOpenPcs, SesAnyId,
    SesLiveRecs, SesIndexerRecs

LEMMA SesTypeStep == SesTypeInv /\ [SesNext]_sesVars => SesTypeInv'
  <1> SUFFICES ASSUME SesTypeInv, [SesNext]_sesVars PROVE SesTypeInv' OBVIOUS
  <1>1. /\ SesRestTypes /\ sesOpen \in [SesOpeners -> SesOpenRecs]
        /\ sesClose \in [pc : {"idle", "task", "live", "artifacts", "announce"}, id : SesAnyId]
        /\ sesPush \in [mark : SesMarks \cup {"none"}, id : SesAnyId]
        /\ sesClose.pc # "idle" => sesClose.id \in SesIds
        /\ sesPush.mark # "none" => sesPush.id \in SesIds BY SesTypeParts
  <1>2. \A o \in SesOpeners :
          /\ sesOpen[o].pc # "idle" => sesOpen[o].id \in SesIds
          /\ sesOpen[o].pc \in {"live", "artifacts"} => sesOpen[o].left # {}
          /\ sesOpen[o].pc \in {"insert", "restore", "spawn", "answer"} => sesOpen[o].gen # 0
    BY SesTypeParts
  <1>3. SesMaxVer \in Nat /\ SesMaxGen \in Nat /\ SesIdle \in SesOpenRecs /\ SesIdle.pc = "idle"
    BY SesAssumption, SesIdleRec DEF SesAssumption
  <1>4. SesNoteOverlap => sesOverlap' \in BOOLEAN BY Zenon DEF SesNoteOverlap
  <1>5. CASE UNCHANGED sesVars
    <2>1. UNCHANGED <<sesWorld, sesIndexing, sesArtifacts, sesHistory, sesCalls>>
      BY <1>5 DEF sesVars
    <2> QED BY <1>1, <1>2, <2>1, SesTypeMade DEF SesRestTypes, sesWorld, sesIndexing, sesArtifacts,
      sesHistory, sesCalls
  <1>6. ASSUME NEW o \in SesOpeners, SesOpenStep(o) PROVE SesTypeInv'
    <2>1. SesRestTypes' BY <1>6, SesOpenRest
    <2>2. /\ sesOpen' \in [SesOpeners -> SesOpenRecs]
          /\ \A p \in SesOpeners \ {o} : sesOpen'[p] = sesOpen[p]
          /\ sesOpen'[o].pc # "idle" => sesOpen'[o].id \in SesIds
          /\ sesOpen'[o].pc \in {"live", "artifacts"} => sesOpen'[o].left # {}
          /\ sesOpen'[o].pc \in {"insert", "restore", "spawn", "answer"} => sesOpen'[o].gen # 0
          /\ sesClose' = sesClose /\ sesPush' = sesPush BY <1>6, SesOpenTypes
    <2> QED BY <1>1, <1>2, <2>1, <2>2, SesTypeMade
  <1>7. ASSUME NEW o \in SesOpeners, NEW l \in SesLabels, SesOpenStart(o, l) PROVE SesTypeInv'
    <2> DEFINE r == [SesIdle EXCEPT !.pc = "rescue", !.id = [ver |-> sesDisk, label |-> l]]
    <2>1. r \in SesOpenRecs /\ r.pc = "rescue" /\ r.id \in SesIds
      BY <1>1, <1>3 DEF SesOpenRecs, SesRestTypes, SesIds, SesAnyId, SesOpenPcs
    <2>2. /\ sesOpen' = [sesOpen EXCEPT ![o] = r] /\ SesNoteOverlap
          /\ UNCHANGED <<sesWorld, sesIndexing, sesArtifacts, sesClose, sesPush, sesExcused, sesStored>>
      BY <1>7 DEF SesOpenStart
    <2>3. SesRestTypes' BY <1>1, <1>4, <2>2 DEF SesRestTypes, sesWorld, sesIndexing, sesArtifacts
    <2> HIDE DEF r
    <2> QED BY <1>1, <1>2, <2>1, <2>2, <2>3, SesTypeMade
  <1>8. ASSUME NEW id \in SesIds, SesCloseStart(id) PROVE SesTypeInv'
    <2>1. /\ sesClose' = [pc |-> "task", id |-> id] /\ SesNoteOverlap
          /\ UNCHANGED <<sesWorld, sesIndexing, sesArtifacts, sesOpen, sesPush, sesExcused, sesStored>>
      BY <1>8 DEF SesCloseStart
    <2>2. SesRestTypes' BY <1>1, <1>4, <2>1 DEF SesRestTypes, sesWorld, sesIndexing, sesArtifacts
    <2> QED BY <1>1, <1>2, <2>1, <2>2, SesTypeMade DEF SesAnyId
  <1>9. ASSUME NEW id \in SesIds, SesPublish(id) PROVE SesTypeInv'
    <2>1. /\ sesCite' = id /\ SesNoteOverlap
          /\ UNCHANGED <<sesWorld, sesIndexing, sesMarksOf, sesCalls, sesExcused, sesStored>>
      BY <1>9 DEF SesPublish
    <2>2. SesRestTypes' BY <1>1, <1>4, <2>1 DEF SesRestTypes, sesWorld, sesIndexing, SesAnyId
    <2> QED BY <1>1, <1>2, <2>1, <2>2, SesTypeMade DEF sesCalls
  <1>10. ASSUME NEW id \in SesIds, NEW b \in SesMarks, SesPushCheck(b, id) PROVE SesTypeInv'
    <2>1. /\ sesPush' = [mark |-> b, id |-> id] /\ SesNoteOverlap
          /\ UNCHANGED <<sesWorld, sesIndexing, sesArtifacts, sesOpen, sesClose, sesExcused, sesStored>>
      BY <1>10 DEF SesPushCheck
    <2>2. SesRestTypes' BY <1>1, <1>4, <2>1 DEF SesRestTypes, sesWorld, sesIndexing, sesArtifacts
    <2> QED BY <1>1, <1>2, <2>1, <2>2, SesTypeMade DEF SesAnyId
  <1>11. CASE SesCloseTask
    <2>1. /\ sesClose.pc = "task" /\ SesRemoveTask(sesClose.id) /\ sesClose' = [sesClose EXCEPT !.pc = "live"]
          /\ UNCHANGED <<sesWorld, sesLive, sesIndexer, sesArtifacts, sesOpen, sesPush, sesHistory>>
      BY <1>11 DEF SesCloseTask
    <2>2. sesTasks' \in [SesIds -> 0..SesMaxGen] /\ sesCancelled' \subseteq SesGens
      BY <1>1, <1>3, <2>1, SesSenderTypes DEF SesRemoveTask, SesRestTypes
    <2>3. SesRestTypes' BY <1>1, <2>1, <2>2 DEF SesRestTypes, sesWorld, sesArtifacts, sesHistory
    <2> QED BY <1>1, <1>2, <2>1, <2>3, SesTypeMade
  <1>12. CASE SesCloseSession
    <2>1. /\ sesClose.pc = "live" /\ sesLive' = [sesLive EXCEPT ![sesClose.id] = SesNoSession]
          /\ sesClose' = [sesClose EXCEPT !.pc = "artifacts"]
          /\ UNCHANGED <<sesWorld, sesTasks, sesCancelled, sesIndexer, sesArtifacts, sesOpen, sesPush,
                         sesHistory>> BY <1>12 DEF SesCloseSession, SesRemoveSession
    <2>2. sesLive' \in [SesIds -> SesLiveRecs] BY <1>1, <2>1, SesNewRecords DEF SesRestTypes
    <2>3. SesRestTypes' BY <1>1, <2>1, <2>2 DEF SesRestTypes, sesWorld, sesArtifacts, sesHistory
    <2> QED BY <1>1, <1>2, <2>1, <2>3, SesTypeMade
  <1>13. CASE SesCloseArtifacts
    <2>1. /\ sesClose.pc = "artifacts" /\ sesMarksOf' = [sesMarksOf EXCEPT ![sesClose.id] = {}]
          /\ sesExcused' = sesExcused \cup sesMarksOf[sesClose.id] \cup {"cite"}
          /\ sesClose' = [sesClose EXCEPT !.pc = "announce"]
          /\ UNCHANGED <<sesWorld, sesIndexing, sesCite, sesOpen, sesPush, sesOverlap, sesStored>>
      BY <1>13 DEF SesCloseArtifacts, SesRemoveArtifacts
    <2>2. sesMarksOf' \in [SesIds -> SUBSET SesMarks] /\ sesExcused' \subseteq SesMarks \cup {"failed", "cite"}
      BY <1>1, <2>1 DEF SesRestTypes
    <2>3. SesRestTypes' BY <1>1, <2>1, <2>2 DEF SesRestTypes, sesWorld, sesIndexing
    <2> QED BY <1>1, <1>2, <2>1, <2>3, SesTypeMade
  <1>14. CASE SesCloseAnnounce
    <2>1. /\ sesShown' = sesShown \ {sesClose.id} /\ sesClose' = [pc |-> "idle", id |-> SesNone]
          /\ UNCHANGED <<sesDisk, sesIndexing, sesArtifacts, sesNextGen, sesOpen, sesPush, sesHistory>>
      BY <1>14 DEF SesCloseAnnounce
    <2>2. SesRestTypes' BY <1>1, <2>1 DEF SesRestTypes, sesIndexing, sesArtifacts, sesHistory
    <2> QED BY <1>1, <1>2, <2>1, <2>2, SesTypeMade DEF SesAnyId
  <1>15. CASE SesPushStore
    <2>1. /\ sesPush.mark # "none"
          /\ sesMarksOf' = [sesMarksOf EXCEPT ![sesPush.id] = @ \cup {sesPush.mark}]
          /\ sesStored' = sesStored \cup {sesPush.mark} /\ sesPush' = [mark |-> "none", id |-> SesNone]
          /\ UNCHANGED <<sesWorld, sesIndexing, sesCite, sesOpen, sesClose, sesExcused, sesOverlap>>
      BY <1>15 DEF SesPushStore
    <2>2. sesPush.mark \in SesMarks /\ sesPush.id \in SesIds BY <1>1, <2>1
    <2>3. sesMarksOf' \in [SesIds -> SUBSET SesMarks] /\ sesStored' \subseteq SesMarks
      BY <1>1, <2>1, <2>2 DEF SesRestTypes
    <2>4. SesRestTypes' BY <1>1, <2>1, <2>3 DEF SesRestTypes, sesWorld, sesIndexing
    <2> QED BY <1>1, <1>2, <2>1, <2>4, SesTypeMade DEF SesAnyId
  <1>16. CASE SesRewrite
    <2>1. /\ sesDisk' \in 0..SesMaxVer
          /\ UNCHANGED <<sesIndexing, sesArtifacts, sesNextGen, sesCalls, sesShown, sesHistory>>
      BY <1>1, <1>3, <1>16 DEF SesRewrite, SesRestTypes
    <2>2. SesRestTypes' BY <1>1, <2>1 DEF SesRestTypes, sesIndexing, sesArtifacts, sesHistory
    <2> QED BY <1>1, <1>2, <2>1, <2>2, SesTypeMade DEF sesCalls
  <1>17. ASSUME NEW g \in SesGens, SesIndexerStep(g) PROVE SesTypeInv'
    <2>1. /\ sesLive' \in [SesIds -> SesLiveRecs] /\ sesIndexer' \in [SesGens -> SesIndexerRecs]
          /\ sesIndexer'[g].pc \in {"check", "chunk", "finish"} => sesIndexer'[g].id \in SesIds
          /\ \A h \in SesGens \ {g} : sesIndexer'[h] = sesIndexer[h]
          /\ sesTasks' \in [SesIds -> 0..SesMaxGen] /\ sesCancelled' \subseteq SesGens
          /\ UNCHANGED <<sesWorld, sesArtifacts, sesCalls, sesHistory>> BY <1>17, SesIndexerTypes
    <2>2. SesRestTypes' BY <1>1, <2>1 DEF SesRestTypes, sesWorld, sesArtifacts, sesHistory
    <2> QED BY <1>1, <1>2, <2>1, <2>2, SesTypeMade DEF sesCalls
  <1> QED BY <1>5, <1>6, <1>7, <1>8, <1>9, <1>10, <1>11, <1>12, <1>13, <1>14, <1>15, <1>16, <1>17
    DEF SesNext, SesClose
----------------------------------------
\* The index.

\* Steps that leave sessions, indexers and the generations in use alone.
LEMMA SesIndexKept ==
  ASSUME SesIndexInv, UNCHANGED <<sesLive, sesIndexer, sesNextGen>>,
         \A o \in SesOpeners :
           sesOpen'[o] = sesOpen[o] \/ sesOpen'[o].pc \notin {"insert", "restore", "spawn"}
  PROVE  SesIndexInv'
  <1>1. SesGensInv' BY DEF SesIndexInv, SesGensInv, SesHasGen, SesIndexingNeeded
  <1>2. SesCursorInv' /\ SesIndexIsPrefix'
    BY DEF SesIndexInv, SesCursorInv, SesIndexIsPrefix, SesLiveIds, SesIsLive
  <1> QED BY <1>1, <1>2 DEF SesIndexInv

\* A session goes.
LEMMA SesIndexRemoved ==
  ASSUME SesTypeInv, SesIndexInv, NEW id \in SesIds, SesRemoveSession(id),
         UNCHANGED <<sesIndexer, sesNextGen>>,
         \A o \in SesOpeners :
           sesOpen'[o] = sesOpen[o] \/ sesOpen'[o].pc \notin {"insert", "restore", "spawn"}
  PROVE  SesIndexInv'
  <1>1. /\ sesLive \in [SesIds -> SesLiveRecs] /\ sesLive'[id].gen = 0
        /\ \A i \in SesIds \ {id} : sesLive'[i] = sesLive[i]
        /\ sesNextGen \in 1..(SesMaxGen + 1) /\ SesMaxGen \in Nat
    BY SesTypeFacts, SesAssumption DEF SesAssumption, SesRemoveSession, SesNoSession
  <1>2. \A o \in SesOpeners : SesHasGen(o) => sesOpen[o].gen # 0 /\ sesOpen[o].id \in SesIds
    BY SesTypeParts DEF SesHasGen
  <1>3. SesGensInv'
    <2>1. \A i \in SesIds : sesLive'[i].gen < sesNextGen' BY <1>1 DEF SesIndexInv, SesGensInv
    <2>2. ASSUME NEW o \in SesOpeners, SesHasGen(o)'
          PROVE /\ sesOpen'[o] = sesOpen[o] /\ SesHasGen(o)
                /\ sesOpen[o].pc = "insert" => \A i \in SesIds : sesLive'[i].gen # sesOpen[o].gen
                /\ sesOpen[o].pc \in {"restore", "spawn"} /\ sesLive'[sesOpen[o].id].gen = sesOpen[o].gen =>
                     Len(sesLive'[sesOpen[o].id].indexed) = 1
      <3>1. sesOpen'[o] = sesOpen[o] /\ SesHasGen(o) BY <2>2 DEF SesHasGen
      <3> QED BY <1>1, <1>2, <3>1 DEF SesIndexInv, SesGensInv
    <2> QED BY <2>1, <2>2 DEF SesIndexInv, SesGensInv, SesHasGen, SesIndexingNeeded
  <1>4. SesCursorInv'
    <2>1. \A g \in SesGens : sesIndexer[g].pc \in {"check", "chunk"} => sesIndexer[g].id \in SesIds /\ g # 0
      BY SesTypeParts, <1>1 DEF SesRestTypes, SesGens
    <2> QED BY <1>1, <2>1 DEF SesIndexInv, SesCursorInv
  <1>5. SesIndexIsPrefix' BY <1>1 DEF SesIndexInv, SesIndexIsPrefix, SesLiveIds, SesIsLive
  <1> QED BY <1>3, <1>4, <1>5 DEF SesIndexInv

\* A session is stored: no other call and no indexer has its generation.
LEMMA SesIndexInserted ==
  ASSUME SesTypeInv, SesIndexInv, NEW o \in SesOpeners, SesInsert(o)
  PROVE  SesIndexInv'
  <1> DEFINE g == sesOpen[o].gen
             id == sesOpen[o].id
  <1>1. /\ sesOpen[o].pc = "insert" /\ sesOpen'[o].pc = "restore"
        /\ sesOpen'[o].id = id /\ sesOpen'[o].gen = g
        /\ \A p \in SesOpeners \ {o} : sesOpen'[p] = sesOpen[p]
        /\ UNCHANGED <<sesIndexer, sesNextGen>>
    BY SesSetPc, SesTypeFacts DEF SesInsert, SesOpenPcs, sesWorld
  <1>2. /\ id \in SesIds /\ g \in SesGens /\ SesChunks[id.ver] \in Nat
        /\ sesLive \in [SesIds -> SesLiveRecs]
    <2>1. sesOpen[o] \in SesOpenRecs /\ id \in SesIds /\ g # 0 BY <1>1, SesTypeParts
    <2> QED BY <2>1, SesTypeFacts, SesIdFacts, SesAssumption DEF SesOpenRecs, SesGens, SesAssumption
  <1>3. /\ sesLive'[id].gen = g /\ sesLive'[id].indexed = <<0>>
        /\ sesLive'[id].indexing = SesIndexingNeeded(id)
        /\ \A i \in SesIds \ {id} : sesLive'[i] = sesLive[i] BY <1>2 DEF SesInsert
  <1>4. /\ g < sesNextGen /\ sesIndexer[g].pc = "none"
        /\ \A p \in SesOpeners \ {o} : SesHasGen(p) => sesOpen[p].gen # g
    BY <1>1 DEF SesIndexInv, SesGensInv, SesHasGen
  <1> HIDE DEF g, id
  <1>5. SesGensInv'
    <2>1. \A i \in SesIds : sesLive'[i].gen < sesNextGen'
      BY <1>1, <1>3, <1>4 DEF SesIndexInv, SesGensInv
    <2>2. ASSUME NEW p \in SesOpeners \ {o}, SesHasGen(p)'
          PROVE /\ sesOpen'[p] = sesOpen[p] /\ SesHasGen(p)
                /\ sesOpen[p].pc = "insert" => \A i \in SesIds : sesLive'[i].gen # sesOpen[p].gen
                /\ sesOpen[p].pc \in {"restore", "spawn"} /\ sesLive'[sesOpen[p].id].gen = sesOpen[p].gen =>
                     Len(sesLive'[sesOpen[p].id].indexed) = 1
      <3>1. sesOpen'[p] = sesOpen[p] /\ SesHasGen(p) BY <1>1, <2>2 DEF SesHasGen
      <3>2. sesOpen[p].gen # g /\ sesOpen[p].id \in SesIds BY <1>4, <3>1, SesTypeParts DEF SesHasGen
      <3> QED BY <1>3, <3>1, <3>2 DEF SesIndexInv, SesGensInv
    <2>3. Len(sesLive'[id].indexed) = 1 BY <1>3
    <2> QED BY <1>1, <1>4, <2>1, <2>2, <2>3 DEF SesIndexInv, SesGensInv, SesHasGen, SesIndexingNeeded
  <1>6. SesCursorInv'
    <2>1. \A h \in SesGens : sesIndexer[h].pc \in {"check", "chunk"} => sesIndexer[h].id \in SesIds /\ h # g
      BY SesTypeParts, <1>4 DEF SesRestTypes
    <2> QED BY <1>1, <1>3, <2>1 DEF SesIndexInv, SesCursorInv
  <1>7. SesIndexIsPrefix'
    <2>1. Len(<<0>>) = 1 /\ <<0>> = [i \in 1..1 |-> i - 1] OBVIOUS
    <2>2. sesLive'[id].indexing <=> SesChunks[id.ver] > 0 BY <1>3, Zenon DEF SesIndexingNeeded
    <2>3. /\ Len(sesLive'[id].indexed) = 1 /\ sesLive'[id].indexed = [i \in 1..1 |-> i - 1]
          /\ ~sesLive'[id].indexing <=> 1 = SesChunks[id.ver] + 1 BY <1>2, <1>3, <2>1, <2>2
    <2> QED BY ZenonT(30), <1>2, <1>3, <2>3 DEF SesIndexInv, SesIndexIsPrefix, SesLiveIds, SesIsLive
  <1> QED BY <1>5, <1>6, <1>7 DEF SesIndexInv

\* The indexer of a session starts, after the session was stored.
LEMMA SesIndexSpawned ==
  ASSUME SesTypeInv, SesIndexInv, NEW o \in SesOpeners, SesSpawn(o)
  PROVE  SesIndexInv'
  <1> DEFINE g == sesOpen[o].gen
             id == sesOpen[o].id
  <1>1. /\ sesOpen[o].pc = "spawn" /\ sesOpen'[o].pc = "answer"
        /\ \A p \in SesOpeners \ {o} : sesOpen'[p] = sesOpen[p]
        /\ UNCHANGED <<sesLive, sesNextGen>>
    BY SesSetPc, SesTypeFacts DEF SesSpawn, SesOpenPcs, sesWorld
  <1>2. id \in SesIds /\ g \in SesGens /\ SesChunks[id.ver] \in Nat
    <2>1. sesOpen[o] \in SesOpenRecs /\ id \in SesIds /\ g # 0 BY <1>1, SesTypeParts
    <2> QED BY <2>1, SesTypeFacts, SesIdFacts, SesAssumption DEF SesOpenRecs, SesGens, SesAssumption
  <1>3. /\ sesIndexer'[g].pc = "check" /\ sesIndexer'[g].id = id /\ sesIndexer'[g].cursor = 0
        /\ \A h \in SesGens \ {g} : sesIndexer'[h] = sesIndexer[h]
    BY <1>2, SesTypeFacts DEF SesSpawn
  <1>4. /\ g < sesNextGen
        /\ \A p \in SesOpeners \ {o} : SesHasGen(p) => sesOpen[p].gen # g
        /\ SesChunks[id.ver] > 0
        /\ sesLive[id].gen = g => Len(sesLive[id].indexed) = 1
    BY <1>1 DEF SesIndexInv, SesGensInv, SesHasGen, SesIndexingNeeded
  <1>5. SesGens \subseteq Nat /\ sesNextGen \in Nat
    BY SesTypeFacts, SesAssumption DEF SesGens, SesAssumption
  <1>6. SesGensInv'
    <2>1. \A h \in SesGens : h >= sesNextGen' => sesIndexer'[h].pc = "none"
      BY <1>1, <1>2, <1>3, <1>4, <1>5 DEF SesIndexInv, SesGensInv
    <2>2. ASSUME NEW p \in SesOpeners, SesHasGen(p)'
          PROVE /\ p # o /\ sesOpen'[p] = sesOpen[p] /\ SesHasGen(p)
                /\ sesIndexer'[sesOpen[p].gen].pc = "none"
      <3>1. p # o /\ sesOpen'[p] = sesOpen[p] /\ SesHasGen(p) BY <1>1, <2>2 DEF SesHasGen
      <3>2. sesOpen[p].gen \in SesGens
        BY <3>1, SesTypeParts, SesAssumption DEF SesHasGen, SesOpenRecs, SesGens, SesAssumption
      <3> QED BY <1>3, <1>4, <3>1, <3>2 DEF SesIndexInv, SesGensInv
    <2> QED BY <1>1, <2>1, <2>2 DEF SesIndexInv, SesGensInv, SesHasGen, SesIndexingNeeded
  <1> HIDE DEF g, id
  <1>7. SesCursorInv'
    <2>1. /\ sesIndexer'[g].cursor < SesChunks[sesIndexer'[g].id.ver]
          /\ sesLive[id].gen = g => Len(sesLive[id].indexed) = 0 + 1 BY <1>2, <1>3, <1>4
    <2> QED BY <1>1, <1>2, <1>3, <2>1 DEF SesIndexInv, SesCursorInv
  <1>8. SesIndexIsPrefix' BY <1>1 DEF SesIndexInv, SesIndexIsPrefix, SesLiveIds, SesIsLive
  <1> QED BY <1>6, <1>7, <1>8 DEF SesIndexInv

\* The steps of an open call.
LEMMA SesIndexOpenStep ==
  ASSUME SesTypeInv, SesIndexInv, NEW o \in SesOpeners, SesOpenStep(o)
  PROVE  SesIndexInv'
  <1>1. /\ sesOpen \in [SesOpeners -> SesOpenRecs] /\ sesOpen' \in [SesOpeners -> SesOpenRecs]
        /\ \A p \in SesOpeners \ {o} : sesOpen'[p] = sesOpen[p] BY SesOpenTypes, SesTypeFacts
  <1>2. CASE SesRescue(o) \/ SesTake(o) \/ SesListStale(o) \/ SesCloseStaleTask(o)
             \/ SesCloseStaleArtifacts(o) \/ SesAnnounceStale(o) \/ SesLoadFails(o) \/ SesAnswer(o)
    <2>1. UNCHANGED <<sesLive, sesIndexer, sesNextGen>>
      BY <1>2 DEF SesRescue, SesTake, SesListStale, SesCloseStaleTask, SesCloseStaleArtifacts,
        SesAnnounceStale, SesLoadFails, SesAnswer, sesIndexing, sesWorld
    <2>2. sesOpen'[o].pc \notin {"insert", "restore", "spawn"}
      <3>1. CASE SesRescue(o) \/ SesTake(o) \/ SesListStale(o)
        <4>1. CASE SesRescue(o) BY <1>1, <4>1 DEF SesRescue, SesOpenRecs
        <4>2. CASE SesTake(o) BY <1>1, <4>2 DEF SesTake, SesOpenRecs
        <4>3. CASE SesListStale(o) BY <1>1, <4>3 DEF SesListStale, SesOpenRecs
        <4> QED BY <3>1, <4>1, <4>2, <4>3
      <3>2. CASE SesCloseStaleTask(o) \/ SesCloseStaleArtifacts(o) \/ SesAnnounceStale(o)
        BY <1>1, <3>2 DEF SesCloseStaleTask, SesCloseStaleArtifacts, SesAnnounceStale, SesOpenRecs
      <3>3. CASE SesLoadFails(o) \/ SesAnswer(o)
        BY <1>1, <3>3, SesIdleRec DEF SesLoadFails, SesAnswer
      <3> QED BY <1>2, <3>1, <3>2, <3>3
    <2> QED BY <1>1, <2>1, <2>2, SesIndexKept
  <1>3. CASE SesCloseStaleSession(o)
    <2>1. PICK id \in SesIds : SesRemoveSession(id)
      <3>1. sesOpen[o].left # {} /\ sesOpen[o].left \subseteq SesIds
        BY <1>3, SesTypeParts DEF SesCloseStaleSession, SesOpenRecs
      <3> QED BY <1>3, <3>1 DEF SesCloseStaleSession
    <2>2. UNCHANGED <<sesIndexer, sesNextGen>> /\ sesOpen'[o].pc = "artifacts"
      BY <1>1, <1>3 DEF SesCloseStaleSession, sesWorld
    <2> QED BY <1>1, <2>1, <2>2, SesIndexRemoved
  <1>4. CASE SesLoad(o)
    <2>1. /\ sesOpen'[o].pc = "insert" /\ sesOpen'[o].gen = sesNextGen /\ sesNextGen' = sesNextGen + 1
          /\ sesNextGen \in SesGens /\ UNCHANGED <<sesLive, sesIndexer>> /\ ~SesHasGen(o)
      <3>1. sesNextGen \in 1..(SesMaxGen + 1) /\ SesMaxGen \in Nat /\ sesNextGen <= SesMaxGen
        BY <1>4, SesTypeFacts, SesAssumption DEF SesAssumption, SesLoad
      <3>2. sesNextGen \in 0..SesMaxGen /\ "insert" \in SesOpenPcs BY <3>1 DEF SesOpenPcs
      <3>3. /\ sesOpen[o].pc = "load" /\ sesOpen' = [sesOpen EXCEPT ![o].pc = "insert", ![o].gen = sesNextGen]
            /\ sesNextGen' = sesNextGen + 1 /\ UNCHANGED <<sesLive, sesIndexer>>
        BY <1>4 DEF SesLoad, sesIndexing
      <3>4. sesOpen'[o].pc = "insert" /\ sesOpen'[o].gen = sesNextGen
        BY ZenonT(30), <1>1, <3>2, <3>3, SesSetGen
      <3> QED BY <3>1, <3>3, <3>4 DEF SesHasGen, SesGens
    <2>2. \A i \in SesIds : sesLive[i].gen \in 0..SesMaxGen BY SesTypeFacts DEF SesLiveRecs
    <2>3. \A p \in SesOpeners : sesOpen[p].gen \in 0..SesMaxGen BY <1>1 DEF SesOpenRecs
    <2>4. SesGensInv'
      <3>1. /\ \A g \in SesGens : g >= sesNextGen' => sesIndexer'[g].pc = "none"
            /\ \A id \in SesIds : sesLive'[id].gen < sesNextGen'
        BY <2>1, <2>2, SesAssumption DEF SesAssumption, SesIndexInv, SesGensInv, SesGens
      <3>2. ASSUME NEW p \in SesOpeners \ {o}, SesHasGen(p)'
            PROVE sesOpen'[p] = sesOpen[p] /\ SesHasGen(p) /\ sesOpen[p].gen < sesNextGen
        BY <1>1, <3>2 DEF SesHasGen, SesIndexInv, SesGensInv
      <3>3. sesIndexer'[sesNextGen].pc = "none" /\ \A id \in SesIds : sesLive'[id].gen # sesNextGen
        BY <2>1, <2>2, SesAssumption DEF SesAssumption, SesIndexInv, SesGensInv, SesGens
      <3>4. /\ sesOpen'[o].gen < sesNextGen'
            /\ \A p \in SesOpeners \ {o} : SesHasGen(p)' => sesOpen'[p].gen # sesOpen'[o].gen
                                                          /\ sesOpen'[p].gen < sesNextGen'
        BY <2>1, <2>3, <3>2, SesAssumption DEF SesAssumption, SesGens
      <3> QED BY <1>1, <2>1, <3>1, <3>2, <3>3, <3>4 DEF SesIndexInv, SesGensInv, SesHasGen,
        SesIndexingNeeded
    <2>5. SesCursorInv' /\ SesIndexIsPrefix'
      BY <2>1 DEF SesIndexInv, SesCursorInv, SesIndexIsPrefix, SesLiveIds, SesIsLive
    <2> QED BY <2>4, <2>5 DEF SesIndexInv
  <1>5. CASE SesInsert(o) BY <1>5, SesIndexInserted
  <1>6. CASE SesRestore(o)
    <2>1. /\ sesOpen[o].pc = "restore" /\ sesOpen'[o].pc \in {"spawn", "answer"}
          /\ sesOpen'[o].id = sesOpen[o].id /\ sesOpen'[o].gen = sesOpen[o].gen
          /\ sesOpen'[o].pc = "spawn" => SesIndexingNeeded(sesOpen[o].id)
          /\ UNCHANGED <<sesLive, sesIndexer, sesNextGen>>
      BY <1>1, <1>6 DEF SesRestore, SesOpenRecs, sesIndexing, sesWorld
    <2>2. SesGensInv' BY <1>1, <2>1 DEF SesIndexInv, SesGensInv, SesHasGen, SesIndexingNeeded
    <2>3. SesCursorInv' /\ SesIndexIsPrefix'
      BY <2>1 DEF SesIndexInv, SesCursorInv, SesIndexIsPrefix, SesLiveIds, SesIsLive
    <2> QED BY <2>2, <2>3 DEF SesIndexInv
  <1>7. CASE SesSpawn(o) BY <1>7, SesIndexSpawned
  <1> QED BY <1>2, <1>3, <1>4, <1>5, <1>6, <1>7 DEF SesOpenStep

\* An indexer that reads on or ends, the sessions being left alone.
LEMMA SesIndexerMoves ==
  ASSUME SesTypeInv, SesIndexInv, NEW g \in SesGens, UNCHANGED <<sesLive, sesNextGen, sesOpen>>,
         \A h \in SesGens \ {g} : sesIndexer'[h] = sesIndexer[h],
         sesIndexer[g].pc # "none",
         \/ sesIndexer'[g].pc = "ended"
         \/ sesIndexer[g].pc = "check" /\ sesIndexer'[g] = [sesIndexer[g] EXCEPT !.pc = "chunk"]
  PROVE  SesIndexInv'
  <1>1. /\ sesIndexer[g] \in SesIndexerRecs
        /\ \A o \in SesOpeners : SesHasGen(o) => sesOpen[o].gen \in SesGens
    BY SesTypeFacts, SesTypeParts, SesAssumption DEF SesHasGen, SesOpenRecs, SesGens, SesAssumption
  <1>2. SesGensInv'
    <2>1. \A h \in SesGens : sesIndexer[h].pc = "none" => h # g /\ sesIndexer'[h].pc = "none"
      OBVIOUS
    <2> QED BY <1>1, <2>1 DEF SesIndexInv, SesGensInv, SesHasGen, SesIndexingNeeded
  <1>3. SesCursorInv'
    <2>1. sesIndexer'[g].pc \in {"check", "chunk"} =>
            /\ sesIndexer[g].pc = "check" /\ sesIndexer'[g].id = sesIndexer[g].id
            /\ sesIndexer'[g].cursor = sesIndexer[g].cursor BY <1>1 DEF SesIndexerRecs
    <2> QED BY <2>1 DEF SesIndexInv, SesCursorInv
  <1>4. SesIndexIsPrefix' BY DEF SesIndexInv, SesIndexIsPrefix, SesLiveIds, SesIsLive
  <1> QED BY <1>2, <1>3, <1>4 DEF SesIndexInv

LEMMA SesChunkAppended ==
  ASSUME NEW s \in Seq(Nat), s = [i \in 1..Len(s) |-> i - 1], NEW n, n = Len(s)
  PROVE  /\ Len(Append(s, n)) = n + 1 /\ Append(s, n) = [i \in 1..Len(Append(s, n)) |-> i - 1]
  <1>1. /\ Append(s, n) \in Seq(Nat) /\ Len(Append(s, n)) = n + 1 /\ Len(s) \in Nat
        /\ \A i \in 1..n : Append(s, n)[i] = s[i]
        /\ Append(s, n)[n + 1] = n
    OBVIOUS
  <1>2. \A i \in 1..(n + 1) : Append(s, n)[i] = i - 1
    <2> TAKE i \in 1..(n + 1)
    <2>1. CASE i = n + 1 BY <1>1, <2>1
    <2>2. CASE i # n + 1
      <3>1. i \in 1..n /\ s[i] = i - 1 BY <1>1, <2>2
      <3> QED BY <1>1, <3>1
    <2> QED BY <2>1, <2>2
  <1>3. Append(s, n) = [i \in 1..(n + 1) |-> Append(s, n)[i]] BY <1>1, LenProperties
  <1> QED BY <1>1, <1>2, <1>3

\* A chunk is read: only the indexer of an instance writes into it.
LEMMA SesIndexChunk ==
  ASSUME SesTypeInv, SesIndexInv, NEW g \in SesGens, SesIndexerChunk(g)
  PROVE  SesIndexInv'
  <1> DEFINE id == sesIndexer[g].id
             next == sesIndexer[g].cursor + 1
             done == next >= SesChunks[id.ver]
  <1>1. /\ sesIndexer \in [SesGens -> SesIndexerRecs] /\ sesLive \in [SesIds -> SesLiveRecs]
        /\ sesIndexer[g].pc = "chunk" /\ id \in SesIds
        /\ \A h \in SesGens \ {g} : sesIndexer'[h] = sesIndexer[h]
        /\ UNCHANGED <<sesNextGen, sesOpen>>
    <2>1. sesIndexer[g].pc = "chunk" /\ SesIndexerStep(g) BY DEF SesIndexerChunk, SesIndexerStep
    <2>2. id \in SesIds BY <2>1, SesTypeParts DEF SesRestTypes
    <2> QED BY <2>1, <2>2, SesTypeFacts, SesIndexerTypes DEF sesWorld, sesCalls
  <1>2. CASE ~(SesIsLive(id) /\ SesSameInstance(g))
    <2>1. SesEnd(g) /\ UNCHANGED sesLive BY <1>2 DEF SesIndexerChunk
    <2>2. sesIndexer'[g].pc = "ended" BY <1>1, <2>1 DEF SesEnd, SesNoIndexer
    <2> QED BY <1>1, <2>1, <2>2, SesIndexerMoves
  <1>3. CASE SesIsLive(id) /\ SesSameInstance(g)
    <2>1. /\ sesLive' = [sesLive EXCEPT ![id].indexed = Append(@, next), ![id].indexing = ~done]
          /\ sesIndexer' = [sesIndexer EXCEPT ![g].cursor = next,
                                              ![g].pc = IF done THEN "finish" ELSE "check"]
      BY <1>3 DEF SesIndexerChunk
    <2>2. next \in Nat /\ sesIndexer[g].cursor \in Nat /\ SesChunks[id.ver] \in Nat
          /\ sesIndexer[g].cursor < SesChunks[id.ver]
          /\ sesLive[id].gen = g /\ Len(sesLive[id].indexed) = next
          /\ sesLive[id].indexed \in Seq(Nat) /\ id \in SesLiveIds
      BY <1>1, <1>3, SesIdFacts DEF SesIndexerRecs, SesLiveRecs, SesIndexInv, SesCursorInv,
        SesSameInstance, SesLiveIds
    <2>3. /\ sesIndexer'[g].pc \in {"check", "finish"} /\ sesIndexer'[g].id = id
          /\ sesIndexer'[g].cursor = next
          /\ sesIndexer'[g].pc = "check" => ~done BY <1>1, <2>1 DEF SesIndexerRecs
    <2>4. /\ sesLive'[id].gen = g /\ sesLive'[id].indexed = Append(sesLive[id].indexed, next)
          /\ sesLive'[id].indexing = ~done
          /\ \A i \in SesIds \ {id} : sesLive'[i] = sesLive[i]
      <3>1. (~done) \in BOOLEAN OBVIOUS
      <3> HIDE DEF id, next, done
      <3>2. /\ sesLive'[id].gen = sesLive[id].gen
            /\ sesLive'[id].indexed = Append(sesLive[id].indexed, next) /\ sesLive'[id].indexing = ~done
            /\ \A i \in SesIds \ {id} : sesLive'[i] = sesLive[i]
        <4> SUFFICES ASSUME NEW b \in BOOLEAN, b = ~done
                     PROVE  /\ sesLive'[id].gen = sesLive[id].gen
                            /\ sesLive'[id].indexed = Append(sesLive[id].indexed, next)
                            /\ sesLive'[id].indexing = b
                            /\ \A i \in SesIds \ {id} : sesLive'[i] = sesLive[i] BY <3>1
        <4>1. sesLive' = [sesLive EXCEPT ![id].indexed = Append(@, next), ![id].indexing = b]
          BY <2>1
        <4>2. id \in SesIds /\ sesLive \in [SesIds -> SesLiveRecs] /\ next \in Nat BY <1>1, <2>2
        <4> QED BY <4>1, <4>2, SesIndexGrows
      <3> QED BY <2>2, <3>2
    <2>5. /\ Len(sesLive'[id].indexed) = next + 1
          /\ sesLive'[id].indexed = [i \in 1..Len(sesLive'[id].indexed) |-> i - 1]
      <3>1. sesLive[id].indexed = [i \in 1..Len(sesLive[id].indexed) |-> i - 1]
        BY <2>2 DEF SesIndexInv, SesIndexIsPrefix
      <3> HIDE DEF id, next, done
      <3> QED BY <2>2, <2>4, <3>1, SesChunkAppended
    <2>6. (done <=> next >= SesChunks[id.ver]) /\ next = sesIndexer[g].cursor + 1 OBVIOUS
    <2> HIDE DEF id, next, done
    <2>7. SesGensInv'
      <3>1. \A h \in SesGens : sesIndexer[h].pc = "none" => h # g /\ sesIndexer'[h].pc = "none"
        BY <1>1
      <3>2. \A i \in SesIds : sesLive'[i].gen = sesLive[i].gen BY <2>2, <2>4
      <3>3. ASSUME NEW o \in SesOpeners, SesHasGen(o)
            PROVE /\ sesIndexer'[sesOpen[o].gen].pc = "none" /\ sesOpen[o].id \in SesIds
                  /\ sesLive[sesOpen[o].id].gen = sesOpen[o].gen => sesLive'[sesOpen[o].id] = sesLive[sesOpen[o].id]
        <4>1. sesOpen[o].gen \in SesGens /\ sesOpen[o].id \in SesIds
          BY <3>3, SesTypeParts, SesAssumption DEF SesHasGen, SesOpenRecs, SesGens, SesAssumption
        <4>2. sesIndexer[sesOpen[o].gen].pc = "none" BY <3>3 DEF SesIndexInv, SesGensInv
        <4> QED BY <1>1, <2>2, <2>4, <4>1, <4>2
      <3> QED BY <1>1, <3>1, <3>2, <3>3 DEF SesIndexInv, SesGensInv, SesHasGen, SesIndexingNeeded
    <2>8. SesCursorInv'
      <3>1. ASSUME NEW h \in SesGens \ {g}, sesIndexer'[h].pc \in {"check", "chunk"}
            PROVE /\ sesIndexer'[h].cursor < SesChunks[sesIndexer'[h].id.ver]
                  /\ sesLive'[sesIndexer'[h].id].gen = h =>
                       Len(sesLive'[sesIndexer'[h].id].indexed) = sesIndexer'[h].cursor + 1
        <4>1. sesIndexer'[h] = sesIndexer[h] /\ sesIndexer[h].id \in SesIds
          BY <1>1, <3>1, SesTypeParts DEF SesRestTypes
        <4> QED BY <2>4, <3>1, <4>1 DEF SesIndexInv, SesCursorInv
      <3>2. sesIndexer'[g].pc = "check" => sesIndexer'[g].cursor < SesChunks[sesIndexer'[g].id.ver]
        BY <2>2, <2>3, <2>6
      <3> QED BY <2>3, <2>5, <3>1, <3>2 DEF SesCursorInv
    <2>9. SesIndexIsPrefix'
      <3>1. ~sesLive'[id].indexing <=> done BY <2>4, Zenon
      <3>2. ~sesLive'[id].indexing <=> Len(sesLive'[id].indexed) = SesChunks[id.ver] + 1
        BY <2>2, <2>5, <2>6, <3>1
      <3>3. SesLiveIds' = SesLiveIds BY <2>2, <2>4 DEF SesLiveIds, SesIsLive
      <3>4. ASSUME NEW i \in SesLiveIds, i # id
            PROVE  /\ sesLive'[i].indexed = [k \in 1..Len(sesLive'[i].indexed) |-> k - 1]
                   /\ ~sesLive'[i].indexing <=> Len(sesLive'[i].indexed) = SesChunks[i.ver] + 1
        <4>1. sesLive'[i] = sesLive[i] BY <2>4, <3>4 DEF SesLiveIds
        <4> QED BY <4>1 DEF SesIndexInv, SesIndexIsPrefix
      <3> QED BY <2>5, <3>2, <3>3, <3>4 DEF SesIndexIsPrefix
    <2> QED BY <2>7, <2>8, <2>9 DEF SesIndexInv
  <1> QED BY <1>2, <1>3

LEMMA SesIndexStep == SesTypeInv /\ SesIndexInv /\ [SesNext]_sesVars => SesIndexInv'
  <1> SUFFICES ASSUME SesTypeInv, SesIndexInv, [SesNext]_sesVars PROVE SesIndexInv' OBVIOUS
  <1>1. CASE \/ UNCHANGED sesVars \/ SesPushStore \/ SesRewrite
             \/ SesCloseTask \/ SesCloseArtifacts \/ SesCloseAnnounce
             \/ \E id \in SesIds : SesCloseStart(id) \/ SesPublish(id) \/ \E b \in SesMarks : SesPushCheck(b, id)
    <2>1. UNCHANGED <<sesLive, sesIndexer, sesNextGen, sesOpen>>
      BY <1>1 DEF sesVars, SesPushStore, SesRewrite, SesCloseTask, SesCloseArtifacts,
        SesCloseAnnounce, SesCloseStart, SesPublish, SesPushCheck, sesIndexing, sesWorld, sesCalls
    <2> QED BY <2>1, SesIndexKept
  <1>2. ASSUME NEW o \in SesOpeners, SesOpenStep(o) PROVE SesIndexInv' BY <1>2, SesIndexOpenStep
  <1>3. ASSUME NEW o \in SesOpeners, NEW l \in SesLabels, SesOpenStart(o, l) PROVE SesIndexInv'
    <2>1. /\ UNCHANGED <<sesLive, sesIndexer, sesNextGen>>
          /\ \A p \in SesOpeners : sesOpen'[p] = sesOpen[p] \/ sesOpen'[p].pc = "rescue"
      BY <1>3, SesTypeFacts DEF SesOpenStart, sesIndexing, sesWorld, SesIdle
    <2> QED BY <2>1, SesIndexKept
  <1>4. CASE SesCloseSession
    <2>1. /\ sesClose.id \in SesIds /\ SesRemoveSession(sesClose.id)
          /\ UNCHANGED <<sesIndexer, sesNextGen, sesOpen>>
      BY <1>4, SesTypeParts DEF SesCloseSession, sesWorld
    <2> QED BY <2>1, SesIndexRemoved
  <1>5. ASSUME NEW g \in SesGens, SesIndexerStep(g) PROVE SesIndexInv'
    <2>1. CASE SesIndexerChunk(g) BY <2>1, SesIndexChunk
    <2>2. CASE SesIndexerCheck(g) \/ SesIndexerFinish(g)
      <3>1. /\ UNCHANGED <<sesLive, sesNextGen, sesOpen>> /\ sesIndexer[g].pc # "none"
            /\ \A h \in SesGens \ {g} : sesIndexer'[h] = sesIndexer[h]
        BY <1>5, <2>2, SesIndexerTypes DEF SesIndexerCheck, SesIndexerFinish, sesWorld, sesCalls
      <3>2. \/ sesIndexer'[g].pc = "ended"
            \/ sesIndexer[g].pc = "check" /\ sesIndexer'[g] = [sesIndexer[g] EXCEPT !.pc = "chunk"]
        BY <2>2, SesTypeFacts DEF SesIndexerCheck, SesIndexerFinish, SesEnd, SesNoIndexer
      <3> QED BY <3>1, <3>2, SesIndexerMoves
    <2> QED BY <1>5, <2>1, <2>2 DEF SesIndexerStep
  <1> QED BY <1>1, <1>2, <1>3, <1>4, <1>5 DEF SesNext, SesClose
----------------------------------------
\* The registry.

LEMMA SesLiveRemoved ==
  ASSUME SesTypeInv, NEW id \in SesIds, SesRemoveSession(id)
  PROVE  SesLiveIds' = SesLiveIds \ {id}
  <1>1. sesLive'[id].gen = 0 /\ \A i \in SesIds \ {id} : sesLive'[i] = sesLive[i]
    BY SesTypeFacts DEF SesRemoveSession, SesNoSession
  <1> QED BY <1>1 DEF SesLiveIds, SesIsLive

LEMMA SesLiveIndexed ==
  ASSUME SesTypeInv, NEW g \in SesGens, SesIndexerStep(g)
  PROVE  SesLiveIds' = SesLiveIds
  <1>1. CASE SesIndexerCheck(g) \/ SesIndexerFinish(g)
    BY <1>1 DEF SesIndexerCheck, SesIndexerFinish, SesLiveIds, SesIsLive
  <1>2. CASE SesIndexerChunk(g)
    <2> DEFINE id == sesIndexer[g].id
               next == sesIndexer[g].cursor + 1
    <2>1. CASE SesIsLive(id) /\ SesSameInstance(g)
      <3>1. PICK b : sesLive' = [sesLive EXCEPT ![id].indexed = Append(@, next), ![id].indexing = b]
        BY <1>2, <2>1 DEF SesIndexerChunk
      <3>2. \A i \in SesIds : sesLive'[i].gen = sesLive[i].gen BY <3>1, SesTypeFacts DEF SesLiveRecs
      <3> QED BY <3>2 DEF SesLiveIds, SesIsLive
    <2>2. CASE ~(SesIsLive(id) /\ SesSameInstance(g))
      BY <1>2, <2>2 DEF SesIndexerChunk, SesLiveIds, SesIsLive
    <2> QED BY <2>1, <2>2
  <1> QED BY <1>1, <1>2 DEF SesIndexerStep

\* A step after which the same sessions are live, and no artifact, answer
\* or call has moved, moves nothing the registry invariant speaks of.
LEMMA SesSettledKept ==
  ASSUME SesSettled, SesLiveIds' = SesLiveIds,
         UNCHANGED <<sesMarksOf, sesCite, sesShown, sesStored, sesExcused>>
  PROVE  SesSettled' BY DEF SesSettled, SesOne, SesKeeps, SesShows, SesRefers, SesMarksAt

LEMMA SesRegistryKept ==
  ASSUME SesRegistryInv, SesLiveIds' = SesLiveIds,
         UNCHANGED <<sesMarksOf, sesCite, sesShown, sesCalls, sesHistory>>
  PROVE  SesRegistryInv'
  <1>1. UNCHANGED <<sesMarksOf, sesCite, sesShown, sesStored, sesExcused, sesOverlap, sesOpen, sesClose, sesPush>>
    BY DEF sesCalls, sesHistory
  <1>2. SesSettled => SesSettled' BY <1>1, SesSettledKept
  <1>3. \A o \in SesOpeners : SesOpenPhase(o) => SesOpenPhase(o)'
    BY <1>1, <1>2 DEF SesOpenPhase, SesKeeps, SesShows, SesRefers, SesMarksAt, SesShowsAtMost
  <1>4. SesClosePhase => SesClosePhase'
    BY <1>1, <1>2 DEF SesClosePhase, SesOne, SesKeeps, SesRefers, SesMarksAt
  <1>5. SesPushPhase => SesPushPhase' BY <1>1, <1>2 DEF SesPushPhase
  <1>6. (SesAlone => SesAlone') /\ SesQuiet' = SesQuiet /\ sesOverlap' = sesOverlap
    BY <1>1 DEF SesAlone, SesQuiet, SesBusy
  <1> QED BY <1>2, <1>3, <1>4, <1>5, <1>6 DEF SesRegistryInv

\* What a call under way may rely on when it is alone.
LEMMA SesOpenAlone ==
  ASSUME SesRegistryInv, ~sesOverlap, NEW o \in SesOpeners, sesOpen[o].pc # "idle"
  PROVE  /\ \A p \in SesOpeners \ {o} : sesOpen[p].pc = "idle"
         /\ sesClose.pc = "idle" /\ sesPush.mark = "none"
         /\ SesOpenPhase(o) BY DEF SesRegistryInv, SesAlone

LEMMA SesOpenGoesOn ==
  ASSUME SesRegistryInv, ~sesOverlap, NEW o \in SesOpeners, sesOpen[o].pc # "idle",
         \A p \in SesOpeners \ {o} : sesOpen'[p] = sesOpen[p],
         UNCHANGED <<sesClose, sesPush, sesOverlap>>,
         SesOpenPhase(o)', sesOpen'[o].pc = "idle" => SesSettled'
  PROVE  SesRegistryInv'
  <1>1. /\ \A p \in SesOpeners \ {o} : sesOpen'[p].pc = "idle"
        /\ sesClose'.pc = "idle" /\ sesPush'.mark = "none" BY SesOpenAlone
  <1>2. SesAlone' BY <1>1 DEF SesAlone
  <1>3. SesQuiet' => SesSettled' BY DEF SesQuiet, SesBusy
  <1>4. \A p \in SesOpeners \ {o} : SesOpenPhase(p)' BY <1>1 DEF SesOpenPhase
  <1>5. SesClosePhase' /\ SesPushPhase' BY <1>1 DEF SesClosePhase, SesPushPhase
  <1> QED BY <1>2, <1>3, <1>4, <1>5 DEF SesRegistryInv

\* The steps of an open call, alone.
LEMMA SesRescueKeeps ==
  ASSUME SesTypeInv, NEW o \in SesOpeners, SesRescue(o), SesOpenPhase(o)
  PROVE  SesOpenPhase(o)' /\ sesOpen'[o].pc = "take"
  <1>1. PICK id, found, gone :
          /\ id = sesOpen[o].id /\ found = {i \in SesLiveIds : SesMigratable(i)}
          /\ gone = UNION {sesMarksOf[i] \cup {"cite"} : i \in {j \in SesLiveIds : j.ver # sesDisk}}
    OBVIOUS
  <1>2. /\ sesOpen[o].pc = "rescue"
        /\ sesOpen' = [sesOpen EXCEPT ![o].pc = "take", ![o].left = found]
        /\ sesCite' = (IF sesCite \in found THEN id ELSE sesCite)
        /\ sesExcused' = sesExcused \cup gone
        /\ UNCHANGED <<sesLive, sesMarksOf, sesShown, sesStored>>
    BY <1>1 DEF SesRescue, sesWorld, sesIndexing
  <1>3. SesLiveIds \subseteq SesIds /\ found \in SUBSET SesIds /\ sesOpen \in [SesOpeners -> SesOpenRecs]
    BY <1>1, SesTypeFacts
  <1>4. /\ sesOpen'[o].pc = "take" /\ sesOpen'[o].id = id /\ sesOpen'[o].left = found
    <2>1. "take" \in SesOpenPcs BY DEF SesOpenPcs
    <2> QED BY ZenonT(30), <1>1, <1>2, <1>3, <2>1, SesSetLeft
  <1>5. SesSettled BY <1>2 DEF SesOpenPhase
  <1>6. ASSUME NEW i \in SesLiveIds, i.ver = sesDisk PROVE i \in found
    BY <1>1, <1>3, <1>6 DEF SesIds, SesMigratable
  <1>7. ASSUME NEW i \in SesLiveIds, i.ver # sesDisk PROVE sesMarksOf[i] \subseteq gone /\ "cite" \in gone
    BY <1>1, <1>7
  <1>8. SesLiveIds' = SesLiveIds BY <1>2 DEF SesLiveIds, SesIsLive
  <1>9. SesRefers({id})'
    <2> SUFFICES ASSUME {"failed", "cite"} \cap sesExcused' = {} PROVE sesCite' \in {id} \cup {SesNone}
      BY DEF SesRefers
    <2>1. sesCite \in SesLiveIds \cup {SesNone}
      <3>1. {"failed", "cite"} \cap sesExcused = {} BY <1>2
      <3> QED BY <1>5, <3>1 DEF SesSettled, SesRefers
    <2>2. \A i \in SesLiveIds : i \in found BY <1>2, <1>6, <1>7
    <2> QED BY <1>2, <2>1, <2>2
  <1>10. SesShows(SesLiveIds)' BY <1>2, <1>5, <1>8 DEF SesSettled, SesShows
  <1>11. SesKeeps(SesMarksAt(found))'
    <2> SUFFICES ASSUME NEW b \in sesStored, b \notin sesExcused, b \notin gone
                 PROVE  \E i \in found : b \in sesMarksOf[i] BY <1>2 DEF SesKeeps, SesMarksAt
    <2>1. PICK i \in SesLiveIds : b \in sesMarksOf[i] BY <1>5 DEF SesSettled, SesKeeps, SesMarksAt
    <2> QED BY <1>6, <1>7, <2>1
  <1> QED BY <1>4, <1>9, <1>10, <1>11 DEF SesOpenPhase

LEMMA SesClosingKeeps ==
  ASSUME SesTypeInv, NEW o \in SesOpeners, SesOpenPhase(o),
         \/ SesTake(o) \/ SesListStale(o) \/ SesCloseStaleTask(o) \/ SesCloseStaleSession(o)
         \/ SesCloseStaleArtifacts(o) \/ SesAnnounceStale(o)
  PROVE  SesOpenPhase(o)' /\ sesOpen'[o].pc # "idle" /\ sesOpen[o].pc # "idle"
  <1>1. /\ sesOpen \in [SesOpeners -> SesOpenRecs] /\ sesOpen[o] \in SesOpenRecs /\ SesLiveIds \subseteq SesIds
        /\ sesOpen[o].left \subseteq SesIds /\ sesMarksOf \in [SesIds -> SUBSET SesMarks]
        /\ sesOpen[o].pc \in {"live", "artifacts"} => sesOpen[o].left # {}
    BY SesTypeFacts, SesTypeParts DEF SesOpenRecs
  <1>2. CASE SesTake(o)
    <2> DEFINE marks == SesMarksAt(sesOpen[o].left)
    <2>1. /\ sesOpen[o].pc = "take"
          /\ sesOpen' = [sesOpen EXCEPT ![o].pc = "list", ![o].mine = marks, ![o].left = {}]
          /\ UNCHANGED <<sesLive, sesCite, sesShown, sesStored, sesExcused>>
      BY <1>2 DEF SesTake, SesMarksAt, sesWorld, sesIndexing, sesHistory
    <2>2. marks \in SUBSET SesMarks /\ {} \in SUBSET SesIds /\ "list" \in SesOpenPcs
      BY <1>1 DEF SesMarksAt, SesOpenPcs
    <2>3. SesLiveIds' = SesLiveIds BY <2>1 DEF SesLiveIds, SesIsLive
    <2>4. SesRefers({sesOpen[o].id}) /\ SesShows(SesLiveIds) /\ SesKeeps(marks)
      BY <2>1 DEF SesOpenPhase
    <2> HIDE DEF marks
    <2>5. sesOpen'[o].pc = "list" /\ sesOpen'[o].id = sesOpen[o].id /\ sesOpen'[o].mine = marks
      BY ZenonT(30), <1>1, <2>1, <2>2, SesSetMine
    <2> QED BY <2>1, <2>3, <2>4, <2>5 DEF SesOpenPhase, SesRefers, SesShows, SesKeeps
  <1>3. CASE SesListStale(o)
    <2>1. /\ sesOpen[o].pc = "list"
          /\ sesOpen' = [sesOpen EXCEPT ![o].pc = "task", ![o].left = SesLiveIds, ![o].gone = SesLiveIds]
          /\ UNCHANGED <<sesLive, sesCite, sesShown, sesStored, sesExcused>>
      BY <1>3 DEF SesListStale, SesStale, sesWorld, sesIndexing, sesHistory, sesArtifacts
    <2>2. SesLiveIds \in SUBSET SesIds /\ "task" \in SesOpenPcs BY <1>1 DEF SesOpenPcs
    <2>3. SesLiveIds' = SesLiveIds BY <2>1 DEF SesLiveIds, SesIsLive
    <2>4. SesRefers({sesOpen[o].id}) /\ SesShows(SesLiveIds) /\ SesKeeps(sesOpen[o].mine)
      BY <2>1 DEF SesOpenPhase
    <2>5. /\ sesOpen'[o].pc = "task" /\ sesOpen'[o].id = sesOpen[o].id /\ sesOpen'[o].mine = sesOpen[o].mine
          /\ sesOpen'[o].left = SesLiveIds /\ sesOpen'[o].gone = SesLiveIds
      <3>1. PICK live \in SUBSET SesIds : live = SesLiveIds BY <2>2
      <3>2. sesOpen' = [sesOpen EXCEPT ![o].pc = "task", ![o].left = live, ![o].gone = live]
        BY <2>1, <3>1
      <3>3. sesOpen \in [SesOpeners -> SesOpenRecs] /\ "task" \in SesOpenPcs BY <1>1, <2>2
      <3>4. /\ sesOpen'[o].pc = "task" /\ sesOpen'[o].id = sesOpen[o].id /\ sesOpen'[o].mine = sesOpen[o].mine
            /\ sesOpen'[o].left = live /\ sesOpen'[o].gone = live BY <3>2, <3>3 DEF SesOpenRecs
      <3> QED BY <3>1, <3>4
    <2> QED BY <2>1, <2>3, <2>4, <2>5 DEF SesOpenPhase, SesRefers, SesShows, SesKeeps
  <1>4. CASE SesCloseStaleTask(o)
    <2>1. PICK pc \in {"live", "announce"} :
            /\ sesOpen[o].pc = "task" /\ sesOpen' = [sesOpen EXCEPT ![o].pc = pc]
            /\ pc = "announce" => sesOpen[o].left = {}
            /\ UNCHANGED <<sesLive, sesCite, sesShown, sesStored, sesExcused>>
      BY <1>4 DEF SesCloseStaleTask, sesWorld, sesHistory, sesArtifacts
    <2>2. pc \in SesOpenPcs BY DEF SesOpenPcs
    <2>3. SesLiveIds' = SesLiveIds BY <2>1 DEF SesLiveIds, SesIsLive
    <2>4. /\ SesRefers({sesOpen[o].id}) /\ SesShows(sesOpen[o].gone) /\ SesKeeps(sesOpen[o].mine)
          /\ SesLiveIds = sesOpen[o].left BY <2>1 DEF SesOpenPhase
    <2>5. /\ sesOpen'[o].pc = pc /\ sesOpen'[o].id = sesOpen[o].id /\ sesOpen'[o].mine = sesOpen[o].mine
          /\ sesOpen'[o].left = sesOpen[o].left /\ sesOpen'[o].gone = sesOpen[o].gone
      BY <1>1, <2>1, <2>2, SesSetPc
    <2> QED BY <2>1, <2>3, <2>4, <2>5 DEF SesOpenPhase, SesRefers, SesShows, SesKeeps
  <1>5. CASE SesCloseStaleSession(o)
    <2> DEFINE id == CHOOSE i \in sesOpen[o].left : TRUE
    <2>1. /\ sesOpen[o].pc = "live" /\ sesOpen' = [sesOpen EXCEPT ![o].pc = "artifacts"]
          /\ SesRemoveSession(id) /\ UNCHANGED <<sesCite, sesShown, sesStored, sesExcused>>
      BY <1>5 DEF SesCloseStaleSession, sesWorld, sesHistory, sesArtifacts
    <2>2. "artifacts" \in SesOpenPcs /\ id \in SesIds BY <1>1, <2>1 DEF SesOpenPcs
    <2>3. SesLiveIds' = SesLiveIds \ {id}
      <3> HIDE DEF id
      <3> QED BY <2>1, <2>2, SesLiveRemoved
    <2>4. /\ SesRefers({sesOpen[o].id}) /\ SesShows(sesOpen[o].gone) /\ SesKeeps(sesOpen[o].mine)
          /\ SesLiveIds = sesOpen[o].left BY <2>1 DEF SesOpenPhase
    <2>5. /\ sesOpen'[o].pc = "artifacts" /\ sesOpen'[o].id = sesOpen[o].id /\ sesOpen'[o].mine = sesOpen[o].mine
          /\ sesOpen'[o].left = sesOpen[o].left /\ sesOpen'[o].gone = sesOpen[o].gone
      BY <1>1, <2>1, <2>2, SesSetPc
    <2> QED BY <2>1, <2>3, <2>4, <2>5 DEF SesOpenPhase, SesRefers, SesShows, SesKeeps
  <1>6. CASE SesCloseStaleArtifacts(o)
    <2> DEFINE rest == sesOpen[o].left \ {CHOOSE i \in sesOpen[o].left : TRUE}
    <2>1. /\ sesOpen[o].pc = "artifacts" /\ sesOpen' = [sesOpen EXCEPT ![o].pc = "task", ![o].left = rest]
          /\ UNCHANGED <<sesLive, sesCite, sesShown, sesStored, sesExcused>>
      BY <1>6 DEF SesCloseStaleArtifacts, sesWorld, sesIndexing, sesHistory
    <2>2. "task" \in SesOpenPcs /\ rest \in SUBSET SesIds BY <1>1 DEF SesOpenPcs
    <2>3. SesLiveIds' = SesLiveIds BY <2>1 DEF SesLiveIds, SesIsLive
    <2>4. /\ SesRefers({sesOpen[o].id}) /\ SesShows(sesOpen[o].gone) /\ SesKeeps(sesOpen[o].mine)
          /\ SesLiveIds = rest BY <2>1 DEF SesOpenPhase
    <2> HIDE DEF rest
    <2>5. /\ sesOpen'[o].pc = "task" /\ sesOpen'[o].id = sesOpen[o].id /\ sesOpen'[o].mine = sesOpen[o].mine
          /\ sesOpen'[o].left = rest /\ sesOpen'[o].gone = sesOpen[o].gone
      BY <1>1, <2>1, <2>2, SesSetLeft
    <2> QED BY <2>1, <2>3, <2>4, <2>5 DEF SesOpenPhase, SesRefers, SesShows, SesKeeps
  <1>7. CASE SesAnnounceStale(o)
    <2>1. /\ sesOpen[o].pc = "announce" /\ sesOpen' = [sesOpen EXCEPT ![o].pc = "load"]
          /\ sesShown' = sesShown \ (sesOpen[o].gone \ {sesOpen[o].id})
          /\ UNCHANGED <<sesLive, sesCite, sesStored, sesExcused>>
      BY <1>7 DEF SesAnnounceStale, sesIndexing, sesArtifacts, sesHistory
    <2>2. "load" \in SesOpenPcs BY DEF SesOpenPcs
    <2>3. SesLiveIds' = SesLiveIds BY <2>1 DEF SesLiveIds, SesIsLive
    <2>4. /\ SesRefers({sesOpen[o].id}) /\ SesShows(sesOpen[o].gone) /\ SesKeeps(sesOpen[o].mine)
          /\ SesLiveIds = {} BY <2>1 DEF SesOpenPhase
    <2>5. /\ sesOpen'[o].pc = "load" /\ sesOpen'[o].id = sesOpen[o].id /\ sesOpen'[o].mine = sesOpen[o].mine
      BY <1>1, <2>1, <2>2, SesSetPc
    <2> QED BY <2>1, <2>3, <2>4, <2>5 DEF SesOpenPhase, SesRefers, SesShows, SesShowsAtMost, SesKeeps
  <1> QED BY <1>2, <1>3, <1>4, <1>5, <1>6, <1>7

LEMMA SesLoadingKeeps ==
  ASSUME SesTypeInv, NEW o \in SesOpeners, SesOpenPhase(o),
         SesLoad(o) \/ SesInsert(o) \/ SesRestore(o) \/ SesSpawn(o)
  PROVE  SesOpenPhase(o)' /\ sesOpen'[o].pc # "idle" /\ sesOpen[o].pc # "idle"
  <1>1. /\ sesOpen \in [SesOpeners -> SesOpenRecs] /\ sesOpen[o] \in SesOpenRecs
        /\ sesOpen[o].pc # "idle" => sesOpen[o].id \in SesIds
        /\ sesOpen[o].pc = "insert" => sesOpen[o].gen # 0
        /\ sesLive \in [SesIds -> SesLiveRecs] /\ sesMarksOf \in [SesIds -> SUBSET SesMarks]
    BY SesTypeFacts, SesTypeParts
  <1>2. CASE SesLoad(o)
    <2>1. /\ sesOpen[o].pc = "load" /\ sesOpen'[o].pc = "insert" /\ sesOpen'[o].id = sesOpen[o].id
          /\ sesOpen'[o].mine = sesOpen[o].mine
          /\ UNCHANGED <<sesLive, sesCite, sesShown, sesStored, sesExcused>>
      BY <1>1, <1>2 DEF SesLoad, SesOpenRecs, sesIndexing, sesArtifacts, sesHistory
    <2>2. SesLiveIds' = SesLiveIds BY <2>1 DEF SesLiveIds, SesIsLive
    <2>3. /\ SesRefers({sesOpen[o].id}) /\ SesShowsAtMost(sesOpen[o].id) /\ SesKeeps(sesOpen[o].mine)
          /\ SesLiveIds = {} BY <2>1 DEF SesOpenPhase
    <2> QED BY <2>1, <2>2, <2>3 DEF SesOpenPhase, SesRefers, SesShowsAtMost, SesKeeps
  <1>3. CASE SesInsert(o)
    <2>1. /\ sesOpen[o].pc = "insert" /\ sesOpen' = [sesOpen EXCEPT ![o].pc = "restore"]
          /\ UNCHANGED <<sesCite, sesShown, sesStored, sesExcused>>
      BY <1>3 DEF SesInsert, sesWorld, sesArtifacts, sesHistory
    <2>2. /\ sesOpen'[o].pc = "restore" /\ sesOpen'[o].id = sesOpen[o].id /\ sesOpen'[o].mine = sesOpen[o].mine
      BY <1>1, <2>1, SesSetPc DEF SesOpenPcs
    <2>3. /\ sesLive'[sesOpen[o].id].gen # 0
          /\ \A i \in SesIds \ {sesOpen[o].id} : sesLive'[i] = sesLive[i]
      BY <1>1, <1>3, <2>1 DEF SesInsert
    <2>4. /\ SesRefers({sesOpen[o].id}) /\ SesShowsAtMost(sesOpen[o].id) /\ SesKeeps(sesOpen[o].mine)
          /\ SesLiveIds = {} BY <2>1 DEF SesOpenPhase
    <2>5. SesLiveIds' = {sesOpen[o].id} BY <1>1, <2>1, <2>3, <2>4 DEF SesLiveIds, SesIsLive
    <2> QED BY <2>1, <2>2, <2>4, <2>5 DEF SesOpenPhase, SesRefers, SesShowsAtMost, SesKeeps
  <1>4. CASE SesRestore(o)
    <2>1. /\ sesOpen[o].pc = "restore" /\ sesOpen'[o].pc \in {"spawn", "answer"}
          /\ sesOpen'[o].id = sesOpen[o].id
          /\ UNCHANGED <<sesLive, sesCite, sesShown, sesStored, sesExcused>>
      BY <1>1, <1>4 DEF SesRestore, SesOpenRecs, sesWorld, sesIndexing, sesHistory
    <2>2. SesLiveIds' = SesLiveIds BY <2>1 DEF SesLiveIds, SesIsLive
    <2>3. /\ SesRefers({sesOpen[o].id}) /\ SesShowsAtMost(sesOpen[o].id) /\ SesKeeps(sesOpen[o].mine)
          /\ SesLiveIds = {sesOpen[o].id} BY <2>1 DEF SesOpenPhase
    <2>4. sesOpen[o].mine \subseteq sesMarksOf'[sesOpen[o].id] BY <1>1, <1>4, <2>1 DEF SesRestore
    <2> QED BY <2>1, <2>2, <2>3, <2>4 DEF SesOpenPhase, SesRefers, SesShowsAtMost, SesKeeps
  <1>5. CASE SesSpawn(o)
    <2>1. /\ sesOpen[o].pc = "spawn" /\ sesOpen' = [sesOpen EXCEPT ![o].pc = "answer"]
          /\ UNCHANGED <<sesLive, sesMarksOf, sesCite, sesShown, sesStored, sesExcused>>
      BY <1>5 DEF SesSpawn, sesWorld, sesArtifacts, sesHistory
    <2>2. sesOpen'[o].pc = "answer" /\ sesOpen'[o].id = sesOpen[o].id
      BY <1>1, <2>1, SesSetPc DEF SesOpenPcs
    <2>3. SesLiveIds' = SesLiveIds BY <2>1 DEF SesLiveIds, SesIsLive
    <2>4. /\ SesRefers({sesOpen[o].id}) /\ SesShowsAtMost(sesOpen[o].id) /\ SesKeeps(sesMarksOf[sesOpen[o].id])
          /\ SesLiveIds = {sesOpen[o].id} BY <2>1 DEF SesOpenPhase
    <2> QED BY <2>1, <2>2, <2>3, <2>4 DEF SesOpenPhase, SesRefers, SesShowsAtMost, SesKeeps
  <1> QED BY <1>2, <1>3, <1>4, <1>5

\* The call ends: the registry is settled again.
LEMMA SesEndingSettles ==
  ASSUME SesTypeInv, NEW o \in SesOpeners, SesOpenPhase(o), SesLoadFails(o) \/ SesAnswer(o)
  PROVE  SesOpenPhase(o)' /\ SesSettled' /\ sesOpen'[o].pc = "idle" /\ sesOpen[o].pc # "idle"
  <1>1. sesOpen'[o].pc = "idle" /\ SesOpenPhase(o)'
    <2>1. sesOpen'[o].pc = "idle" BY SesTypeFacts, SesIdleRec DEF SesLoadFails, SesAnswer
    <2> QED BY <2>1 DEF SesOpenPhase
  <1>2. SesLiveIds' = SesLiveIds BY DEF SesLoadFails, SesAnswer, sesIndexing, SesLiveIds, SesIsLive
  <1>3. CASE SesLoadFails(o)
    <2>1. /\ sesOpen[o].pc = "load" /\ sesExcused' = sesExcused \cup sesOpen[o].mine \cup {"failed"}
          /\ UNCHANGED <<sesMarksOf, sesStored>> BY <1>3 DEF SesLoadFails, sesArtifacts
    <2>2. SesLiveIds = {} /\ SesKeeps(sesOpen[o].mine) BY <2>1 DEF SesOpenPhase
    <2> QED BY <1>1, <1>2, <2>1, <2>2 DEF SesSettled, SesOne, SesKeeps, SesShows, SesRefers
  <1>4. CASE SesAnswer(o)
    <2>1. /\ sesOpen[o].pc = "answer" /\ sesShown' = sesShown \cup {sesOpen[o].id}
          /\ UNCHANGED <<sesMarksOf, sesCite, sesStored, sesExcused>>
      BY <1>4 DEF SesAnswer, sesArtifacts, sesHistory
    <2>2. /\ SesLiveIds = {sesOpen[o].id} /\ SesKeeps(sesMarksOf[sesOpen[o].id]) /\ SesRefers({sesOpen[o].id})
          /\ SesShowsAtMost(sesOpen[o].id) BY <2>1 DEF SesOpenPhase
    <2> QED
      BY <1>1, <1>2, <2>1, <2>2 DEF SesSettled, SesOne, SesKeeps, SesShows, SesShowsAtMost, SesRefers, SesMarksAt
  <1> QED BY <1>1, <1>3, <1>4 DEF SesLoadFails, SesAnswer

LEMMA SesRegistryOpenStep ==
  ASSUME SesTypeInv, SesRegistryInv, NEW o \in SesOpeners, SesOpenStep(o)
  PROVE  SesRegistryInv'
  <1>1. /\ \A p \in SesOpeners \ {o} : sesOpen'[p] = sesOpen[p]
        /\ UNCHANGED <<sesClose, sesPush>> BY SesOpenTypes
  <1>2. sesOverlap' = sesOverlap /\ sesOpen[o].pc # "idle"
    BY DEF SesOpenStep, SesRescue, SesTake, SesListStale, SesCloseStaleTask, SesCloseStaleSession,
      SesCloseStaleArtifacts, SesAnnounceStale, SesLoadFails, SesLoad, SesInsert, SesRestore,
      SesSpawn, SesAnswer, sesHistory
  <1>3. CASE sesOverlap BY <1>2, <1>3 DEF SesRegistryInv
  <1>4. CASE ~sesOverlap
    <2>1. SesOpenPhase(o) BY <1>2, <1>4, SesOpenAlone
    <2>2. SesOpenPhase(o)' /\ (sesOpen'[o].pc = "idle" => SesSettled')
      BY <2>1, SesRescueKeeps, SesClosingKeeps, SesLoadingKeeps, SesEndingSettles DEF SesOpenStep
    <2> QED BY <1>1, <1>2, <1>4, <2>2, SesOpenGoesOn
  <1> QED BY <1>3, <1>4

\* The steps of a close call, and those of the artifacts' calls.
LEMMA SesCloseGoesOn ==
  ASSUME UNCHANGED sesOpen, \A o \in SesOpeners : sesOpen[o].pc = "idle", sesPush'.mark = "none",
         SesClosePhase', sesClose'.pc = "idle" => SesSettled'
  PROVE  SesRegistryInv'
  <1>1. SesAlone' /\ SesPushPhase' /\ (SesQuiet' => SesSettled')
    BY DEF SesAlone, SesPushPhase, SesQuiet
  <1>2. \A o \in SesOpeners : SesOpenPhase(o)' BY DEF SesOpenPhase
  <1> QED BY <1>1, <1>2 DEF SesRegistryInv

LEMMA SesRegistryClose ==
  ASSUME SesTypeInv, SesRegistryInv, SesClose
  PROVE  SesRegistryInv'
  <1> DEFINE id == sesClose.id
  <1>1. /\ sesOverlap' = sesOverlap /\ UNCHANGED <<sesOpen, sesPush>> /\ sesClose.pc # "idle"
    BY DEF SesClose, SesCloseTask, SesCloseSession, SesCloseArtifacts, SesCloseAnnounce, sesHistory
  <1>2. CASE sesOverlap BY <1>1, <1>2 DEF SesRegistryInv
  <1>3. CASE ~sesOverlap
    <2>1. /\ \A o \in SesOpeners : sesOpen[o].pc = "idle"
          /\ sesPush.mark = "none" /\ SesClosePhase BY <1>1, <1>3 DEF SesRegistryInv, SesAlone
    <2>2. /\ id \in SesIds /\ sesClose \in [pc : {"idle", "task", "live", "artifacts", "announce"}, id : SesAnyId]
          /\ sesMarksOf \in [SesIds -> SUBSET SesMarks] BY <1>1, SesTypeParts, SesTypeFacts
    <2>3. CASE SesCloseTask
      <3>1. /\ sesClose.pc = "task" /\ sesClose'.pc = "live"
            /\ UNCHANGED <<sesLive, sesMarksOf, sesCite, sesShown, sesStored, sesExcused>>
        BY <2>2, <2>3 DEF SesCloseTask, sesWorld, sesArtifacts, sesHistory
      <3>2. SesLiveIds' = SesLiveIds /\ SesSettled
        BY <2>1, <3>1 DEF SesLiveIds, SesIsLive, SesClosePhase
      <3>3. SesSettled' BY <3>1, <3>2, SesSettledKept
      <3>4. SesClosePhase' BY <3>1, <3>3 DEF SesClosePhase
      <3> QED BY <1>1, <2>1, <3>1, <3>4, SesCloseGoesOn
    <2>4. CASE SesCloseSession
      <3>1. /\ sesClose.pc = "live" /\ sesClose'.pc = "artifacts" /\ sesClose'.id = id /\ SesRemoveSession(id)
            /\ UNCHANGED <<sesMarksOf, sesCite, sesShown, sesStored, sesExcused>>
        BY <2>2, <2>4 DEF SesCloseSession, sesWorld, sesArtifacts, sesHistory
      <3>2. SesLiveIds' = SesLiveIds \ {id} BY <2>2, <3>1, SesLiveRemoved
      <3>3. SesSettled BY <2>1, <3>1 DEF SesClosePhase
      <3>4. SesOne' /\ id \notin SesLiveIds' /\ ("failed" \notin sesExcused' => sesShown' \ {id} = SesLiveIds')
        BY <3>1, <3>2, <3>3 DEF SesSettled, SesOne, SesShows
      <3>5. SesKeeps(SesMarksAt(SesLiveIds) \cup sesMarksOf[id])'
        <4>1. SesMarksAt(SesLiveIds) \subseteq SesMarksAt(SesLiveIds)' \cup sesMarksOf[id]
          BY <3>1, <3>2 DEF SesMarksAt
        <4> QED BY <3>1, <3>3, <4>1 DEF SesSettled, SesKeeps
      <3>6. SesRefers(SesLiveIds \cup {id})' BY <3>1, <3>2, <3>3 DEF SesSettled, SesRefers
      <3>7. SesClosePhase' BY <3>1, <3>4, <3>5, <3>6 DEF SesClosePhase
      <3> QED BY <1>1, <2>1, <3>1, <3>7, SesCloseGoesOn
    <2>5. CASE SesCloseArtifacts
      <3>1. /\ sesClose.pc = "artifacts" /\ sesClose'.pc = "announce" /\ sesClose'.id = id
            /\ sesMarksOf' = [sesMarksOf EXCEPT ![id] = {}]
            /\ sesExcused' = sesExcused \cup sesMarksOf[id] \cup {"cite"}
            /\ UNCHANGED <<sesLive, sesCite, sesShown, sesStored>>
        BY <2>2, <2>5 DEF SesCloseArtifacts, SesRemoveArtifacts, sesWorld, sesIndexing
      <3>2. SesLiveIds' = SesLiveIds /\ SesLiveIds \subseteq SesIds
        BY <3>1, SesTypeFacts DEF SesLiveIds, SesIsLive
      <3>3. /\ SesOne /\ id \notin SesLiveIds
            /\ "failed" \notin sesExcused => sesShown \ {id} = SesLiveIds
            /\ SesKeeps(SesMarksAt(SesLiveIds) \cup sesMarksOf[id]) BY <2>1, <3>1 DEF SesClosePhase
      <3>4. SesMarksAt(SesLiveIds)' = SesMarksAt(SesLiveIds)
        <4>1. \A i \in SesLiveIds : sesMarksOf'[i] = sesMarksOf[i] BY <2>2, <3>1, <3>2, <3>3
        <4> QED BY <3>2, <4>1 DEF SesMarksAt
      <3>5. SesKeeps(SesMarksAt(SesLiveIds))' BY <3>1, <3>3, <3>4 DEF SesKeeps
      <3>6. SesRefers(SesLiveIds)' /\ SesOne' /\ ("failed" \notin sesExcused' => sesShown' \ {id} = SesLiveIds')
        BY <3>1, <3>2, <3>3 DEF SesRefers, SesOne
      <3>7. SesClosePhase' BY <3>1, <3>2, <3>3, <3>5, <3>6 DEF SesClosePhase
      <3> QED BY <1>1, <2>1, <3>1, <3>7, SesCloseGoesOn
    <2>6. CASE SesCloseAnnounce
      <3>1. /\ sesClose.pc = "announce" /\ sesClose'.pc = "idle" /\ sesShown' = sesShown \ {id}
            /\ UNCHANGED <<sesLive, sesMarksOf, sesCite, sesStored, sesExcused>>
        BY <2>2, <2>6 DEF SesCloseAnnounce, sesArtifacts, sesIndexing, sesHistory
      <3>2. SesLiveIds' = SesLiveIds BY <3>1 DEF SesLiveIds, SesIsLive
      <3>3. /\ SesOne /\ ("failed" \notin sesExcused => sesShown \ {id} = SesLiveIds)
            /\ SesKeeps(SesMarksAt(SesLiveIds)) /\ SesRefers(SesLiveIds)
        BY <2>1, <3>1 DEF SesClosePhase
      <3>4. SesSettled'
        BY <3>1, <3>2, <3>3 DEF SesSettled, SesOne, SesShows, SesKeeps, SesRefers, SesMarksAt
      <3>5. SesClosePhase' BY <3>1 DEF SesClosePhase
      <3> QED BY <1>1, <2>1, <3>4, <3>5, SesCloseGoesOn
    <2> QED BY <2>3, <2>4, <2>5, <2>6 DEF SesClose
  <1> QED BY <1>2, <1>3

\* A call that starts alone finds the registry settled.
LEMMA SesStartsSettled ==
  ASSUME SesRegistryInv, SesNoteOverlap, ~sesOverlap'
  PROVE  /\ ~sesOverlap /\ SesSettled
         /\ \A o \in SesOpeners : sesOpen[o].pc = "idle"
         /\ sesClose.pc = "idle" /\ sesPush.mark = "none"
  BY DEF SesRegistryInv, SesNoteOverlap, SesQuiet, SesBusy

LEMMA SesRegistryStart ==
  ASSUME SesTypeInv, SesRegistryInv,
         \/ \E o \in SesOpeners, l \in SesLabels : SesOpenStart(o, l)
         \/ \E id \in SesIds : SesCloseStart(id) \/ SesPublish(id) \/ \E b \in SesMarks : SesPushCheck(b, id)
  PROVE  SesRegistryInv'
  <1> SUFFICES ASSUME ~sesOverlap' PROVE SesRegistryInv' BY DEF SesRegistryInv
  <1>1. SesNoteOverlap BY DEF SesOpenStart, SesCloseStart, SesPublish, SesPushCheck
  <1>2. /\ SesSettled
        /\ \A o \in SesOpeners : sesOpen[o].pc = "idle"
        /\ sesClose.pc = "idle" /\ sesPush.mark = "none" BY <1>1, SesStartsSettled
  <1>3. ASSUME NEW o \in SesOpeners, NEW l \in SesLabels, SesOpenStart(o, l) PROVE SesRegistryInv'
    <2>1. /\ \A p \in SesOpeners \ {o} : sesOpen'[p] = sesOpen[p]
          /\ sesOpen'[o].pc = "rescue"
          /\ UNCHANGED <<sesClose, sesPush, sesLive, sesMarksOf, sesCite, sesShown, sesStored, sesExcused>>
      BY <1>3, SesTypeFacts DEF SesOpenStart, SesIdle, sesIndexing, sesWorld, sesArtifacts
    <2>2. SesSettled'
      <3>1. SesLiveIds' = SesLiveIds BY <2>1 DEF SesLiveIds, SesIsLive
      <3> QED BY <1>2, <2>1, <3>1, SesSettledKept
    <2>3. \A p \in SesOpeners : SesOpenPhase(p)' BY <1>2, <2>1, <2>2 DEF SesOpenPhase
    <2>4. SesAlone' /\ SesClosePhase' /\ SesPushPhase'
      BY <1>2, <2>1 DEF SesAlone, SesClosePhase, SesPushPhase
    <2> QED BY <2>2, <2>3, <2>4 DEF SesRegistryInv
  <1>4. ASSUME NEW id \in SesIds, SesCloseStart(id) PROVE SesRegistryInv'
    <2>1. /\ sesClose'.pc = "task"
          /\ UNCHANGED <<sesOpen, sesPush, sesLive, sesMarksOf, sesCite, sesShown, sesStored, sesExcused>>
      BY <1>4 DEF SesCloseStart, sesIndexing, sesWorld, sesArtifacts
    <2>2. SesSettled'
      <3>1. SesLiveIds' = SesLiveIds BY <2>1 DEF SesLiveIds, SesIsLive
      <3> QED BY <1>2, <2>1, <3>1, SesSettledKept
    <2>3. SesClosePhase' BY <2>1, <2>2 DEF SesClosePhase
    <2> QED BY <1>2, <2>1, <2>2, <2>3, SesCloseGoesOn
  <1>5. ASSUME NEW id \in SesIds, NEW b \in SesMarks, SesPushCheck(b, id) PROVE SesRegistryInv'
    <2>1. /\ sesPush'.id = id /\ id \in SesLiveIds
          /\ UNCHANGED <<sesOpen, sesClose, sesLive, sesMarksOf, sesCite, sesShown, sesStored, sesExcused>>
      BY <1>5 DEF SesPushCheck, sesIndexing, sesWorld, sesArtifacts, SesLiveIds
    <2>2. SesLiveIds' = SesLiveIds BY <2>1 DEF SesLiveIds, SesIsLive
    <2>3. SesSettled' BY <1>2, <2>1, <2>2, SesSettledKept
    <2>4. SesPushPhase' /\ SesClosePhase' /\ SesAlone'
      BY <1>2, <2>1, <2>2, <2>3 DEF SesPushPhase, SesClosePhase, SesAlone
    <2>5. \A o \in SesOpeners : SesOpenPhase(o)' BY <1>2, <2>1 DEF SesOpenPhase
    <2> QED BY <2>3, <2>4, <2>5 DEF SesRegistryInv
  <1>6. ASSUME NEW id \in SesIds, SesPublish(id) PROVE SesRegistryInv'
    <2>1. /\ sesCite' = id /\ id \in SesLiveIds
          /\ UNCHANGED <<sesOpen, sesClose, sesPush, sesLive, sesMarksOf, sesShown, sesStored, sesExcused>>
      BY <1>6 DEF SesPublish, sesIndexing, sesWorld, sesCalls, SesLiveIds
    <2>2. SesLiveIds' = SesLiveIds BY <2>1 DEF SesLiveIds, SesIsLive
    <2>3. SesSettled'
      BY <1>2, <2>1, <2>2 DEF SesSettled, SesOne, SesKeeps, SesShows, SesRefers, SesMarksAt
    <2>4. SesClosePhase' BY <1>2, <2>1 DEF SesClosePhase
    <2> QED BY <1>2, <2>1, <2>3, <2>4, SesCloseGoesOn
  <1> QED BY <1>3, <1>4, <1>5, <1>6

LEMMA SesRegistryPush ==
  ASSUME SesTypeInv, SesRegistryInv, SesPushStore
  PROVE  SesRegistryInv'
  <1> DEFINE id == sesPush.id
  <1>1. /\ sesPush.mark # "none" /\ sesMarksOf' = [sesMarksOf EXCEPT ![id] = @ \cup {sesPush.mark}]
        /\ sesStored' = sesStored \cup {sesPush.mark} /\ sesPush' = [mark |-> "none", id |-> SesNone]
        /\ UNCHANGED <<sesLive, sesCite, sesShown, sesOpen, sesClose, sesExcused, sesOverlap>>
    BY DEF SesPushStore, sesWorld, sesIndexing
  <1>2. CASE sesOverlap BY <1>1, <1>2 DEF SesRegistryInv
  <1>3. CASE ~sesOverlap
    <2>1. /\ \A o \in SesOpeners : sesOpen[o].pc = "idle"
          /\ sesClose.pc = "idle" /\ SesSettled /\ id \in SesLiveIds
      BY <1>1, <1>3 DEF SesRegistryInv, SesAlone, SesPushPhase
    <2>2. SesLiveIds' = SesLiveIds /\ SesLiveIds \subseteq SesIds /\ sesMarksOf \in [SesIds -> SUBSET SesMarks]
      BY <1>1, SesTypeFacts DEF SesLiveIds, SesIsLive
    <2>3. SesMarksAt(SesLiveIds) \cup {sesPush.mark} \subseteq SesMarksAt(SesLiveIds)'
      <3>1. /\ \A i \in SesIds : sesMarksOf[i] \subseteq sesMarksOf'[i]
            /\ sesPush.mark \in sesMarksOf'[id] BY <1>1, <2>1, <2>2
      <3> QED BY <2>1, <2>2, <3>1 DEF SesMarksAt
    <2>4. SesKeeps(SesMarksAt(SesLiveIds))' BY <1>1, <2>1, <2>3 DEF SesSettled, SesKeeps
    <2>5. SesSettled' BY <1>1, <2>1, <2>2, <2>4 DEF SesSettled, SesOne, SesShows, SesRefers
    <2>6. SesClosePhase' BY <1>1, <2>1 DEF SesClosePhase
    <2> QED BY <1>1, <2>1, <2>5, <2>6, SesCloseGoesOn
  <1> QED BY <1>2, <1>3

LEMMA SesRegistryStep == SesTypeInv /\ SesRegistryInv /\ [SesNext]_sesVars => SesRegistryInv'
  <1> SUFFICES ASSUME SesTypeInv, SesRegistryInv, [SesNext]_sesVars PROVE SesRegistryInv' OBVIOUS
  <1>1. CASE UNCHANGED sesVars \/ SesRewrite
    <2>1. UNCHANGED <<sesLive, sesMarksOf, sesCite, sesShown, sesCalls, sesHistory>>
      BY <1>1 DEF sesVars, SesRewrite, sesIndexing, sesWorld, sesArtifacts, sesCalls, sesHistory
    <2>2. SesLiveIds' = SesLiveIds BY <2>1 DEF SesLiveIds, SesIsLive
    <2> QED BY <2>1, <2>2, SesRegistryKept
  <1>2. ASSUME NEW o \in SesOpeners, SesOpenStep(o) PROVE SesRegistryInv'
    BY <1>2, SesRegistryOpenStep
  <1>3. CASE \/ \E o \in SesOpeners, l \in SesLabels : SesOpenStart(o, l)
             \/ \E id \in SesIds : SesCloseStart(id) \/ SesPublish(id) \/ \E b \in SesMarks : SesPushCheck(b, id)
    BY <1>3, SesRegistryStart
  <1>4. CASE SesClose BY <1>4, SesRegistryClose
  <1>5. CASE SesPushStore BY <1>5, SesRegistryPush
  <1>6. ASSUME NEW g \in SesGens, SesIndexerStep(g) PROVE SesRegistryInv'
    <2>1. UNCHANGED <<sesMarksOf, sesCite, sesShown, sesCalls, sesHistory>>
      BY <1>6, SesIndexerTypes DEF sesWorld, sesArtifacts
    <2> QED BY <1>6, <2>1, SesLiveIndexed, SesRegistryKept
  <1> QED BY <1>1, <1>2, <1>3, <1>4, <1>5, <1>6 DEF SesNext

----------------------------------------
\* The invariant.

LEMMA SesInitially == SesInit => SesInv
  <1> SUFFICES ASSUME SesInit PROVE SesInv OBVIOUS
  <1>1. SesMaxVer \in Nat /\ SesMaxGen \in Nat /\ SesIdle \in SesOpenRecs /\ SesIdle.pc = "idle"
        /\ SesNoSession \in SesLiveRecs /\ SesNoIndexer \in SesIndexerRecs
    BY SesAssumption, SesIdleRec, SesNewRecords DEF SesAssumption, SesNoIndexer, SesIndexerRecs, SesAnyId
  <1>2. SesTypeInv
    <2>1. /\ sesLive \in [SesIds -> SesLiveRecs] /\ sesIndexer \in [SesGens -> SesIndexerRecs]
          /\ sesTasks \in [SesIds -> 0..SesMaxGen] /\ sesMarksOf \in [SesIds -> SUBSET SesMarks]
      BY <1>1 DEF SesInit
    <2>2. \A g \in SesGens : sesIndexer[g].pc = "none" BY DEF SesInit, SesNoIndexer
    <2>3. /\ sesDisk \in 0..SesMaxVer /\ sesNextGen \in 1..(SesMaxGen + 1) /\ sesCite \in SesAnyId
          /\ sesCancelled \subseteq SesGens /\ sesShown \subseteq SesIds /\ sesStored \subseteq SesMarks
          /\ sesExcused \subseteq SesMarks \cup {"failed", "cite"} /\ sesOverlap \in BOOLEAN
      <3>1. /\ sesDisk = 0 /\ sesNextGen = 1 /\ sesCite = SesNone /\ sesCancelled = {} /\ sesShown = {}
            /\ sesStored = {} /\ sesExcused = {} /\ sesOverlap = FALSE BY DEF SesInit
      <3>2. 0 \in 0..SesMaxVer /\ 1 \in 1..(SesMaxGen + 1) /\ SesNone \in SesAnyId
        BY <1>1 DEF SesAnyId
      <3> QED BY <3>1, <3>2
    <2>4. SesRestTypes BY <2>1, <2>2, <2>3 DEF SesRestTypes
    <2> QED BY <1>1, <2>4, SesTypeParts DEF SesInit, SesAnyId
  <1>3. SesLiveIds = {} /\ \A id \in SesIds : sesLive[id].gen = 0
    BY DEF SesInit, SesLiveIds, SesIsLive, SesNoSession
  <1>4. SesIndexInv
    BY <1>1, <1>3 DEF SesInit, SesIndexInv, SesGensInv, SesCursorInv, SesIndexIsPrefix, SesHasGen, SesNoIndexer
  <1>5. SesSettled BY <1>3 DEF SesInit, SesSettled, SesOne, SesKeeps, SesShows, SesRefers
  <1>6. SesAlone /\ SesClosePhase /\ SesPushPhase /\ \A o \in SesOpeners : SesOpenPhase(o)
    BY <1>1 DEF SesInit, SesAlone, SesClosePhase, SesPushPhase, SesOpenPhase
  <1> QED BY <1>2, <1>4, <1>5, <1>6 DEF SesInv, SesRegistryInv

LEMMA SesInvMeansSound == SesInv => SesSound
  <1> SUFFICES ASSUME SesInv PROVE SesSound OBVIOUS
  <1>1. SesIndexIsPrefix BY DEF SesInv, SesIndexInv
  <1>2. ASSUME SesQuiet, ~sesOverlap PROVE SesOneSessionPerFile /\ SesArtifactsFollow /\ SesShownIsLive
    <2>1. SesSettled BY <1>2 DEF SesInv, SesRegistryInv
    <2>2. SesOneSessionPerFile
      <3>1. CASE SesLiveIds = {} BY <3>1, FS_EmptySet DEF SesOneSessionPerFile
      <3>2. CASE SesLiveIds # {}
        <4>1. PICK id : SesLiveIds = {id} BY <2>1, <3>2 DEF SesSettled, SesOne
        <4>2. Cardinality({id}) = 1 BY FS_Singleton
        <4> QED BY <4>1, <4>2 DEF SesOneSessionPerFile
      <3> QED BY <3>1, <3>2
    <2>3. SesArtifactsFollow
      BY <2>1 DEF SesSettled, SesOne, SesKeeps, SesRefers, SesMarksAt, SesArtifactsFollow
    <2>4. SesShownIsLive BY <2>1 DEF SesSettled, SesShows, SesShownIsLive
    <2> QED BY <2>2, <2>3, <2>4
  <1> QED BY <1>1, <1>2 DEF SesSound, SesRegistrySettled

LEMMA SesStep == SesInv /\ [SesNext]_sesVars => SesInv'
  BY SesTypeStep, SesIndexStep, SesRegistryStep DEF SesInv

\* The session registry keeps its types (services/sessions.rs).
THEOREM SesTypeCorrect == SesSpec => []SesTypeOK
  <1>1. SesInv => SesTypeOK BY DEF SesInv, SesTypeInv
  <1> QED BY <1>1, SesInitially, SesStep, PTL DEF SesSpec

\* However opens, closes and indexers interleave, an index holds the chunks
\* of its own file once and in order; and when calls have not overlapped,
\* one file has one session, with its bookmarks, its references and its
\* place in the front end (services/sessions.rs, commands/files.rs).
THEOREM SesRegistryAgrees == SesSpec => []SesSound
  BY SesInitially, SesStep, SesInvMeansSound, PTL DEF SesSpec

----------------------------------------
\* The settings: what the anonymizer redacts and what an agent may read.

RdxConfigs == [mode : RdxModes, on : SUBSET RdxAll]
RdxChanges == {"mode", "toggle"}
RdxCalls ==
    [kind : {"mode", "toggle", "raw", "get"}, config : RdxConfigs \cup {RdxUnknown},
     prev : RdxConfigs \cup {RdxUnknown}, raw : BOOLEAN, ok : BOOLEAN]
RdxFields == {"at", "step", "cut", "yes", "raws", "messages", "used", "gen", "may", "calm"}
RdxPlaces == {"mode", "flag", "act", "answered"}

\* A read that is under way.
RdxBusy(x) ==
    /\ DOMAIN x = RdxFields
    /\ x.at \in RdxPlaces /\ x.step \in 1 .. 3 /\ x.yes \in BOOLEAN /\ x.may \in BOOLEAN
    /\ x.cut \in BOOLEAN /\ x.gen \in Nat

\* A call of the window: a change carries the configuration it found and the one it makes.
RdxSensible(c) ==
    /\ c.kind \in RdxChanges => c.config \in RdxConfigs /\ c.prev \in RdxConfigs
    /\ c.kind = "toggle" => c.config.mode = c.prev.mode

RdxSettingTypes ==
    /\ rdxMem \in [mode : RdxModes, on : SUBSET RdxAll, raw : BOOLEAN]
    /\ rdxDisk \in [config : RdxConfigs \cup {RdxTorn}, raw : {"on", "off", "torn"}]
    /\ rdxWin \in RdxConfigs \cup {RdxUnknown}
    /\ rdxAsked \in Seq(RdxCalls) /\ rdxAnswers \in Seq(RdxCalls)
    /\ \A k \in DOMAIN rdxAsked : RdxSensible(rdxAsked[k]) /\ rdxAsked[k].ok
    /\ \A k \in DOMAIN rdxAnswers : RdxSensible(rdxAnswers[k])
    /\ rdxPut \in BOOLEAN /\ rdxAstray \in BOOLEAN
    /\ rdxPut => rdxAsked # <<>> /\ rdxAsked[1].kind # "get"

RdxPageTypes ==
    rdxOpen \in {"open", "closing", "closed"} /\ rdxPages \in [gen : Nat, held : SUBSET BOOLEAN]

\* The files say what the memory says, but for the one the command under way has written.
RdxDiskInv ==
    /\ IF rdxPut /\ rdxAsked[1].kind \in RdxChanges
         THEN rdxDisk.config = rdxAsked[1].config
         ELSE rdxDisk.config \in {RdxTorn, RdxConfig(rdxMem)}
    /\ ~(rdxPut /\ rdxAsked[1].kind = "raw") => (rdxDisk.raw = "on" => rdxMem.raw)
    /\ rdxPut /\ rdxAsked[1].kind = "raw" => (rdxDisk.raw = "on" => rdxAsked[1].raw)

RdxIsChange(k) == rdxAsked[k].kind \in RdxChanges

\* Nothing that came before a change will put another value over it.
RdxClearInv ==
    \A k \in DOMAIN rdxAsked : RdxIsChange(k) =>
       /\ \A j \in 1 .. k - 1 : rdxAsked[j].kind # "get"
       /\ \A j \in DOMAIN rdxAnswers : rdxAnswers[j].kind # "get" /\ rdxAnswers[j].ok

\* The changes under way lead from the memory to the window's copy.
RdxChainInv ==
    \A k \in DOMAIN rdxAsked : RdxIsChange(k) =>
       /\ (\A j \in 1 .. k - 1 : ~RdxIsChange(j)) => rdxAsked[k].prev = RdxConfig(rdxMem)
       /\ \A j \in 1 .. k - 1 :
            RdxIsChange(j) /\ (\A i \in j + 1 .. k - 1 : ~RdxIsChange(i)) =>
              rdxAsked[k].prev = rdxAsked[j].config
       /\ (\A j \in DOMAIN rdxAsked : j > k => ~RdxIsChange(j)) => rdxWin = rdxAsked[k].config

\* Without one the copy is right, or a read is under way or ahead that makes it so.
RdxCopyInv ==
    /\ \A j \in DOMAIN rdxAnswers :
         rdxAnswers[j].kind = "get" => rdxAnswers[j].config = RdxConfig(rdxMem)
    /\ \/ \E k \in DOMAIN rdxAsked : RdxIsChange(k) \/ rdxAsked[k].kind = "get"
       \/ \E j \in DOMAIN rdxAnswers :
            \/ rdxAnswers[j].kind = "get"
            \/ rdxAnswers[j].kind \in RdxChanges /\ ~rdxAnswers[j].ok
       \/ rdxWin \in {RdxUnknown, RdxConfig(rdxMem)}

\* An answer on its way makes the window read its pages again.
RdxTurns(a) == a.kind = "mode" /\ a.ok /\ RdxRefetches(a.prev.mode, a.config.mode)
RdxTurning == \E j \in DOMAIN rdxAnswers : RdxTurns(rdxAnswers[j])

\* A read of the window under the mode there is.
RdxFits(x, all) ==
    /\ ~x.cut
    /\ x.step < 3 /\ x.at # "answered" => x.used = <<>>
    /\ x.at = "act" => (x.yes <=> all)
    /\ x.step > 1 /\ x.at # "answered" => all
    /\ x.step = 3 /\ x.at # "answered" => \E v : x.used = <<v>>
    /\ x.at = "answered" => (x.used # <<>> <=> all)

RdxPagesInv == ~RdxTurning => rdxPages.held \subseteq {rdxMem.mode = "all"}

RdxStraightInv ==
    ~rdxAstray => RdxClearInv /\ RdxChainInv /\ RdxCopyInv /\ RdxPagesInv

\* An agent's read the settings have not allowed so far.
RdxGated(x) ==
    /\ x.at = "act" => x.yes
    /\ x.step = 3 /\ x.at # "answered" => \E v : x.used = <<v>>
    /\ x.at = "answered" =>
         x.used # <<>> /\ (RdxOwn(x.raws) # {} => Len(x.used) = 2)

\* No read is of pages to come, and each has done what the settings asked of it.
RdxRight(r, x) ==
    \/ x = RdxIdle
    \/ /\ RdxBusy(x) /\ x.gen <= rdxPages.gen /\ (x.at = "flag" => r = "agent")
       /\ r = "window" /\ ~rdxAstray /\ ~RdxTurning /\ x.gen = rdxPages.gen =>
            RdxFits(x, rdxMem.mode = "all")
       /\ r = "agent" /\ ~x.may => ~RdxAllows(rdxMem) /\ RdxGated(x)

RdxReadInv ==
    /\ DOMAIN rdxRead = RdxReaders /\ rdxRead = [r \in RdxReaders |-> rdxRead[r]]
    /\ \A r \in RdxReaders : RdxRight(r, rdxRead[r])

RdxInv == RdxSettingTypes /\ RdxPageTypes /\ RdxDiskInv /\ RdxStraightInv /\ RdxReadInv

----------------------------------------
\* Queues of calls.

LEMMA RdxAppended ==
    ASSUME NEW S, NEW s \in Seq(S), NEW e \in S, NEW t, t = Append(s, e)
    PROVE  /\ t \in Seq(S) /\ Len(s) \in Nat /\ DOMAIN s = 1 .. Len(s)
           /\ DOMAIN t = 1 .. Len(s) + 1 /\ t # <<>> /\ t[Len(s) + 1] = e
           /\ \A k \in 1 .. Len(s) : t[k] = s[k]
OBVIOUS

LEMMA RdxTailed ==
    ASSUME NEW S, NEW s \in Seq(S), s # <<>>, NEW t, t = Tail(s)
    PROVE  /\ t \in Seq(S) /\ Len(s) \in Nat /\ Len(s) >= 1 /\ DOMAIN s = 1 .. Len(s)
           /\ DOMAIN t = 1 .. Len(s) - 1 /\ Head(s) = s[1] /\ s[1] \in S
           /\ \A k \in 1 .. Len(s) - 1 : t[k] = s[k + 1]
OBVIOUS

\* Torn and unknown configurations are not configurations.
LEMMA RdxKnown ==
    /\ RdxTorn \notin RdxConfigs /\ RdxUnknown \notin RdxConfigs /\ RdxDefault \in RdxConfigs
    /\ \A x : RdxBusy(x) => x # RdxIdle
<1>1. RdxTorn \notin RdxConfigs BY DEF RdxTorn, RdxConfigs, RdxModes
<1>2. RdxUnknown \notin RdxConfigs BY DEF RdxUnknown, RdxConfigs, RdxModes
<1>3. RdxDefault \in RdxConfigs BY DEF RdxDefault, RdxConfigs, RdxModes
<1>4. ASSUME NEW x, RdxBusy(x) PROVE x # RdxIdle BY <1>4 DEF RdxBusy, RdxIdle, RdxPlaces
<1> QED BY <1>1, <1>2, <1>3, <1>4

LEMMA RdxConfigOf ==
    ASSUME NEW mem \in [mode : RdxModes, on : SUBSET RdxAll, raw : BOOLEAN]
    PROVE  /\ RdxConfig(mem) \in RdxConfigs /\ RdxConfig(mem).mode = mem.mode
           /\ \A config \in RdxConfigs, raw \in BOOLEAN :
                /\ RdxMemory(config, raw) \in [mode : RdxModes, on : SUBSET RdxAll, raw : BOOLEAN]
                /\ RdxMemory(config, raw).mode = config.mode /\ RdxMemory(config, raw).raw = raw
                /\ RdxConfig(RdxMemory(config, raw)) = config /\ config.mode \in RdxModes
           /\ \A raw \in BOOLEAN :
                /\ [mem EXCEPT !.raw = raw] \in [mode : RdxModes, on : SUBSET RdxAll, raw : BOOLEAN]
                /\ RdxConfig([mem EXCEPT !.raw = raw]) = RdxConfig(mem)
                /\ [mem EXCEPT !.raw = raw].mode = mem.mode /\ [mem EXCEPT !.raw = raw].raw = raw
<1>1. RdxConfig(mem) \in RdxConfigs /\ RdxConfig(mem).mode = mem.mode BY DEF RdxConfig, RdxConfigs
<1>2. ASSUME NEW config \in RdxConfigs, NEW raw \in BOOLEAN
      PROVE  /\ RdxMemory(config, raw) \in [mode : RdxModes, on : SUBSET RdxAll, raw : BOOLEAN]
             /\ RdxMemory(config, raw).mode = config.mode /\ RdxMemory(config, raw).raw = raw
             /\ RdxConfig(RdxMemory(config, raw)) = config
             /\ config.mode \in RdxModes BY DEF RdxConfig, RdxConfigs, RdxMemory
<1>3. ASSUME NEW raw \in BOOLEAN
      PROVE  /\ [mem EXCEPT !.raw = raw] \in [mode : RdxModes, on : SUBSET RdxAll, raw : BOOLEAN]
             /\ RdxConfig([mem EXCEPT !.raw = raw]) = RdxConfig(mem)
             /\ [mem EXCEPT !.raw = raw].mode = mem.mode /\ [mem EXCEPT !.raw = raw].raw = raw
  BY DEF RdxConfig
<1> QED BY <1>1, <1>2, <1>3

LEMMA RdxCallFields ==
    ASSUME NEW kind \in {"mode", "toggle", "raw", "get"},
           NEW config \in RdxConfigs \cup {RdxUnknown}, NEW prev \in RdxConfigs \cup {RdxUnknown},
           NEW raw \in BOOLEAN, NEW c, c = RdxCall(kind, config, prev, raw)
    PROVE  /\ c \in RdxCalls /\ c.kind = kind /\ c.config = config /\ c.prev = prev
           /\ c.raw = raw /\ c.ok BY DEF RdxCall, RdxCalls

LEMMA RdxAnswerFields ==
    ASSUME NEW c, c \in RdxCalls
    PROVE  /\ c.kind \in {"mode", "toggle", "raw", "get"} /\ c.raw \in BOOLEAN /\ c.ok \in BOOLEAN
           /\ c.config \in RdxConfigs \cup {RdxUnknown} /\ c.prev \in RdxConfigs \cup {RdxUnknown}
BY DEF RdxCalls

LEMMA RdxReadAnswer ==
    ASSUME NEW c, c \in RdxCalls, NEW config, config \in RdxConfigs,
           NEW d, d = [c EXCEPT !.config = config]
    PROVE  /\ d \in RdxCalls /\ d.kind = c.kind /\ d.ok = c.ok /\ d.config = config
           /\ d.prev = c.prev BY DEF RdxCalls

LEMMA RdxFailedAnswer ==
    ASSUME NEW c, c \in RdxCalls, NEW d, d = [c EXCEPT !.ok = FALSE]
    PROVE  /\ d \in RdxCalls /\ d.kind = c.kind /\ ~d.ok /\ d.config = c.config
           /\ d.prev = c.prev BY DEF RdxCalls

----------------------------------------
\* Reads: the settings stay as they are, one read takes a step.

LEMMA RdxSettingsStay ==
    ASSUME RdxInv, UNCHANGED rdxSettings, rdxOpen' \in {"open", "closing", "closed"}
    PROVE  /\ RdxSettingTypes' /\ RdxDiskInv' /\ rdxAstray' = rdxAstray /\ RdxTurning' = RdxTurning
           /\ ~rdxAstray => RdxClearInv' /\ RdxChainInv' /\ RdxCopyInv'
<1> USE DEF rdxSettings
<1>1. RdxSettingTypes' BY DEF RdxInv, RdxSettingTypes
<1>2. RdxDiskInv' BY DEF RdxInv, RdxDiskInv
<1>3. rdxAstray' = rdxAstray /\ RdxTurning' = RdxTurning BY DEF RdxTurning
<1>4. ASSUME ~rdxAstray PROVE RdxClearInv' /\ RdxChainInv' /\ RdxCopyInv'
  <2>1. RdxClearInv /\ RdxChainInv /\ RdxCopyInv BY <1>4 DEF RdxInv, RdxStraightInv
  <2>2. RdxClearInv' = RdxClearInv BY DEF RdxClearInv, RdxIsChange
  <2>3. RdxChainInv' = RdxChainInv BY DEF RdxChainInv, RdxIsChange
  <2>4. RdxCopyInv' = RdxCopyInv BY DEF RdxCopyInv, RdxIsChange
  <2> QED BY <2>1, <2>2, <2>3, <2>4
<1> QED BY <1>1, <1>2, <1>3, <1>4

LEMMA RdxReadSteps ==
    ASSUME RdxInv, UNCHANGED <<rdxSettings, rdxPages, rdxOpen>>,
           NEW r \in RdxReaders, NEW x, rdxRead' = [rdxRead EXCEPT ![r] = x], RdxRight(r, x)
    PROVE  RdxInv'
<1>1. rdxOpen' \in {"open", "closing", "closed"} BY DEF RdxInv, RdxPageTypes
<1>2. /\ RdxSettingTypes' /\ RdxDiskInv' /\ rdxAstray' = rdxAstray /\ RdxTurning' = RdxTurning
      /\ ~rdxAstray => RdxClearInv' /\ RdxChainInv' /\ RdxCopyInv' BY <1>1, RdxSettingsStay
<1>3. RdxPageTypes' BY <1>1 DEF RdxInv, RdxPageTypes
<1>4. ~rdxAstray => RdxPagesInv' BY <1>2 DEF RdxInv, RdxStraightInv, RdxPagesInv, rdxSettings
<1>5. RdxReadInv'
  <2>1. DOMAIN rdxRead' = RdxReaders /\ rdxRead' = [q \in RdxReaders |-> rdxRead'[q]]
        /\ \A q \in RdxReaders : rdxRead'[q] = IF q = r THEN x ELSE rdxRead[q]
    BY DEF RdxInv, RdxReadInv
  <2>2. ASSUME NEW q \in RdxReaders PROVE RdxRight(q, rdxRead[q])'
    BY DEF RdxInv, RdxReadInv, RdxRight, RdxTurning, rdxSettings
  <2> QED BY <2>1, <2>2 DEF RdxReadInv
<1> QED BY <1>2, <1>3, <1>4, <1>5 DEF RdxInv, RdxStraightInv

\* The fields of a read after a step, by which of them it sets.
LEMMA RdxBusyRead ==
    ASSUME RdxInv, NEW r \in RdxReaders, rdxRead[r].at # "idle"
    PROVE  RdxBusy(rdxRead[r]) /\ RdxRight(r, rdxRead[r]) /\ rdxRead[r].gen <= rdxPages.gen
BY DEF RdxInv, RdxReadInv, RdxRight, RdxIdle

LEMMA RdxBeginKeeps ==
    ASSUME RdxInv, NEW r \in RdxReaders, RdxBegin(r)
    PROVE  RdxInv'
<1>1. PICK cut \in IF r = "agent" THEN BOOLEAN ELSE {FALSE} :
        rdxRead' = [rdxRead EXCEPT ![r] =
           [at |-> "mode", step |-> 1, cut |-> cut, yes |-> FALSE,
            raws |-> RdxRaws, messages |-> RdxMessages, used |-> <<>>,
            gen |-> rdxPages.gen, may |-> RdxAllows(rdxMem), calm |-> TRUE]] BY DEF RdxBegin
<1> DEFINE x == [at |-> "mode", step |-> 1, cut |-> cut, yes |-> FALSE,
                 raws |-> RdxRaws, messages |-> RdxMessages, used |-> <<>>,
                 gen |-> rdxPages.gen, may |-> RdxAllows(rdxMem), calm |-> TRUE]
<1>2. rdxPages.gen \in Nat /\ RdxAllows(rdxMem) \in BOOLEAN
  BY DEF RdxInv, RdxPageTypes, RdxAllows, RdxSettingTypes
<1>3. RdxBusy(x)
  <2>1. DOMAIN x = RdxFields BY DEF RdxFields
  <2>2. x.at \in RdxPlaces /\ x.step \in 1 .. 3 /\ x.yes \in BOOLEAN /\ x.gen \in Nat
    BY <1>2 DEF RdxPlaces
  <2>3. x.cut \in BOOLEAN BY <1>1
  <2>4. x.may \in BOOLEAN BY <1>2
  <2> HIDE DEF x
  <2> QED BY <2>1, <2>2, <2>3, <2>4 DEF RdxBusy
<1>4. r = "window" => RdxFits(x, rdxMem.mode = "all") BY DEF RdxFits
<1>5. r = "agent" /\ ~x.may => ~RdxAllows(rdxMem) /\ RdxGated(x) BY DEF RdxGated
<1>6. RdxRight(r, x) BY <1>2, <1>3, <1>4, <1>5 DEF RdxRight
<1> QED BY <1>1, <1>6, RdxReadSteps DEF RdxBegin, RdxSpend

LEMMA RdxReadModeKeeps ==
    ASSUME RdxInv, NEW r \in RdxReaders, RdxReadMode(r)
    PROVE  RdxInv'
<1>0. rdxRead[r].at = "mode" BY DEF RdxReadMode
<1> DEFINE o == rdxRead[r]
<1>1. RdxBusy(o) /\ RdxRight(r, o) /\ o.gen <= rdxPages.gen BY <1>0, RdxBusyRead
<1>2. r \in RdxKinds BY RdxAssumption
<1>2a. PICK at, yes :
        /\ at = IF r = "agent" /\ rdxMem.mode # "none" THEN "flag" ELSE "act"
        /\ yes = CASE r = "window" -> rdxMem.mode = "all"
                   [] r = "copy" -> rdxMem.mode # "none"
                   [] r = "agent" -> FALSE
        /\ rdxRead' = [rdxRead EXCEPT ![r] = [o EXCEPT !.at = at, !.yes = yes]]
  <2> DEFINE a == IF r = "agent" /\ rdxMem.mode # "none" THEN "flag" ELSE "act"
             y == CASE r = "window" -> rdxMem.mode = "all"
                    [] r = "copy" -> rdxMem.mode # "none"
                    [] r = "agent" -> FALSE
  <2>1. rdxRead' = [rdxRead EXCEPT ![r].at = a, ![r].yes = y] BY DEF RdxReadMode
  <2> HIDE DEF a, y
  <2>2. rdxRead' = [rdxRead EXCEPT ![r] = [o EXCEPT !.at = a, !.yes = y]] BY <2>1
  <2> QED BY <2>2 DEF a, y
<1> DEFINE x == [o EXCEPT !.at = at, !.yes = yes]
<1>3. yes \in BOOLEAN BY <1>2, <1>2a DEF RdxKinds
<1>4. /\ DOMAIN x = RdxFields /\ x.at = at /\ x.yes = yes /\ x.step = o.step /\ x.cut = o.cut
      /\ x.used = o.used /\ x.gen = o.gen /\ x.may = o.may /\ x.raws = o.raws
  BY <1>1 DEF RdxBusy, RdxFields
<1> HIDE DEF x
<1>5. RdxRight(r, x)
  <2>1. RdxBusy(x) BY <1>1, <1>2a, <1>3, <1>4 DEF RdxBusy, RdxPlaces
  <2>2. ASSUME r = "window", ~rdxAstray, ~RdxTurning, x.gen = rdxPages.gen
        PROVE  RdxFits(x, rdxMem.mode = "all")
    <3>1. RdxFits(o, rdxMem.mode = "all") BY <1>0, <1>1, <1>4, <2>2 DEF RdxRight, RdxIdle
    <3> QED BY <1>0, <1>2a, <1>4, <2>2, <3>1 DEF RdxFits
  <2>3. ASSUME r = "agent", ~x.may PROVE ~RdxAllows(rdxMem) /\ RdxGated(x)
    <3>1. ~RdxAllows(rdxMem) BY <1>0, <1>1, <1>4, <2>3 DEF RdxRight, RdxIdle
    <3> QED BY <1>0, <1>1, <1>2a, <1>4, <2>3, <3>1 DEF RdxRight, RdxIdle, RdxGated, RdxAllows
  <2> QED BY <1>1, <1>2a, <1>4, <2>1, <2>2, <2>3 DEF RdxRight
<1> QED BY <1>2a, <1>5, RdxReadSteps DEF RdxReadMode, x

LEMMA RdxReadFlagKeeps ==
    ASSUME RdxInv, NEW r \in RdxReaders, RdxReadFlag(r)
    PROVE  RdxInv'
<1>0. rdxRead[r].at = "flag" BY DEF RdxReadFlag
<1> DEFINE o == rdxRead[r]
<1>1. RdxBusy(o) /\ RdxRight(r, o) BY <1>0, RdxBusyRead
<1>2. PICK yes \in BOOLEAN : yes = (~rdxMem.raw) /\ (yes <=> ~rdxMem.raw) OBVIOUS
<1> DEFINE x == [o EXCEPT !.at = "act", !.yes = yes]
<1>3. rdxRead' = [rdxRead EXCEPT ![r] = x] BY <1>2 DEF RdxReadFlag
<1>4. /\ DOMAIN x = RdxFields /\ x.at = "act" /\ x.yes = yes /\ x.step = o.step /\ x.cut = o.cut
      /\ x.used = o.used /\ x.gen = o.gen /\ x.may = o.may /\ x.raws = o.raws
  BY <1>1 DEF RdxBusy, RdxFields
<1> HIDE DEF x
<1>5. RdxRight(r, x)
  <2>1. RdxBusy(x) BY <1>1, <1>4 DEF RdxBusy, RdxPlaces
  <2>2. ASSUME r = "window", ~rdxAstray, ~RdxTurning, x.gen = rdxPages.gen
        PROVE  RdxFits(x, rdxMem.mode = "all") BY <1>0, <1>1, <2>2 DEF RdxRight, RdxIdle
  <2>3. ASSUME r = "agent", ~x.may PROVE ~RdxAllows(rdxMem) /\ RdxGated(x)
    <3>1. ~RdxAllows(rdxMem) BY <1>0, <1>1, <1>4, <2>3 DEF RdxRight, RdxIdle
    <3> QED BY <1>0, <1>1, <1>2, <1>4, <2>3, <3>1 DEF RdxRight, RdxIdle, RdxGated, RdxAllows
  <2> QED BY <1>0, <1>1, <1>4, <2>1, <2>2, <2>3 DEF RdxRight, RdxIdle
<1> QED BY <1>3, <1>5, RdxReadSteps DEF RdxReadFlag

LEMMA RdxCollectKeeps ==
    ASSUME RdxInv, NEW r \in RdxReaders, RdxCollect(r)
    PROVE  RdxInv'
<1>0. rdxRead[r].at = "act" /\ rdxRead[r].step = 1 BY DEF RdxCollect
<1> DEFINE o == rdxRead[r]
           next == [o EXCEPT !.step = 2, !.at = "mode"]
           over == [o EXCEPT !.at = "answered"]
<1>1. RdxBusy(o) /\ RdxRight(r, o) BY <1>0, RdxBusyRead
<1>2. PICK x : /\ rdxRead' = [rdxRead EXCEPT ![r] = x]
               /\ \/ x = RdxIdle
                  \/ (o.yes \/ o.cut) /\ x = next
                  \/ ~(o.yes \/ o.cut) /\ x = over
  <2> DEFINE y == IF rdxOpen # "open" THEN RdxIdle ELSE IF o.yes \/ o.cut THEN next ELSE over
  <2>1. rdxRead' = [rdxRead EXCEPT ![r] = y] BY DEF RdxCollect
  <2> HIDE DEF next, over, o
  <2>2. y = RdxIdle \/ ((o.yes \/ o.cut) /\ y = next) \/ (~(o.yes \/ o.cut) /\ y = over)
    <3>1. CASE rdxOpen # "open" BY <3>1
    <3>2. CASE rdxOpen = "open" /\ (o.yes \/ o.cut) BY <3>2
    <3>3. CASE rdxOpen = "open" /\ ~(o.yes \/ o.cut) BY <3>3
    <3> QED BY <3>1, <3>2, <3>3
  <2> HIDE DEF y
  <2> QED BY <2>1, <2>2
<1>3. /\ DOMAIN next = RdxFields /\ next.at = "mode" /\ next.yes = o.yes /\ next.step = 2
      /\ next.cut = o.cut /\ next.used = o.used /\ next.gen = o.gen /\ next.may = o.may
  BY <1>1 DEF RdxBusy, RdxFields
<1>4. /\ DOMAIN over = RdxFields /\ over.at = "answered" /\ over.yes = o.yes /\ over.step = o.step
      /\ over.cut = o.cut /\ over.used = o.used /\ over.gen = o.gen /\ over.may = o.may
  BY <1>1 DEF RdxBusy, RdxFields
<1> HIDE DEF next, over
<1>5. RdxBusy(next) /\ RdxBusy(over) BY <1>1, <1>3, <1>4 DEF RdxBusy, RdxPlaces
<1>6. o.gen <= rdxPages.gen /\ o # RdxIdle BY <1>0, <1>1 DEF RdxRight, RdxIdle
<1>7. ASSUME r = "window", ~rdxAstray, ~RdxTurning, o.gen = rdxPages.gen
      PROVE  /\ (o.yes \/ o.cut) => RdxFits(next, rdxMem.mode = "all")
             /\ ~(o.yes \/ o.cut) => RdxFits(over, rdxMem.mode = "all")
  <2>1. RdxFits(o, rdxMem.mode = "all") BY <1>1, <1>6, <1>7 DEF RdxRight
  <2> QED
    <3>1. (o.yes <=> rdxMem.mode = "all") /\ o.used = <<>> /\ ~o.cut BY <1>0, <2>1 DEF RdxFits
    <3>2. ASSUME o.yes \/ o.cut PROVE RdxFits(next, rdxMem.mode = "all")
      BY <1>3, <3>1, <3>2 DEF RdxFits
    <3>3. ASSUME ~(o.yes \/ o.cut) PROVE RdxFits(over, rdxMem.mode = "all")
      BY <1>0, <1>4, <3>1, <3>3 DEF RdxFits
    <3> QED BY <3>2, <3>3
<1>8. ASSUME r = "agent", ~o.may
      PROVE  ~RdxAllows(rdxMem) /\ RdxGated(next) /\ o.yes
  <2>1. ~RdxAllows(rdxMem) /\ RdxGated(o) BY <1>1, <1>6, <1>8 DEF RdxRight
  <2> QED BY <1>0, <1>3, <2>1 DEF RdxGated
<1>9. RdxRight(r, x)
  <2>1. CASE x = RdxIdle BY <2>1 DEF RdxRight
  <2>2. CASE (o.yes \/ o.cut) /\ x = next BY <1>3, <1>5, <1>6, <1>7, <1>8, <2>2 DEF RdxRight
  <2>3. CASE ~(o.yes \/ o.cut) /\ x = over BY <1>4, <1>5, <1>6, <1>7, <1>8, <2>3 DEF RdxRight
  <2> QED BY <1>2, <2>1, <2>2, <2>3
<1> QED BY <1>2, <1>9, RdxReadSteps DEF RdxCollect

LEMMA RdxCopyKeeps ==
    ASSUME RdxInv, NEW r \in RdxReaders, RdxCopy(r)
    PROVE  RdxInv'
<1>0. rdxRead[r].at = "act" /\ r = "copy" BY DEF RdxCopy
<1> DEFINE o == rdxRead[r]
<1>1. RdxBusy(o) /\ RdxRight(r, o) /\ o # RdxIdle BY <1>0, RdxBusyRead DEF RdxIdle
<1>2. PICK raws, used :
        rdxRead' = [rdxRead EXCEPT ![r].at = "answered", ![r].raws = raws, ![r].used = used]
  BY DEF RdxCopy
<1> DEFINE x == [o EXCEPT !.at = "answered", !.raws = raws, !.used = used]
<1>3. rdxRead' = [rdxRead EXCEPT ![r] = x] BY <1>2
<1>4. /\ DOMAIN x = RdxFields /\ x.at = "answered" /\ x.yes = o.yes /\ x.step = o.step
      /\ x.cut = o.cut /\ x.gen = o.gen /\ x.may = o.may BY <1>1 DEF RdxBusy, RdxFields
<1> HIDE DEF x
<1>5. RdxRight(r, x) BY <1>0, <1>1, <1>4 DEF RdxRight, RdxBusy, RdxPlaces
<1> QED BY <1>3, <1>5, RdxReadSteps DEF RdxCopy

LEMMA RdxPassRawsKeeps ==
    ASSUME RdxInv, NEW r \in RdxReaders, RdxPassRaws(r)
    PROVE  RdxInv'
<1>0. rdxRead[r].at = "act" /\ rdxRead[r].step = 2 BY DEF RdxPassRaws
<1> DEFINE o == rdxRead[r]
<1>1. RdxBusy(o) /\ RdxRight(r, o) /\ o # RdxIdle BY <1>0, RdxBusyRead DEF RdxIdle
<1>2. PICK raws, messages, v, used, at :
        /\ used = IF o.yes THEN <<v>> ELSE o.used
        /\ at = IF RdxOwn(raws) = {} THEN "answered" ELSE "mode"
        /\ rdxRead' = [rdxRead EXCEPT ![r].raws = raws, ![r].messages = messages,
                                      ![r].used = used, ![r].step = 3, ![r].at = at]
  <2> DEFINE p == RdxPass(RdxRaws)
             t == IF o.yes THEN p.out ELSE RdxRaws
             m == [i \in DOMAIN RdxPage |->
                     IF o.messages[i] = RdxRaws[i] THEN t[i] ELSE o.messages[i]]
             u == IF o.yes THEN <<p.anon.on>> ELSE o.used
             a == IF RdxOwn(t) = {} THEN "answered" ELSE "mode"
  <2>1. rdxRead' = [rdxRead EXCEPT ![r].raws = t, ![r].messages = m, ![r].used = u,
                                   ![r].step = 3, ![r].at = a] BY DEF RdxPassRaws
  <2> HIDE DEF m, t, p
  <2> QED BY <2>1
<1> DEFINE x == [o EXCEPT !.raws = raws, !.messages = messages, !.used = used, !.step = 3,
                          !.at = at]
<1>3. rdxRead' = [rdxRead EXCEPT ![r] = x] BY <1>2
<1>4. /\ DOMAIN x = RdxFields /\ x.at = at /\ x.yes = o.yes /\ x.step = 3
      /\ x.cut = o.cut /\ x.gen = o.gen /\ x.may = o.may /\ x.used = used /\ x.raws = raws
  BY <1>1 DEF RdxBusy, RdxFields
<1> HIDE DEF x
<1>5. RdxBusy(x) BY <1>1, <1>2, <1>4 DEF RdxBusy, RdxPlaces
<1>6. ASSUME r = "window", ~rdxAstray, ~RdxTurning, x.gen = rdxPages.gen
      PROVE  RdxFits(x, rdxMem.mode = "all")
  <2>1. RdxFits(o, rdxMem.mode = "all") BY <1>1, <1>4, <1>6 DEF RdxRight
  <2>2. rdxMem.mode = "all" /\ o.yes /\ ~o.cut BY <1>0, <2>1 DEF RdxFits
  <2> QED BY <1>2, <1>4, <2>2 DEF RdxFits
<1>7. ASSUME r = "agent", ~x.may PROVE ~RdxAllows(rdxMem) /\ RdxGated(x)
  <2>1. ~RdxAllows(rdxMem) /\ RdxGated(o) BY <1>1, <1>4, <1>7 DEF RdxRight
  <2>2. used = <<v>> /\ used # <<>> BY <1>0, <1>2, <2>1 DEF RdxGated
  <2> QED BY <1>2, <1>4, <2>1, <2>2 DEF RdxGated
<1>8. RdxRight(r, x) BY <1>1, <1>2, <1>4, <1>5, <1>6, <1>7 DEF RdxRight
<1> QED BY <1>3, <1>8, RdxReadSteps DEF RdxPassRaws

LEMMA RdxPassMessagesKeeps ==
    ASSUME RdxInv, NEW r \in RdxReaders, RdxPassMessages(r)
    PROVE  RdxInv'
<1>0. rdxRead[r].at = "act" /\ rdxRead[r].step = 3 BY DEF RdxPassMessages
<1> DEFINE o == rdxRead[r]
<1>1. RdxBusy(o) /\ RdxRight(r, o) /\ o # RdxIdle BY <1>0, RdxBusyRead DEF RdxIdle
<1>2. PICK messages, v, used :
        /\ used = IF o.yes THEN Append(o.used, v) ELSE o.used
        /\ rdxRead' = [rdxRead EXCEPT ![r].at = "answered", ![r].messages = messages,
                                      ![r].used = used]
  <2> DEFINE own == SetToSortSeq(RdxOwn(o.raws), <)
             p == RdxPass([k \in DOMAIN own |-> RdxMessages[own[k]]])
             m == [i \in DOMAIN RdxPage |->
                     IF o.yes /\ i \in Range(own)
                       THEN p.out[CHOOSE k \in DOMAIN own : own[k] = i] ELSE o.messages[i]]
             u == IF o.yes THEN Append(o.used, p.anon.on) ELSE o.used
  <2>1. rdxRead' = [rdxRead EXCEPT ![r].at = "answered", ![r].messages = m, ![r].used = u]
    BY DEF RdxPassMessages
  <2> HIDE DEF own, p, m
  <2> QED BY <2>1
<1> DEFINE x == [o EXCEPT !.at = "answered", !.messages = messages, !.used = used]
<1>3. rdxRead' = [rdxRead EXCEPT ![r] = x] BY <1>2
<1>4. /\ DOMAIN x = RdxFields /\ x.at = "answered" /\ x.yes = o.yes /\ x.step = 3
      /\ x.cut = o.cut /\ x.gen = o.gen /\ x.may = o.may /\ x.used = used /\ x.raws = o.raws
  BY <1>0, <1>1 DEF RdxBusy, RdxFields
<1> HIDE DEF x
<1>5. RdxBusy(x) BY <1>1, <1>2, <1>4 DEF RdxBusy, RdxPlaces
<1>6. ASSUME NEW w, o.used = <<w>>, o.yes PROVE used # <<>> /\ Len(used) = 2
  <2>1. used = Append(<<w>>, v) BY <1>2, <1>6
  <2>2. <<w>> \in Seq({w, v}) /\ Len(<<w>>) = 1 /\ v \in {w, v} OBVIOUS
  <2> QED BY <2>1, <2>2
<1>7. ASSUME r = "window", ~rdxAstray, ~RdxTurning, x.gen = rdxPages.gen
      PROVE  RdxFits(x, rdxMem.mode = "all")
  <2>1. RdxFits(o, rdxMem.mode = "all") BY <1>1, <1>4, <1>7 DEF RdxRight
  <2>2. rdxMem.mode = "all" /\ o.yes /\ ~o.cut /\ \E w : o.used = <<w>> BY <1>0, <2>1 DEF RdxFits
  <2>3. used # <<>> BY <1>6, <2>2
  <2> QED BY <1>4, <2>2, <2>3 DEF RdxFits
<1>8. ASSUME r = "agent", ~x.may PROVE ~RdxAllows(rdxMem) /\ RdxGated(x)
  <2>1. ~RdxAllows(rdxMem) /\ RdxGated(o) BY <1>1, <1>4, <1>8 DEF RdxRight
  <2>2. o.yes /\ \E w : o.used = <<w>> BY <1>0, <2>1 DEF RdxGated
  <2>3. used # <<>> /\ Len(used) = 2 BY <1>6, <2>2
  <2> QED BY <1>4, <2>1, <2>3 DEF RdxGated
<1>9. RdxRight(r, x) BY <1>1, <1>4, <1>5, <1>7, <1>8 DEF RdxRight
<1> QED BY <1>3, <1>9, RdxReadSteps DEF RdxPassMessages

LEMMA RdxTakeKeeps ==
    ASSUME RdxInv, NEW r \in RdxReaders, RdxTake(r)
    PROVE  RdxInv'
<1>0. rdxRead[r].at = "answered" /\ UNCHANGED <<rdxSettings, rdxOpen>> BY DEF RdxTake
<1> DEFINE o == rdxRead[r]
<1>1. RdxBusy(o) /\ RdxRight(r, o) /\ o # RdxIdle BY <1>0, RdxBusyRead DEF RdxIdle
<1>2. rdxOpen' \in {"open", "closing", "closed"} BY <1>0 DEF RdxInv, RdxPageTypes
<1>3. /\ RdxSettingTypes' /\ RdxDiskInv' /\ rdxAstray' = rdxAstray /\ RdxTurning' = RdxTurning
      /\ ~rdxAstray => RdxClearInv' /\ RdxChainInv' /\ RdxCopyInv' BY <1>0, <1>2, RdxSettingsStay
<1>4. PICK redacted \in BOOLEAN : redacted <=> o.used # <<>> OBVIOUS
<1>5. rdxPages' = IF r = "window" /\ o.gen = rdxPages.gen
                    THEN [rdxPages EXCEPT !.held = @ \union {redacted}] ELSE rdxPages
  BY <1>4 DEF RdxTake
<1>6. rdxPages \in [gen : Nat, held : SUBSET BOOLEAN] BY DEF RdxInv, RdxPageTypes
<1>7. RdxPageTypes' /\ rdxPages'.gen = rdxPages.gen
      /\ rdxPages'.held = IF r = "window" /\ o.gen = rdxPages.gen
                            THEN rdxPages.held \union {redacted} ELSE rdxPages.held
  BY <1>2, <1>5, <1>6 DEF RdxPageTypes
<1>8. ASSUME ~rdxAstray PROVE RdxPagesInv'
  <2> SUFFICES ASSUME ~RdxTurning PROVE rdxPages'.held \subseteq {rdxMem.mode = "all"}
    BY <1>0, <1>3 DEF RdxPagesInv, rdxSettings
  <2>1. rdxPages.held \subseteq {rdxMem.mode = "all"}
    BY <1>8 DEF RdxInv, RdxStraightInv, RdxPagesInv
  <2>2. ASSUME r = "window", o.gen = rdxPages.gen PROVE redacted = (rdxMem.mode = "all")
    <3>1. RdxFits(o, rdxMem.mode = "all") BY <1>1, <1>8, <2>2 DEF RdxRight
    <3> QED BY <1>0, <1>4, <3>1 DEF RdxFits
  <2> QED BY <1>7, <2>1, <2>2
<1>9. RdxReadInv'
  <2>1. DOMAIN rdxRead' = RdxReaders /\ rdxRead' = [q \in RdxReaders |-> rdxRead'[q]]
        /\ \A q \in RdxReaders : rdxRead'[q] = IF q = r THEN RdxIdle ELSE rdxRead[q]
    BY DEF RdxInv, RdxReadInv, RdxTake
  <2>2. ASSUME NEW q \in RdxReaders PROVE RdxRight(q, rdxRead[q])'
    <3>1. RdxRight(q, rdxRead[q]) BY DEF RdxInv, RdxReadInv
    <3> QED BY <1>0, <1>3, <1>7, <2>1, <3>1 DEF RdxRight, rdxSettings
  <2> QED BY <2>1, <2>2 DEF RdxReadInv
<1> QED BY <1>3, <1>7, <1>8, <1>9 DEF RdxInv, RdxStraightInv

----------------------------------------
\* The session.

LEMMA RdxSessionKeeps ==
    ASSUME RdxInv, RdxClose \/ RdxDrop \/ RdxOpenAgain
    PROVE  RdxInv'
<1>1. /\ UNCHANGED rdxSettings /\ rdxOpen' \in {"open", "closing", "closed"}
      /\ \/ UNCHANGED rdxPages
         \/ rdxPages' = [gen |-> rdxPages.gen + 1, held |-> {}]
  BY DEF RdxClose, RdxDrop, RdxOpenAgain
<1>2. /\ RdxSettingTypes' /\ RdxDiskInv' /\ rdxAstray' = rdxAstray /\ RdxTurning' = RdxTurning
      /\ ~rdxAstray => RdxClearInv' /\ RdxChainInv' /\ RdxCopyInv' BY <1>1, RdxSettingsStay
<1>3. rdxPages \in [gen : Nat, held : SUBSET BOOLEAN] BY DEF RdxInv, RdxPageTypes
<1>4. /\ RdxPageTypes' /\ rdxPages'.gen \in Nat
      /\ \/ rdxPages'.gen = rdxPages.gen /\ rdxPages'.held = rdxPages.held
         \/ rdxPages'.gen = rdxPages.gen + 1 /\ rdxPages'.held = {} BY <1>1, <1>3 DEF RdxPageTypes
<1>5. ~rdxAstray => RdxPagesInv'
  BY <1>1, <1>2, <1>4 DEF RdxInv, RdxStraightInv, RdxPagesInv, rdxSettings
<1>6. /\ DOMAIN rdxRead' = RdxReaders /\ rdxRead' = [r \in RdxReaders |-> rdxRead'[r]]
      /\ \A r \in RdxReaders :
           \/ rdxRead'[r] = rdxRead[r]
           \/ rdxRead'[r] = [rdxRead[r] EXCEPT !.calm = FALSE] /\ rdxRead[r].at # "idle"
  <2>1. DOMAIN rdxRead = RdxReaders /\ rdxRead = [r \in RdxReaders |-> rdxRead[r]]
    BY DEF RdxInv, RdxReadInv
  <2>2. CASE UNCHANGED rdxRead BY <2>1, <2>2
  <2>3. CASE rdxRead' = [r \in RdxReaders |->
               IF rdxRead[r].at = "idle" THEN RdxIdle ELSE [rdxRead[r] EXCEPT !.calm = FALSE]]
    <3>1. ASSUME NEW r \in RdxReaders, rdxRead[r].at = "idle" PROVE rdxRead[r] = RdxIdle
      BY <3>1 DEF RdxInv, RdxReadInv, RdxRight, RdxBusy, RdxPlaces
    <3> QED BY <2>3, <3>1
  <2> QED BY <2>2, <2>3 DEF RdxClose, RdxDrop, RdxOpenAgain
<1>7. ASSUME NEW r \in RdxReaders PROVE RdxRight(r, rdxRead[r])'
  <2>1. RdxRight(r, rdxRead[r]) BY DEF RdxInv, RdxReadInv
  <2> DEFINE o == rdxRead[r]
             x == [o EXCEPT !.calm = FALSE]
  <2>2. CASE o = RdxIdle BY <1>6, <2>2 DEF RdxRight, RdxIdle
  <2>3. CASE o # RdxIdle
    <3>1. RdxBusy(o) BY <2>1, <2>3 DEF RdxRight
    <3>2. /\ DOMAIN x = RdxFields /\ x.at = o.at /\ x.yes = o.yes /\ x.step = o.step /\ x.raws = o.raws
          /\ x.cut = o.cut /\ x.gen = o.gen /\ x.may = o.may /\ x.used = o.used
      BY <3>1 DEF RdxBusy, RdxFields
    <3> HIDE DEF x
    <3>3. RdxRight(r, x) BY <2>1, <2>3, <3>1, <3>2 DEF RdxRight, RdxBusy, RdxFits, RdxGated
    <3>4. rdxRead'[r] = o \/ rdxRead'[r] = x BY <1>6 DEF x
    <3>5. PICK y : y = rdxRead'[r] OBVIOUS
    <3>6. RdxRight(r, y) /\ y # RdxIdle
      <4>1. x # RdxIdle BY <3>1, <3>2, RdxKnown DEF RdxBusy
      <4> QED BY <2>1, <2>3, <3>3, <3>4, <3>5, <4>1
    <3>7. RdxBusy(y) /\ y.gen <= rdxPages.gen /\ y.gen \in Nat BY <3>6 DEF RdxRight, RdxBusy
    <3>8. RdxRight(r, y)' BY <1>1, <1>2, <1>3, <1>4, <3>6, <3>7 DEF RdxRight, rdxSettings
    <3> QED BY <3>5, <3>8 DEF RdxRight
  <2> QED BY <2>2, <2>3
<1> QED BY <1>2, <1>4, <1>5, <1>6, <1>7 DEF RdxInv, RdxStraightInv, RdxReadInv

----------------------------------------
\* The settings.

LEMMA RdxReadsStay ==
    ASSUME RdxInv, UNCHANGED <<rdxRead, rdxPages, rdxOpen, rdxMem>>,
           rdxAstray => rdxAstray', RdxTurning => RdxTurning'
    PROVE  RdxReadInv' /\ RdxPageTypes' /\ (~rdxAstray' => RdxPagesInv')
<1>1. RdxPageTypes' BY DEF RdxInv, RdxPageTypes
<1>2. ~rdxAstray' => RdxPagesInv' BY DEF RdxInv, RdxStraightInv, RdxPagesInv
<1>3. RdxReadInv' BY DEF RdxInv, RdxReadInv, RdxRight
<1> QED BY <1>1, <1>2, <1>3

\* A call joins those of the window.
LEMMA RdxJoins ==
    ASSUME RdxInv, NEW call \in RdxCalls, call.ok, RdxSensible(call),
           rdxAsked' = Append(rdxAsked, call), UNCHANGED <<rdxMem, rdxDisk, rdxPut>>,
           rdxWin' \in RdxConfigs \cup {RdxUnknown}, rdxAstray' \in BOOLEAN,
           rdxAnswers' \in Seq(RdxCalls),
           \A k \in DOMAIN rdxAnswers' : RdxSensible(rdxAnswers'[k])
    PROVE  RdxSettingTypes' /\ RdxDiskInv'
<1>0. RdxSettingTypes /\ RdxDiskInv BY DEF RdxInv
<1>1. rdxAsked \in Seq(RdxCalls) BY <1>0 DEF RdxSettingTypes
<1>2. PICK t : t = rdxAsked' OBVIOUS
<1>3. /\ t \in Seq(RdxCalls) /\ Len(rdxAsked) \in Nat /\ DOMAIN rdxAsked = 1 .. Len(rdxAsked)
      /\ DOMAIN t = 1 .. Len(rdxAsked) + 1 /\ t # <<>> /\ t[Len(rdxAsked) + 1] = call
      /\ \A k \in 1 .. Len(rdxAsked) : t[k] = rdxAsked[k] BY <1>1, <1>2, RdxAppended
<1>4. \A k \in DOMAIN t : RdxSensible(t[k]) /\ t[k].ok BY <1>0, <1>3 DEF RdxSettingTypes
<1>5. rdxPut => rdxAsked # <<>> /\ t[1] = rdxAsked[1] BY <1>0, <1>1, <1>3 DEF RdxSettingTypes
<1>6. RdxSettingTypes' BY <1>0, <1>2, <1>3, <1>4, <1>5 DEF RdxSettingTypes
<1>7. RdxDiskInv' BY <1>0, <1>2, <1>5 DEF RdxDiskInv
<1> QED BY <1>6, <1>7

LEMMA RdxNotUnsettled ==
    ASSUME RdxInv, ~RdxUnsettled
    PROVE  /\ \A k \in DOMAIN rdxAsked : rdxAsked[k].kind # "get"
           /\ \A k \in DOMAIN rdxAnswers : rdxAnswers[k].kind # "get" /\ rdxAnswers[k].ok
BY DEF RdxUnsettled, Range

LEMMA RdxChangeKeeps ==
    ASSUME RdxInv, NEW call \in RdxCalls, call.ok, RdxSensible(call),
           call.kind \in RdxChanges, call.prev = rdxWin, rdxWin # RdxUnknown, RdxChange(call),
           UNCHANGED <<rdxMem, rdxDisk, rdxPut, rdxAnswers, rdxOpen, rdxAnon, rdxRead, rdxPages>>
    PROVE  RdxInv'
<1>0. RdxSettingTypes /\ rdxAsked \in Seq(RdxCalls) BY DEF RdxInv, RdxSettingTypes
<1>1. rdxAsked' = Append(rdxAsked, call) /\ rdxWin' = call.config
      /\ rdxAstray' = (rdxAstray \/ RdxUnsettled) BY DEF RdxChange
<1>2. rdxWin' \in RdxConfigs /\ rdxAstray' \in BOOLEAN
  BY <1>0, <1>1 DEF RdxSensible, RdxSettingTypes
<1>3. RdxSettingTypes' /\ RdxDiskInv'
  <2>1. rdxAnswers' \in Seq(RdxCalls) /\ \A k \in DOMAIN rdxAnswers' : RdxSensible(rdxAnswers'[k])
    BY <1>0 DEF RdxSettingTypes
  <2> QED BY <1>1, <1>2, <2>1, RdxJoins
<1>4. RdxReadInv' /\ RdxPageTypes' /\ (~rdxAstray' => RdxPagesInv')
  <2>1. RdxTurning' = RdxTurning BY DEF RdxTurning
  <2> QED BY <1>1, <2>1, RdxReadsStay
<1>5. ASSUME ~rdxAstray' PROVE RdxClearInv' /\ RdxChainInv' /\ RdxCopyInv'
  <2>1. ~rdxAstray /\ ~RdxUnsettled BY <1>1, <1>5
  <2>2. RdxClearInv /\ RdxChainInv /\ RdxCopyInv BY <2>1 DEF RdxInv, RdxStraightInv
  <2>3. /\ \A k \in DOMAIN rdxAsked : rdxAsked[k].kind # "get"
        /\ \A k \in DOMAIN rdxAnswers : rdxAnswers[k].kind # "get" /\ rdxAnswers[k].ok
    BY <2>1, RdxNotUnsettled
  <2>4. PICK t : t = rdxAsked' OBVIOUS
  <2>5. PICK n \in Nat : n = Len(rdxAsked) BY <1>0
  <2>6. /\ DOMAIN rdxAsked = 1 .. n /\ DOMAIN t = 1 .. n + 1 /\ t[n + 1] = call
        /\ \A k \in 1 .. n : t[k] = rdxAsked[k] BY <1>0, <1>1, <2>4, <2>5, RdxAppended
  <2>7. RdxClearInv' BY <2>2, <2>3, <2>4, <2>6 DEF RdxClearInv, RdxIsChange
  <2>8. (\A k \in 1 .. n : ~RdxIsChange(k)) => rdxWin = RdxConfig(rdxMem)
    BY <2>2, <2>3, <2>6 DEF RdxCopyInv
  <2>9. RdxChainInv'
    <3> SUFFICES ASSUME NEW k \in 1 .. n + 1, t[k].kind \in RdxChanges
                 PROVE  /\ (\A j \in 1 .. k - 1 : t[j].kind \notin RdxChanges) =>
                              t[k].prev = RdxConfig(rdxMem)
                        /\ \A j \in 1 .. k - 1 :
                             t[j].kind \in RdxChanges
                               /\ (\A i \in j + 1 .. k - 1 : t[i].kind \notin RdxChanges) =>
                                 t[k].prev = t[j].config
                        /\ (\A j \in 1 .. n + 1 : j > k => t[j].kind \notin RdxChanges) =>
                              rdxWin' = t[k].config BY <2>4, <2>6 DEF RdxChainInv, RdxIsChange
    <3>1. CASE k = n + 1
      <4>1. t[k] = call /\ \A j \in 1 .. n : t[j] = rdxAsked[j] BY <2>6, <3>1
      <4>2. (\A j \in 1 .. n : t[j].kind \notin RdxChanges) => t[k].prev = RdxConfig(rdxMem)
        BY <2>8, <4>1 DEF RdxIsChange
      <4>3. ASSUME NEW j \in 1 .. n, t[j].kind \in RdxChanges,
                   \A i \in j + 1 .. n : t[i].kind \notin RdxChanges
            PROVE  t[k].prev = t[j].config
        <5>1. \A i \in DOMAIN rdxAsked : i > j => ~RdxIsChange(i)
          BY <2>6, <4>1, <4>3 DEF RdxIsChange
        <5>2. RdxIsChange(j) /\ j \in DOMAIN rdxAsked BY <2>6, <4>1, <4>3 DEF RdxIsChange
        <5>3. rdxWin = rdxAsked[j].config BY <2>2, <5>1, <5>2 DEF RdxChainInv
        <5> QED BY <4>1, <5>3
      <4> QED BY <1>1, <3>1, <4>1, <4>2, <4>3
    <3>2. CASE k \in 1 .. n
      <4>1. \A j \in 1 .. k : t[j] = rdxAsked[j] /\ j \in DOMAIN rdxAsked BY <2>6, <3>2
      <4>2. RdxIsChange(k) BY <3>2, <4>1 DEF RdxIsChange
      <4>3. n + 1 > k /\ t[n + 1].kind \in RdxChanges BY <2>6, <3>2
      <4>4. (\A j \in 1 .. k - 1 : t[j].kind \notin RdxChanges) => t[k].prev = RdxConfig(rdxMem)
        BY <2>2, <3>2, <4>1, <4>2 DEF RdxChainInv, RdxIsChange
      <4>5. ASSUME NEW j \in 1 .. k - 1, t[j].kind \in RdxChanges,
                   \A i \in j + 1 .. k - 1 : t[i].kind \notin RdxChanges
            PROVE  t[k].prev = t[j].config
        BY <2>2, <3>2, <4>1, <4>2, <4>5 DEF RdxChainInv, RdxIsChange
      <4> QED BY <4>3, <4>4, <4>5
    <3> QED BY <3>1, <3>2
  <2>10. RdxCopyInv' BY <2>2, <2>4, <2>6 DEF RdxCopyInv, RdxIsChange
  <2> QED BY <2>7, <2>9, <2>10
<1> QED BY <1>3, <1>4, <1>5 DEF RdxInv, RdxStraightInv

LEMMA RdxSetKeeps ==
    ASSUME RdxInv, RdxSetMode \/ RdxToggle
    PROVE  RdxInv'
<1>0. rdxWin \in RdxConfigs \cup {RdxUnknown} BY DEF RdxInv, RdxSettingTypes
<1>1. CASE RdxSetMode
  <2>1. PICK mode \in RdxModes \ {rdxWin.mode} :
          RdxChange(RdxCall("mode", [rdxWin EXCEPT !.mode = mode], rdxWin, FALSE))
    BY <1>1 DEF RdxSetMode
  <2>2. rdxWin # RdxUnknown /\ rdxWin \in RdxConfigs BY <1>0, <1>1 DEF RdxSetMode
  <2>3. PICK config \in RdxConfigs : config = [rdxWin EXCEPT !.mode = mode] BY <2>2 DEF RdxConfigs
  <2>4. PICK call : call = RdxCall("mode", config, rdxWin, FALSE) OBVIOUS
  <2>5. call \in RdxCalls /\ call.ok /\ call.kind = "mode" /\ call.config = config
        /\ call.prev = rdxWin BY <2>2, <2>4 DEF RdxCall, RdxCalls
  <2>6. RdxSensible(call) /\ call.kind \in RdxChanges BY <2>2, <2>5 DEF RdxSensible, RdxChanges
  <2>7. RdxChange(call) BY <2>1, <2>3, <2>4
  <2> QED BY <1>1, <2>2, <2>5, <2>6, <2>7, RdxChangeKeeps DEF RdxSetMode
<1>2. CASE RdxToggle
  <2>1. PICK d \in RdxAll :
          LET on == IF d \in rdxWin.on THEN rdxWin.on \ {d} ELSE rdxWin.on \union {d}
          IN  RdxChange(RdxCall("toggle", [rdxWin EXCEPT !.on = on], rdxWin, FALSE))
    BY <1>2 DEF RdxToggle
  <2>2. rdxWin # RdxUnknown /\ rdxWin \in RdxConfigs BY <1>0, <1>2 DEF RdxToggle
  <2>3. PICK on : on = IF d \in rdxWin.on THEN rdxWin.on \ {d} ELSE rdxWin.on \union {d} OBVIOUS
  <2>4. on \subseteq RdxAll BY <2>2, <2>3 DEF RdxConfigs
  <2>5. PICK config \in RdxConfigs : config = [rdxWin EXCEPT !.on = on] BY <2>2, <2>4 DEF RdxConfigs
  <2>6. config.mode = rdxWin.mode BY <2>2, <2>5 DEF RdxConfigs
  <2>7. PICK call : call = RdxCall("toggle", config, rdxWin, FALSE) OBVIOUS
  <2>8. call \in RdxCalls /\ call.ok /\ call.kind = "toggle" /\ call.config = config
        /\ call.prev = rdxWin BY <2>2, <2>7 DEF RdxCall, RdxCalls
  <2>9. RdxSensible(call) /\ call.kind \in RdxChanges
    BY <2>2, <2>6, <2>8 DEF RdxSensible, RdxChanges
  <2>10. RdxChange(call) BY <2>1, <2>3, <2>5, <2>7
  <2> QED BY <1>2, <2>2, <2>8, <2>9, <2>10, RdxChangeKeeps DEF RdxToggle
<1> QED BY <1>1, <1>2

\* The place of a change in a queue t, for a memory and a copy of the window.
RdxLeads(t, mem, win, k) ==
    /\ (\A j \in 1 .. k - 1 : t[j].kind \notin RdxChanges) => t[k].prev = RdxConfig(mem)
    /\ \A j \in 1 .. k - 1 :
         t[j].kind \in RdxChanges
           /\ (\A i \in j + 1 .. k - 1 : t[i].kind \notin RdxChanges) =>
             t[k].prev = t[j].config
    /\ (\A j \in DOMAIN t : j > k => t[j].kind \notin RdxChanges) => win = t[k].config

LEMMA RdxChainNext ==
    ASSUME NEW t, NEW mem, NEW win, rdxAsked' = t, rdxMem' = mem, rdxWin' = win,
           \A k \in DOMAIN t : t[k].kind \in RdxChanges => RdxLeads(t, mem, win, k)
    PROVE  RdxChainInv'
<1>1. SUFFICES ASSUME NEW k \in DOMAIN rdxAsked', RdxIsChange(k)'
               PROVE  /\ (\A j \in 1 .. k - 1 : ~RdxIsChange(j)') =>
                            rdxAsked'[k].prev = RdxConfig(rdxMem')
                      /\ \A j \in 1 .. k - 1 :
                           RdxIsChange(j)' /\ (\A i \in j + 1 .. k - 1 : ~RdxIsChange(i)') =>
                             rdxAsked'[k].prev = rdxAsked'[j].config
                      /\ (\A j \in DOMAIN rdxAsked' : j > k => ~RdxIsChange(j)') =>
                            rdxWin' = rdxAsked'[k].config BY DEF RdxChainInv
<1>2. \A j : RdxIsChange(j)' <=> t[j].kind \in RdxChanges BY DEF RdxIsChange
<1>3. RdxLeads(t, mem, win, k) BY <1>1, <1>2
<1> QED BY <1>2, <1>3 DEF RdxLeads

\* A call that is not a change joins: raw access for agents, or reading the settings.
LEMMA RdxAskKeeps ==
    ASSUME RdxInv, NEW call \in RdxCalls, call.ok, call.kind \in {"raw", "get"},
           rdxAsked' = Append(rdxAsked, call),
           UNCHANGED <<rdxMem, rdxDisk, rdxWin, rdxPut, rdxAnswers, rdxOpen, rdxRead, rdxPages, rdxAstray>>
    PROVE  RdxInv'
<1>0. RdxSettingTypes /\ rdxAsked \in Seq(RdxCalls) BY DEF RdxInv, RdxSettingTypes
<1>1. RdxSensible(call) /\ call.kind \notin RdxChanges BY DEF RdxSensible, RdxChanges
<1>2. RdxSettingTypes' /\ RdxDiskInv'
  <2>1. rdxAnswers' \in Seq(RdxCalls) /\ \A k \in DOMAIN rdxAnswers' : RdxSensible(rdxAnswers'[k])
    BY <1>0 DEF RdxSettingTypes
  <2>2. rdxWin' \in RdxConfigs \cup {RdxUnknown} /\ rdxAstray' \in BOOLEAN
    BY <1>0 DEF RdxSettingTypes
  <2> QED BY <1>1, <2>1, <2>2, RdxJoins
<1>3. RdxReadInv' /\ RdxPageTypes' /\ (~rdxAstray' => RdxPagesInv')
  <2>1. RdxTurning' = RdxTurning BY DEF RdxTurning
  <2> QED BY <2>1, RdxReadsStay
<1>4. ASSUME ~rdxAstray' PROVE RdxClearInv' /\ RdxChainInv' /\ RdxCopyInv'
  <2>2. RdxClearInv /\ RdxChainInv /\ RdxCopyInv BY <1>4 DEF RdxInv, RdxStraightInv
  <2>4. PICK t : t = rdxAsked' OBVIOUS
  <2>5. PICK n \in Nat : n = Len(rdxAsked) BY <1>0
  <2>6. /\ DOMAIN rdxAsked = 1 .. n /\ DOMAIN t = 1 .. n + 1 /\ t[n + 1] = call
        /\ \A k \in 1 .. n : t[k] = rdxAsked[k] BY <1>0, <2>4, <2>5, RdxAppended
  <2>7. RdxClearInv'
    <3> SUFFICES ASSUME NEW k \in DOMAIN t, t[k].kind \in RdxChanges
                 PROVE  /\ \A j \in 1 .. k - 1 : t[j].kind # "get"
                        /\ \A j \in DOMAIN rdxAnswers :
                             rdxAnswers[j].kind # "get" /\ rdxAnswers[j].ok
      BY <2>4 DEF RdxClearInv, RdxIsChange
    <3>1. k \in 1 .. n BY <1>1, <2>6
    <3>2. k \in DOMAIN rdxAsked /\ RdxIsChange(k) BY <2>6, <3>1 DEF RdxIsChange
    <3>3. \A j \in 1 .. k - 1 : t[j] = rdxAsked[j] BY <2>6, <3>1
    <3> QED BY <2>2, <3>2, <3>3 DEF RdxClearInv
  <2>8. RdxChainInv'
    <3> SUFFICES ASSUME NEW k \in DOMAIN t, t[k].kind \in RdxChanges
                 PROVE  RdxLeads(t, rdxMem, rdxWin, k) BY <2>4, RdxChainNext
    <3>0. k \in 1 .. n BY <1>1, <2>6
    <3>1. \A j \in 1 .. k : t[j] = rdxAsked[j] /\ j \in DOMAIN rdxAsked BY <2>6, <3>0
    <3>2. RdxIsChange(k) BY <3>0, <3>1 DEF RdxIsChange
    <3>3. (\A j \in 1 .. k - 1 : t[j].kind \notin RdxChanges) => t[k].prev = RdxConfig(rdxMem)
      BY <2>2, <3>0, <3>1, <3>2 DEF RdxChainInv, RdxIsChange
    <3>4. ASSUME NEW j \in 1 .. k - 1, t[j].kind \in RdxChanges,
                 \A i \in j + 1 .. k - 1 : t[i].kind \notin RdxChanges
          PROVE  t[k].prev = t[j].config
      BY <2>2, <3>0, <3>1, <3>2, <3>4 DEF RdxChainInv, RdxIsChange
    <3>5. ASSUME \A j \in DOMAIN t : j > k => t[j].kind \notin RdxChanges
          PROVE  rdxWin = t[k].config
      <4>1. \A j \in DOMAIN rdxAsked : j > k => ~RdxIsChange(j) BY <2>6, <3>0, <3>5 DEF RdxIsChange
      <4> QED BY <2>2, <3>0, <3>1, <3>2, <4>1 DEF RdxChainInv
    <3> QED BY <3>3, <3>4, <3>5 DEF RdxLeads
  <2>9. RdxCopyInv' BY <2>2, <2>4, <2>6 DEF RdxCopyInv, RdxIsChange
  <2> QED BY <2>7, <2>8, <2>9
<1> QED BY <1>2, <1>3, <1>4 DEF RdxInv, RdxStraightInv

LEMMA RdxOtherCallsKeep ==
    ASSUME RdxInv, RdxSetRaw \/ RdxRefresh
    PROVE  RdxInv'
<1>0. rdxWin \in RdxConfigs \cup {RdxUnknown} BY DEF RdxInv, RdxSettingTypes
<1>1. CASE RdxSetRaw
  <2>1. PICK raw \in BOOLEAN : rdxAsked' = Append(rdxAsked, RdxCall("raw", rdxWin, rdxWin, raw))
    BY <1>1 DEF RdxSetRaw
  <2>2. PICK call : call = RdxCall("raw", rdxWin, rdxWin, raw) OBVIOUS
  <2>3. call \in RdxCalls /\ call.ok /\ call.kind = "raw" BY <1>0, <2>2, RdxCallFields
  <2> QED BY <1>1, <2>1, <2>2, <2>3, RdxAskKeeps DEF RdxSetRaw
<1>2. CASE RdxRefresh
  <2>1. PICK call : call = RdxCall("get", RdxUnknown, RdxUnknown, FALSE) OBVIOUS
  <2>2. call \in RdxCalls /\ call.ok /\ call.kind = "get" BY <2>1 DEF RdxCall, RdxCalls
  <2> QED BY <1>2, <2>1, <2>2, RdxAskKeeps DEF RdxRefresh
<1> QED BY <1>1, <1>2

\* The first call has been answered.
LEMMA RdxFinished ==
    ASSUME RdxSettingTypes, rdxAsked # <<>>, NEW a \in RdxCalls, RdxSensible(a), RdxFinish(a)
    PROVE  /\ Head(rdxAsked) = rdxAsked[1] /\ rdxAsked[1] \in RdxCalls /\ 1 \in DOMAIN rdxAsked
           /\ rdxAsked' \in Seq(RdxCalls) /\ rdxAnswers' \in Seq(RdxCalls) /\ ~rdxPut'
           /\ rdxPut' \in BOOLEAN
           /\ \A k \in DOMAIN rdxAsked' : RdxSensible(rdxAsked'[k]) /\ rdxAsked'[k].ok
           /\ \A k \in DOMAIN rdxAnswers' : RdxSensible(rdxAnswers'[k])
           /\ \E n \in Nat \ {0}, m \in Nat :
                /\ DOMAIN rdxAsked = 1 .. n /\ DOMAIN rdxAsked' = 1 .. n - 1
                /\ \A k \in 1 .. n - 1 : rdxAsked'[k] = rdxAsked[k + 1]
                /\ DOMAIN rdxAnswers = 1 .. m /\ DOMAIN rdxAnswers' = 1 .. m + 1
                /\ rdxAnswers'[m + 1] = a
                /\ \A k \in 1 .. m : rdxAnswers'[k] = rdxAnswers[k]
<1>1. rdxAsked \in Seq(RdxCalls) /\ rdxAnswers \in Seq(RdxCalls) BY DEF RdxSettingTypes
<1>2. PICK t, u : t = rdxAsked' /\ u = rdxAnswers' /\ t = Tail(rdxAsked) /\ u = Append(rdxAnswers, a)
  BY DEF RdxFinish
<1>3. PICK n \in Nat, m \in Nat : n = Len(rdxAsked) /\ m = Len(rdxAnswers) BY <1>1
<1>4. /\ t \in Seq(RdxCalls) /\ n >= 1 /\ DOMAIN rdxAsked = 1 .. n
      /\ DOMAIN t = 1 .. n - 1 /\ Head(rdxAsked) = rdxAsked[1] /\ rdxAsked[1] \in RdxCalls
      /\ \A k \in 1 .. n - 1 : t[k] = rdxAsked[k + 1] BY <1>1, <1>2, <1>3, RdxTailed
<1>5. /\ u \in Seq(RdxCalls) /\ DOMAIN rdxAnswers = 1 .. m
      /\ DOMAIN u = 1 .. m + 1 /\ u[m + 1] = a /\ \A k \in 1 .. m : u[k] = rdxAnswers[k]
  BY <1>1, <1>2, <1>3, RdxAppended
<1>6. \A k \in DOMAIN t : RdxSensible(t[k]) /\ t[k].ok
  <2> SUFFICES ASSUME NEW k \in 1 .. n - 1 PROVE RdxSensible(t[k]) /\ t[k].ok BY <1>4
  <2>1. k + 1 \in DOMAIN rdxAsked /\ t[k] = rdxAsked[k + 1] BY <1>4
  <2> QED BY <2>1 DEF RdxSettingTypes
<1>7. \A k \in DOMAIN u : RdxSensible(u[k])
  <2> SUFFICES ASSUME NEW k \in 1 .. m + 1 PROVE RdxSensible(u[k]) BY <1>5
  <2>1. CASE k \in 1 .. m BY <1>5, <2>1 DEF RdxSettingTypes
  <2>2. CASE k = m + 1 BY <1>5, <2>2
  <2> QED BY <2>1, <2>2
<1>8. ~rdxPut' /\ rdxPut' \in BOOLEAN BY DEF RdxFinish
<1>9. 1 \in DOMAIN rdxAsked BY <1>4
<1>10. n \in Nat \ {0} BY <1>4
<1> QED BY <1>2, <1>4, <1>5, <1>6, <1>7, <1>8, <1>9, <1>10

LEMMA RdxGetKeeps ==
    ASSUME RdxInv, RdxGet
    PROVE  RdxInv'
<1>0. RdxSettingTypes /\ rdxAsked # <<>> /\ Head(rdxAsked).kind = "get" /\ rdxAsked \in Seq(RdxCalls)
  BY DEF RdxGet, RdxInv, RdxSettingTypes
<1>1. RdxConfig(rdxMem) \in RdxConfigs BY <1>0, RdxConfigOf DEF RdxSettingTypes
<1>2. PICK a : a = [Head(rdxAsked) EXCEPT !.config = RdxConfig(rdxMem)] OBVIOUS
<1>3. Head(rdxAsked) = rdxAsked[1] /\ rdxAsked[1] \in RdxCalls BY <1>0, RdxTailed
<1>4. a \in RdxCalls /\ a.kind = "get" /\ a.config = RdxConfig(rdxMem)
  BY <1>0, <1>1, <1>2, <1>3, RdxReadAnswer
<1>5. RdxSensible(a) /\ RdxFinish(a) BY <1>2, <1>4 DEF RdxGet, RdxSensible, RdxChanges
<1>6. /\ rdxAsked' \in Seq(RdxCalls) /\ rdxAnswers' \in Seq(RdxCalls) /\ ~rdxPut'
      /\ rdxPut' \in BOOLEAN
      /\ \A k \in DOMAIN rdxAsked' : RdxSensible(rdxAsked'[k]) /\ rdxAsked'[k].ok
      /\ \A k \in DOMAIN rdxAnswers' : RdxSensible(rdxAnswers'[k]) BY <1>0, <1>4, <1>5, RdxFinished
<1>7. PICK n \in Nat \ {0}, m \in Nat :
        /\ DOMAIN rdxAsked = 1 .. n /\ DOMAIN rdxAsked' = 1 .. n - 1
        /\ \A k \in 1 .. n - 1 : rdxAsked'[k] = rdxAsked[k + 1]
        /\ DOMAIN rdxAnswers = 1 .. m /\ DOMAIN rdxAnswers' = 1 .. m + 1 /\ rdxAnswers'[m + 1] = a
        /\ \A k \in 1 .. m : rdxAnswers'[k] = rdxAnswers[k] BY <1>0, <1>4, <1>5, RdxFinished
<1>8. UNCHANGED <<rdxMem, rdxDisk, rdxWin, rdxOpen, rdxRead, rdxPages, rdxAstray>> BY DEF RdxGet
<1>9. RdxSettingTypes' BY <1>0, <1>6, <1>8 DEF RdxSettingTypes
<1>10. RdxDiskInv'
  <2>1. ~rdxPut BY <1>0, <1>3 DEF RdxSettingTypes
  <2> QED BY <1>6, <1>8, <2>1 DEF RdxInv, RdxDiskInv
<1>11. RdxReadInv' /\ RdxPageTypes' /\ (~rdxAstray' => RdxPagesInv')
  <2>1. RdxTurning => RdxTurning' BY <1>7 DEF RdxTurning
  <2> QED BY <1>8, <2>1, RdxReadsStay
<1>12. ASSUME ~rdxAstray' PROVE RdxClearInv' /\ RdxChainInv' /\ RdxCopyInv'
  <2>1. RdxClearInv /\ RdxCopyInv BY <1>8, <1>12 DEF RdxInv, RdxStraightInv
  <2>2. \A k \in 1 .. n : ~RdxIsChange(k)
    <3> SUFFICES ASSUME NEW k \in 1 .. n, RdxIsChange(k) PROVE FALSE OBVIOUS
    <3>1. k # 1 BY <1>0, <1>3 DEF RdxIsChange, RdxChanges
    <3> QED BY <1>0, <1>3, <1>7, <2>1, <3>1 DEF RdxClearInv
  <2>3. PICK t, u : t = rdxAsked' /\ u = rdxAnswers' OBVIOUS
  <2>4. \A k \in 1 .. n - 1 : t[k].kind \notin RdxChanges BY <1>7, <2>2, <2>3 DEF RdxIsChange
  <2>5. RdxClearInv' /\ RdxChainInv' BY <1>7, <2>3, <2>4 DEF RdxClearInv, RdxChainInv, RdxIsChange
  <2>6. RdxCopyInv'
    <3>1. \A j \in 1 .. m + 1 : u[j].kind = "get" => u[j].config = RdxConfig(rdxMem)
      <4> SUFFICES ASSUME NEW j \in 1 .. m + 1, u[j].kind = "get" PROVE u[j].config = RdxConfig(rdxMem)
        OBVIOUS
      <4>1. CASE j = m + 1 BY <1>4, <1>7, <2>3, <4>1
      <4>2. CASE j \in 1 .. m BY <1>7, <2>1, <2>3, <4>2 DEF RdxCopyInv
      <4> QED BY <4>1, <4>2
    <3>2. m + 1 \in DOMAIN u /\ u[m + 1].kind = "get" BY <1>4, <1>7, <2>3
    <3> QED BY <1>7, <1>8, <2>3, <3>1, <3>2 DEF RdxCopyInv
  <2> QED BY <2>5, <2>6
<1> QED BY <1>9, <1>10, <1>11, <1>12 DEF RdxInv, RdxStraightInv

LEMMA RdxPersistKeeps ==
    ASSUME RdxInv, RdxPersist
    PROVE  RdxInv'
<1>0. /\ RdxSettingTypes /\ rdxAsked # <<>> /\ Head(rdxAsked).kind # "get" /\ ~rdxPut
      /\ rdxAsked \in Seq(RdxCalls) BY DEF RdxPersist, RdxWriting, RdxInv, RdxSettingTypes
<1>1. PICK call : call = Head(rdxAsked) OBVIOUS
<1>2. call = rdxAsked[1] /\ call \in RdxCalls /\ 1 \in DOMAIN rdxAsked BY <1>0, <1>1, RdxTailed
<1>3. RdxSensible(call) /\ call.kind \in RdxChanges \cup {"raw"} /\ call.raw \in BOOLEAN
  <2>1. RdxSensible(call) /\ call.kind # "get" BY <1>0, <1>1, <1>2 DEF RdxSettingTypes
  <2>2. call.kind \in {"mode", "toggle", "raw", "get"} /\ call.raw \in BOOLEAN
    BY <1>2, RdxAnswerFields
  <2> QED BY <2>1, <2>2 DEF RdxChanges
<1>4. UNCHANGED <<rdxMem, rdxWin, rdxAsked, rdxAnswers, rdxOpen, rdxRead, rdxPages, rdxAstray>>
      /\ rdxPut' BY DEF RdxPersist
<1>5. rdxDisk' = IF call.kind = "raw"
                   THEN [rdxDisk EXCEPT !.raw = IF call.raw THEN "on" ELSE "off"]
                   ELSE [rdxDisk EXCEPT !.config = call.config] BY <1>1 DEF RdxPersist, RdxWritten
<1>6. rdxDisk \in [config : RdxConfigs \cup {RdxTorn}, raw : {"on", "off", "torn"}]
  BY <1>0 DEF RdxSettingTypes
<1>7. /\ rdxDisk' \in [config : RdxConfigs \cup {RdxTorn}, raw : {"on", "off", "torn"}]
      /\ call.kind = "raw" => /\ rdxDisk'.config = rdxDisk.config
                              /\ rdxDisk'.raw = "on" => call.raw
      /\ call.kind # "raw" => rdxDisk'.raw = rdxDisk.raw /\ rdxDisk'.config = call.config
  <2>1. CASE call.kind = "raw" BY <1>5, <1>6, <2>1
  <2>2. CASE call.kind # "raw"
    <3>1. call.config \in RdxConfigs BY <1>3, <2>2 DEF RdxSensible
    <3> QED BY <1>5, <1>6, <2>2, <3>1
  <2> QED BY <2>1, <2>2
<1>8. RdxSettingTypes'
  BY <1>0, <1>1, <1>2, <1>4, <1>7, RdxAnswerFields DEF RdxSettingTypes, RdxPersist
<1>9. RdxDiskInv' BY <1>0, <1>2, <1>3, <1>4, <1>7 DEF RdxInv, RdxDiskInv, RdxChanges
<1>10. RdxReadInv' /\ RdxPageTypes' /\ (~rdxAstray' => RdxPagesInv')
  <2>1. RdxTurning' = RdxTurning BY <1>4 DEF RdxTurning
  <2> QED BY <1>4, <2>1, RdxReadsStay
<1>11. ASSUME ~rdxAstray' PROVE RdxClearInv' /\ RdxChainInv' /\ RdxCopyInv'
  <2>1. RdxClearInv /\ RdxChainInv /\ RdxCopyInv BY <1>4, <1>11 DEF RdxInv, RdxStraightInv
  <2>2. RdxClearInv' = RdxClearInv BY <1>4 DEF RdxClearInv, RdxIsChange
  <2>3. RdxChainInv' = RdxChainInv BY <1>4 DEF RdxChainInv, RdxIsChange
  <2>4. RdxCopyInv' = RdxCopyInv BY <1>4 DEF RdxCopyInv, RdxIsChange
  <2> QED BY <2>1, <2>2, <2>3, <2>4
<1> QED BY <1>8, <1>9, <1>10, <1>11 DEF RdxInv, RdxStraightInv

LEMMA RdxPersistFailsKeeps ==
    ASSUME RdxInv, RdxPersistFails
    PROVE  RdxInv'
<1>0. /\ RdxSettingTypes /\ rdxAsked # <<>> /\ Head(rdxAsked).kind # "get" /\ ~rdxPut
      /\ rdxAsked \in Seq(RdxCalls) BY DEF RdxPersistFails, RdxWriting, RdxInv, RdxSettingTypes
<1>1. PICK call : call = Head(rdxAsked) OBVIOUS
<1>2. call = rdxAsked[1] /\ call \in RdxCalls /\ 1 \in DOMAIN rdxAsked BY <1>0, <1>1, RdxTailed
<1>3. RdxSensible(call) /\ call.kind \in RdxChanges \cup {"raw"}
  <2>1. RdxSensible(call) /\ call.kind # "get" BY <1>0, <1>1, <1>2 DEF RdxSettingTypes
  <2>2. call.kind \in {"mode", "toggle", "raw", "get"} BY <1>2, RdxAnswerFields
  <2> QED BY <2>1, <2>2 DEF RdxChanges
<1>4. PICK a : a = [call EXCEPT !.ok = FALSE] OBVIOUS
<1>5. a \in RdxCalls /\ a.kind = call.kind /\ ~a.ok /\ RdxSensible(a)
  <2>1. a \in RdxCalls /\ a.kind = call.kind /\ ~a.ok /\ a.config = call.config /\ a.prev = call.prev
    BY <1>2, <1>4, RdxFailedAnswer
  <2> QED BY <1>3, <2>1 DEF RdxSensible
<1>6. RdxFinish(a) BY <1>1, <1>4 DEF RdxPersistFails
<1>7. /\ rdxAsked' \in Seq(RdxCalls) /\ rdxAnswers' \in Seq(RdxCalls) /\ ~rdxPut'
      /\ rdxPut' \in BOOLEAN
      /\ \A k \in DOMAIN rdxAsked' : RdxSensible(rdxAsked'[k]) /\ rdxAsked'[k].ok
      /\ \A k \in DOMAIN rdxAnswers' : RdxSensible(rdxAnswers'[k]) BY <1>0, <1>5, <1>6, RdxFinished
<1>8. PICK n \in Nat \ {0}, m \in Nat :
        /\ DOMAIN rdxAsked = 1 .. n /\ DOMAIN rdxAsked' = 1 .. n - 1
        /\ \A k \in 1 .. n - 1 : rdxAsked'[k] = rdxAsked[k + 1]
        /\ DOMAIN rdxAnswers = 1 .. m /\ DOMAIN rdxAnswers' = 1 .. m + 1 /\ rdxAnswers'[m + 1] = a
        /\ \A k \in 1 .. m : rdxAnswers'[k] = rdxAnswers[k] BY <1>0, <1>5, <1>6, RdxFinished
<1>9. UNCHANGED <<rdxMem, rdxWin, rdxOpen, rdxRead, rdxPages>> BY DEF RdxPersistFails
<1>10. /\ rdxDisk' \in [config : RdxConfigs \cup {RdxTorn}, raw : {"on", "off", "torn"}]
       /\ rdxDisk'.config \in {RdxTorn, rdxDisk.config}
       /\ rdxDisk'.raw = "on" => rdxDisk.raw = "on"
  <2>1. rdxDisk \in [config : RdxConfigs \cup {RdxTorn}, raw : {"on", "off", "torn"}]
    BY <1>0 DEF RdxSettingTypes
  <2>2. rdxDisk' \in {rdxDisk, [rdxDisk EXCEPT !.raw = "torn"], [rdxDisk EXCEPT !.config = RdxTorn]}
    BY DEF RdxPersistFails, RdxHalfWritten
  <2> QED BY <2>1, <2>2
<1>11. PICK t, u : t = rdxAsked' /\ u = rdxAnswers' OBVIOUS
<1>12. /\ rdxAstray' \in BOOLEAN
       /\ ~rdxAstray' => ~rdxAstray /\ \A k \in 1 .. n - 1 : t[k].kind \notin RdxChanges
  <2>1. rdxAsked' = Tail(rdxAsked) BY <1>6 DEF RdxFinish
  <2>2. rdxAstray' = (rdxAstray \/ \E c \in Range(t) : c.kind \in {"mode", "toggle"})
    BY <1>11, <2>1 DEF RdxPersistFails
  <2>3. \A k \in 1 .. n - 1 : t[k] \in Range(t) BY <1>8, <1>11 DEF Range
  <2> QED BY <1>0, <2>2, <2>3 DEF RdxChanges, RdxSettingTypes
<1>13. RdxSettingTypes' BY <1>0, <1>7, <1>9, <1>10, <1>12 DEF RdxSettingTypes
<1>14. RdxDiskInv' BY <1>0, <1>7, <1>9, <1>10 DEF RdxInv, RdxDiskInv
<1>15. RdxReadInv' /\ RdxPageTypes' /\ (~rdxAstray' => RdxPagesInv')
  <2>1. RdxTurning => RdxTurning' BY <1>8 DEF RdxTurning
  <2> QED BY <1>9, <1>12, <2>1, RdxReadsStay
<1>16. ASSUME ~rdxAstray' PROVE RdxClearInv' /\ RdxChainInv' /\ RdxCopyInv'
  <2>1. RdxClearInv /\ RdxCopyInv /\ RdxChainInv BY <1>12, <1>16 DEF RdxInv, RdxStraightInv
  <2>2. \A k \in 1 .. n - 1 : t[k].kind \notin RdxChanges BY <1>12, <1>16
  <2>3. RdxClearInv' /\ RdxChainInv' BY <1>8, <1>11, <2>2 DEF RdxClearInv, RdxChainInv, RdxIsChange
  <2>4. ASSUME NEW j \in 1 .. m + 1, u[j].kind = "get" PROVE u[j].config = RdxConfig(rdxMem)
    <3>1. j \in 1 .. m BY <1>3, <1>5, <1>8, <1>11, <2>4 DEF RdxChanges
    <3> QED BY <1>8, <1>11, <2>1, <2>4, <3>1 DEF RdxCopyInv
  <2>5. \/ \E k \in 1 .. n - 1 : t[k].kind = "get"
        \/ \E j \in 1 .. m + 1 :
             \/ u[j].kind = "get"
             \/ u[j].kind \in RdxChanges /\ ~u[j].ok
        \/ rdxWin \in {RdxUnknown, RdxConfig(rdxMem)}
    <3>1. CASE call.kind \in RdxChanges BY <1>5, <1>8, <1>11, <3>1
    <3>2. CASE \E k \in 2 .. n : rdxAsked[k].kind \in RdxChanges \cup {"get"}
      <4>1. PICK k \in 1 .. n - 1 : t[k].kind \in RdxChanges \cup {"get"}
        <5>1. PICK k \in 2 .. n : rdxAsked[k].kind \in RdxChanges \cup {"get"} BY <3>2
        <5>2. k - 1 \in 1 .. n - 1 /\ t[k - 1] = rdxAsked[k] BY <1>8, <1>11
        <5> QED BY <5>1, <5>2
      <4> QED BY <2>2, <4>1
    <3>3. CASE \E j \in 1 .. m : \/ rdxAnswers[j].kind = "get"
                                 \/ rdxAnswers[j].kind \in RdxChanges /\ ~rdxAnswers[j].ok
      <4>1. PICK j \in 1 .. m : \/ rdxAnswers[j].kind = "get"
                                \/ rdxAnswers[j].kind \in RdxChanges /\ ~rdxAnswers[j].ok BY <3>3
      <4>2. j \in 1 .. m + 1 /\ u[j] = rdxAnswers[j] BY <1>8, <1>11
      <4> QED BY <4>1, <4>2
    <3>4. CASE rdxWin \in {RdxUnknown, RdxConfig(rdxMem)} BY <3>4
    <3>5. \/ \E k \in 1 .. n : rdxAsked[k].kind \in RdxChanges \cup {"get"}
          \/ \E j \in 1 .. m : \/ rdxAnswers[j].kind = "get"
                               \/ rdxAnswers[j].kind \in RdxChanges /\ ~rdxAnswers[j].ok
          \/ rdxWin \in {RdxUnknown, RdxConfig(rdxMem)} BY <1>8, <2>1 DEF RdxCopyInv, RdxIsChange
    <3>6. ASSUME NEW k \in 1 .. n, rdxAsked[k].kind \in RdxChanges \cup {"get"}
          PROVE  k \in 2 .. n \/ call.kind \in RdxChanges BY <1>0, <1>1, <1>2, <3>6
    <3> QED BY <3>1, <3>2, <3>3, <3>4, <3>5, <3>6
  <2>6. RdxCopyInv' BY <1>8, <1>9, <1>11, <2>4, <2>5 DEF RdxCopyInv, RdxIsChange
  <2> QED BY <2>3, <2>6
<1> QED BY <1>13, <1>14, <1>15, <1>16 DEF RdxInv, RdxStraightInv

\* What reads hold after a setting was stored, as long as "all" was neither entered nor left
\* unless the window is going to read its pages again.
LEMMA RdxStoredReads ==
    ASSUME RdxInv, UNCHANGED <<rdxPages, rdxOpen, rdxAstray>>, RdxTurning => RdxTurning',
           ~rdxAstray /\ ~RdxTurning' => (rdxMem.mode = "all") = (rdxMem'.mode = "all"),
           rdxRead' = [r \in RdxReaders |->
             IF rdxRead[r].at = "idle" THEN RdxIdle
             ELSE [rdxRead[r] EXCEPT !.may = @ \/ RdxAllows(rdxMem'), !.calm = FALSE]]
    PROVE  RdxReadInv' /\ RdxPageTypes' /\ (~rdxAstray' => RdxPagesInv')
<1>1. RdxPageTypes' BY DEF RdxInv, RdxPageTypes
<1>2. ~rdxAstray' => RdxPagesInv' BY DEF RdxInv, RdxStraightInv, RdxPagesInv
<1>3. ASSUME NEW r \in RdxReaders PROVE RdxRight(r, rdxRead[r])'
  <2> DEFINE o == rdxRead[r]
  <2>1. RdxRight(r, o) BY DEF RdxInv, RdxReadInv
  <2>2. CASE o = RdxIdle BY <2>2 DEF RdxRight, RdxIdle
  <2>3. CASE o # RdxIdle
    <3>1. RdxBusy(o) BY <2>1, <2>3 DEF RdxRight
    <3>2. PICK may \in BOOLEAN : may <=> o.may \/ RdxAllows(rdxMem') OBVIOUS
    <3>3. PICK x : x = rdxRead'[r] OBVIOUS
    <3>4. x = [o EXCEPT !.may = may, !.calm = FALSE]
      <4>1. (o.may \/ RdxAllows(rdxMem')) \in BOOLEAN BY <3>1 DEF RdxBusy
      <4>2. may = (o.may \/ RdxAllows(rdxMem')) BY <3>2, <4>1
      <4>3. o.at # "idle" BY <3>1 DEF RdxBusy, RdxPlaces
      <4> QED BY <3>3, <4>2, <4>3
    <3>5. /\ DOMAIN x = RdxFields /\ x.at = o.at /\ x.yes = o.yes /\ x.step = o.step
          /\ x.raws = o.raws /\ x.cut = o.cut /\ x.gen = o.gen /\ x.may = may /\ x.used = o.used
      BY <3>1, <3>4 DEF RdxBusy, RdxFields
    <3>6. RdxBusy(x) /\ x.gen <= rdxPages.gen /\ (x.at = "flag" => r = "agent")
      BY <2>1, <2>3, <3>1, <3>5 DEF RdxBusy, RdxRight
    <3>7. ASSUME r = "window", ~rdxAstray, ~RdxTurning', x.gen = rdxPages.gen
          PROVE  RdxFits(x, rdxMem'.mode = "all")
      <4>1. RdxFits(o, rdxMem.mode = "all") BY <2>1, <2>3, <3>5, <3>7 DEF RdxRight
      <4> QED BY <3>5, <3>7, <4>1 DEF RdxFits
    <3>8. ASSUME r = "agent", ~x.may PROVE ~RdxAllows(rdxMem') /\ RdxGated(x)
      <4>1. ~o.may /\ ~RdxAllows(rdxMem') BY <3>2, <3>5, <3>8
      <4>2. RdxGated(o) BY <2>1, <2>3, <3>8, <4>1 DEF RdxRight
      <4> QED BY <3>5, <4>1, <4>2 DEF RdxGated
    <3>9. RdxRight(r, x)' BY <3>6, <3>7, <3>8 DEF RdxRight
    <3> QED BY <3>3, <3>9 DEF RdxRight
  <2> QED BY <2>2, <2>3
<1> QED BY <1>1, <1>2, <1>3 DEF RdxReadInv

LEMMA RdxStoreKeeps ==
    ASSUME RdxInv, RdxStore
    PROVE  RdxInv'
<1>0. /\ RdxSettingTypes /\ rdxAsked # <<>> /\ rdxAsked[1].kind # "get" /\ rdxPut
      /\ rdxAsked \in Seq(RdxCalls) BY DEF RdxStore, RdxInv, RdxSettingTypes
<1>1. PICK call : call = Head(rdxAsked) OBVIOUS
<1>2. call = rdxAsked[1] /\ call \in RdxCalls /\ 1 \in DOMAIN rdxAsked BY <1>0, <1>1, RdxTailed
<1>3. RdxSensible(call) /\ call.kind \in RdxChanges \cup {"raw"} /\ call.ok /\ call.raw \in BOOLEAN
  <2>1. RdxSensible(call) /\ call.kind # "get" /\ call.ok BY <1>0, <1>2 DEF RdxSettingTypes
  <2>2. call.kind \in {"mode", "toggle", "raw", "get"} /\ call.raw \in BOOLEAN
    BY <1>2, RdxAnswerFields
  <2> QED BY <2>1, <2>2 DEF RdxChanges
<1>4. RdxFinish(call) BY <1>1 DEF RdxStore
<1>5. /\ rdxAsked' \in Seq(RdxCalls) /\ rdxAnswers' \in Seq(RdxCalls) /\ ~rdxPut'
      /\ rdxPut' \in BOOLEAN
      /\ \A k \in DOMAIN rdxAsked' : RdxSensible(rdxAsked'[k]) /\ rdxAsked'[k].ok
      /\ \A k \in DOMAIN rdxAnswers' : RdxSensible(rdxAnswers'[k])
  BY <1>0, <1>2, <1>3, <1>4, RdxFinished
<1>6. PICK n \in Nat \ {0}, m \in Nat :
        /\ DOMAIN rdxAsked = 1 .. n /\ DOMAIN rdxAsked' = 1 .. n - 1
        /\ \A k \in 1 .. n - 1 : rdxAsked'[k] = rdxAsked[k + 1]
        /\ DOMAIN rdxAnswers = 1 .. m /\ DOMAIN rdxAnswers' = 1 .. m + 1
        /\ rdxAnswers'[m + 1] = call
        /\ \A k \in 1 .. m : rdxAnswers'[k] = rdxAnswers[k] BY <1>0, <1>2, <1>3, <1>4, RdxFinished
<1>7. UNCHANGED <<rdxDisk, rdxWin, rdxOpen, rdxPages, rdxAstray>> BY DEF RdxStore
<1>8. PICK t, u : t = rdxAsked' /\ u = rdxAnswers' OBVIOUS
<1>9. rdxMem \in [mode : RdxModes, on : SUBSET RdxAll, raw : BOOLEAN] BY <1>0 DEF RdxSettingTypes
<1>10. PICK mem : mem = rdxMem' OBVIOUS
<1>11. /\ mem \in [mode : RdxModes, on : SUBSET RdxAll, raw : BOOLEAN]
       /\ call.kind \in RdxChanges =>
            RdxConfig(mem) = call.config /\ mem.raw = rdxMem.raw /\ mem.mode = call.config.mode
       /\ call.kind = "raw" =>
            RdxConfig(mem) = RdxConfig(rdxMem) /\ mem.raw = call.raw /\ mem.mode = rdxMem.mode
  <2>1. CASE call.kind = "raw"
    <3>1. mem = [rdxMem EXCEPT !.raw = call.raw] BY <1>1, <1>10, <2>1 DEF RdxStore
    <3> QED BY <1>3, <1>9, <2>1, <3>1, RdxConfigOf DEF RdxChanges
  <2>2. CASE call.kind \in RdxChanges
    <3>1. call.kind # "raw" /\ call.config \in RdxConfigs /\ rdxMem.raw \in BOOLEAN
      BY <1>3, <1>9, <2>2 DEF RdxChanges, RdxSensible
    <3>2. mem = RdxMemory(call.config, rdxMem.raw) BY <1>1, <1>10, <3>1 DEF RdxStore
    <3> QED BY <1>9, <3>1, <3>2, RdxConfigOf
  <2> QED BY <1>3, <2>1, <2>2
<1>12. RdxSettingTypes' BY <1>0, <1>5, <1>7, <1>10, <1>11 DEF RdxSettingTypes
<1>13. RdxDiskInv'
  <2>1. RdxDiskInv BY DEF RdxInv
  <2> QED BY <1>0, <1>2, <1>3, <1>5, <1>7, <1>10, <1>11, <2>1 DEF RdxDiskInv, RdxChanges
<1>14. ASSUME ~rdxAstray PROVE RdxClearInv /\ RdxCopyInv /\ RdxChainInv
  BY <1>14 DEF RdxInv, RdxStraightInv
<1>15. ASSUME ~rdxAstray, call.kind \in RdxChanges PROVE call.prev = RdxConfig(rdxMem)
  BY <1>2, <1>14, <1>15 DEF RdxChainInv, RdxIsChange
<1>16. RdxReadInv' /\ RdxPageTypes' /\ (~rdxAstray' => RdxPagesInv')
  <2>1. RdxTurning => RdxTurning' BY <1>6 DEF RdxTurning
  <2>2. ASSUME ~rdxAstray, ~RdxTurning' PROVE (rdxMem.mode = "all") = (mem.mode = "all")
    <3>1. CASE call.kind = "raw" BY <1>11, <3>1
    <3>2. CASE call.kind \in RdxChanges
      <4>1. call.prev.mode = rdxMem.mode /\ call.config.mode = mem.mode
        BY <1>9, <1>11, <1>15, <2>2, <3>2, RdxConfigOf
      <4>2. CASE call.kind = "toggle" BY <1>3, <4>1, <4>2 DEF RdxSensible
      <4>3. CASE call.kind = "mode"
        <5>1. ~RdxTurns(call) BY <1>6, <2>2 DEF RdxTurning
        <5> QED BY <1>3, <4>1, <4>3, <5>1 DEF RdxTurns, RdxRefetches
      <4> QED BY <3>2, <4>2, <4>3 DEF RdxChanges
    <3> QED BY <1>3, <3>1, <3>2
  <2>3. rdxRead' = [r \in RdxReaders |->
             IF rdxRead[r].at = "idle" THEN RdxIdle
             ELSE [rdxRead[r] EXCEPT !.may = @ \/ RdxAllows(rdxMem'), !.calm = FALSE]]
    BY DEF RdxStore
  <2> QED BY <1>7, <1>10, <2>1, <2>2, <2>3, RdxStoredReads
<1>17. ASSUME ~rdxAstray PROVE RdxClearInv' /\ RdxChainInv' /\ RdxCopyInv'
  <2>1. RdxClearInv /\ RdxCopyInv /\ RdxChainInv BY <1>14, <1>17
  <2>2. \A k \in 1 .. n - 1 : t[k] = rdxAsked[k + 1] /\ k + 1 \in DOMAIN rdxAsked /\ k \in DOMAIN t
    BY <1>6, <1>8
  <2>3. RdxClearInv'
    <3> SUFFICES ASSUME NEW k \in 1 .. n - 1, t[k].kind \in RdxChanges
                 PROVE  /\ \A j \in 1 .. k - 1 : t[j].kind # "get"
                        /\ \A j \in 1 .. m + 1 : u[j].kind # "get" /\ u[j].ok
      BY <1>6, <1>8 DEF RdxClearInv, RdxIsChange
    <3>1. RdxIsChange(k + 1) /\ k + 1 \in DOMAIN rdxAsked BY <2>2 DEF RdxIsChange
    <3>2. \A j \in 1 .. k - 1 : t[j].kind # "get"
      <4> SUFFICES ASSUME NEW j \in 1 .. k - 1 PROVE t[j].kind # "get" OBVIOUS
      <4>1. j + 1 \in 1 .. (k + 1) - 1 /\ t[j] = rdxAsked[j + 1] BY <2>2
      <4> QED BY <2>1, <3>1, <4>1 DEF RdxClearInv
    <3>3. \A j \in 1 .. m : u[j].kind # "get" /\ u[j].ok BY <1>6, <1>8, <2>1, <3>1 DEF RdxClearInv
    <3>4. u[m + 1].kind # "get" /\ u[m + 1].ok BY <1>3, <1>6, <1>8 DEF RdxChanges
    <3> QED BY <3>2, <3>3, <3>4
  <2>4. RdxChainInv'
    <3> SUFFICES ASSUME NEW k \in 1 .. n - 1, t[k].kind \in RdxChanges
                 PROVE  /\ (\A j \in 1 .. k - 1 : t[j].kind \notin RdxChanges) =>
                              t[k].prev = RdxConfig(mem)
                        /\ \A j \in 1 .. k - 1 :
                             t[j].kind \in RdxChanges
                               /\ (\A i \in j + 1 .. k - 1 : t[i].kind \notin RdxChanges) =>
                                 t[k].prev = t[j].config
                        /\ (\A j \in 1 .. n - 1 : j > k => t[j].kind \notin RdxChanges) =>
                              rdxWin = t[k].config
      BY <1>6, <1>7, <1>8, <1>10 DEF RdxChainInv, RdxIsChange
    <3>1. RdxIsChange(k + 1) /\ k + 1 \in DOMAIN rdxAsked /\ t[k] = rdxAsked[k + 1]
      BY <2>2 DEF RdxIsChange
    <3>2. ASSUME \A j \in 1 .. k - 1 : t[j].kind \notin RdxChanges
          PROVE  t[k].prev = RdxConfig(mem)
      <4>1. \A j \in 2 .. k : ~RdxIsChange(j)
        <5> SUFFICES ASSUME NEW j \in 2 .. k PROVE ~RdxIsChange(j) OBVIOUS
        <5>1. j - 1 \in 1 .. k - 1 /\ t[j - 1] = rdxAsked[(j - 1) + 1] /\ (j - 1) + 1 = j BY <2>2
        <5> QED BY <3>2, <5>1 DEF RdxIsChange
      <4>2. CASE call.kind \in RdxChanges
        <5>1. 1 \in 1 .. (k + 1) - 1 /\ RdxIsChange(1) /\ \A i \in 1 + 1 .. (k + 1) - 1 : ~RdxIsChange(i)
          BY <1>2, <4>1, <4>2 DEF RdxIsChange
        <5>2. rdxAsked[k + 1].prev = rdxAsked[1].config BY <2>1, <3>1, <5>1 DEF RdxChainInv
        <5> QED BY <1>2, <1>11, <3>1, <4>2, <5>2
      <4>3. CASE call.kind = "raw"
        <5>1. \A j \in 1 .. (k + 1) - 1 : ~RdxIsChange(j)
          BY <1>2, <4>1, <4>3 DEF RdxIsChange, RdxChanges
        <5>2. rdxAsked[k + 1].prev = RdxConfig(rdxMem) BY <2>1, <3>1, <5>1 DEF RdxChainInv
        <5> QED BY <1>11, <3>1, <4>3, <5>2
      <4> QED BY <1>3, <4>2, <4>3
    <3>3. ASSUME NEW j \in 1 .. k - 1, t[j].kind \in RdxChanges,
                 \A i \in j + 1 .. k - 1 : t[i].kind \notin RdxChanges
          PROVE  t[k].prev = t[j].config
      <4>1. j + 1 \in 1 .. (k + 1) - 1 /\ t[j] = rdxAsked[j + 1] /\ RdxIsChange(j + 1)
        BY <2>2, <3>3 DEF RdxIsChange
      <4>2. \A i \in (j + 1) + 1 .. (k + 1) - 1 : ~RdxIsChange(i)
        <5> SUFFICES ASSUME NEW i \in (j + 1) + 1 .. (k + 1) - 1 PROVE ~RdxIsChange(i) OBVIOUS
        <5>1. i - 1 \in j + 1 .. k - 1 /\ i - 1 \in 1 .. n - 1 /\ (i - 1) + 1 = i OBVIOUS
        <5> QED BY <2>2, <3>3, <5>1 DEF RdxIsChange
      <4> QED BY <2>1, <3>1, <4>1, <4>2 DEF RdxChainInv
    <3>4. ASSUME \A j \in 1 .. n - 1 : j > k => t[j].kind \notin RdxChanges
          PROVE  rdxWin = t[k].config
      <4>1. \A j \in DOMAIN rdxAsked : j > k + 1 => ~RdxIsChange(j)
        <5> SUFFICES ASSUME NEW j \in 1 .. n, j > k + 1 PROVE ~RdxIsChange(j) BY <1>6
        <5>1. j - 1 \in 1 .. n - 1 /\ j - 1 > k /\ (j - 1) + 1 = j OBVIOUS
        <5> QED BY <2>2, <3>4, <5>1 DEF RdxIsChange
      <4> QED BY <2>1, <3>1, <4>1 DEF RdxChainInv
    <3> QED BY <3>2, <3>3, <3>4
  <2>5. ASSUME NEW j \in 1 .. m + 1, u[j].kind = "get" PROVE u[j].config = RdxConfig(mem)
    <3>1. j \in 1 .. m /\ u[j] = rdxAnswers[j] BY <1>3, <1>6, <1>8, <2>5 DEF RdxChanges
    <3>2. call.kind \notin RdxChanges BY <1>2, <1>6, <2>1, <2>5, <3>1 DEF RdxClearInv, RdxIsChange
    <3> QED BY <1>3, <1>6, <1>11, <2>1, <2>5, <3>1, <3>2 DEF RdxCopyInv
  <2>6. \/ \E k \in 1 .. n - 1 : t[k].kind \in RdxChanges \cup {"get"}
        \/ \E j \in 1 .. m + 1 : \/ u[j].kind = "get"
                                 \/ u[j].kind \in RdxChanges /\ ~u[j].ok
        \/ rdxWin \in {RdxUnknown, RdxConfig(mem)}
    <3>1. CASE \E k \in 2 .. n : rdxAsked[k].kind \in RdxChanges \cup {"get"}
      <4>1. PICK k \in 2 .. n : rdxAsked[k].kind \in RdxChanges \cup {"get"} BY <3>1
      <4>2. k - 1 \in 1 .. n - 1 /\ t[k - 1] = rdxAsked[(k - 1) + 1] /\ (k - 1) + 1 = k BY <2>2
      <4> QED BY <4>1, <4>2
    <3>2. CASE \E j \in 1 .. m : \/ rdxAnswers[j].kind = "get"
                                 \/ rdxAnswers[j].kind \in RdxChanges /\ ~rdxAnswers[j].ok
      <4>1. PICK j \in 1 .. m : \/ rdxAnswers[j].kind = "get"
                                \/ rdxAnswers[j].kind \in RdxChanges /\ ~rdxAnswers[j].ok BY <3>2
      <4>2. j \in 1 .. m + 1 /\ u[j] = rdxAnswers[j] BY <1>6, <1>8
      <4> QED BY <4>1, <4>2
    <3>3. CASE call.kind \in RdxChanges /\ \A k \in 2 .. n : rdxAsked[k].kind \notin RdxChanges
      <4>1. RdxIsChange(1) /\ \A j \in DOMAIN rdxAsked : j > 1 => ~RdxIsChange(j)
        BY <1>2, <1>6, <3>3 DEF RdxIsChange
      <4>2. rdxWin = call.config BY <1>2, <2>1, <4>1 DEF RdxChainInv
      <4> QED BY <1>11, <3>3, <4>2
    <3>4. CASE call.kind = "raw" /\ rdxWin \in {RdxUnknown, RdxConfig(rdxMem)} BY <1>11, <3>4
    <3>5. \/ \E k \in 1 .. n : rdxAsked[k].kind \in RdxChanges \cup {"get"}
          \/ \E j \in 1 .. m : \/ rdxAnswers[j].kind = "get"
                               \/ rdxAnswers[j].kind \in RdxChanges /\ ~rdxAnswers[j].ok
          \/ rdxWin \in {RdxUnknown, RdxConfig(rdxMem)} BY <1>6, <2>1 DEF RdxCopyInv, RdxIsChange
    <3>6. ASSUME NEW k \in 1 .. n, rdxAsked[k].kind \in RdxChanges \cup {"get"}
          PROVE  k \in 2 .. n \/ call.kind \in RdxChanges BY <1>0, <1>2, <3>6
    <3> QED BY <1>3, <3>1, <3>2, <3>3, <3>4, <3>5, <3>6
  <2>7. RdxCopyInv' BY <1>6, <1>7, <1>8, <1>10, <2>5, <2>6 DEF RdxCopyInv, RdxIsChange
  <2> QED BY <2>3, <2>4, <2>7
<1> QED BY <1>7, <1>12, <1>13, <1>16, <1>17 DEF RdxInv, RdxStraightInv

LEMMA RdxHearKeeps ==
    ASSUME RdxInv, RdxHear
    PROVE  RdxInv'
<1>0. /\ RdxSettingTypes /\ rdxAnswers # <<>> /\ rdxAnswers \in Seq(RdxCalls)
      /\ rdxAsked \in Seq(RdxCalls) BY DEF RdxHear, RdxInv, RdxSettingTypes
<1>1. PICK a : a = Head(rdxAnswers) OBVIOUS
<1>2. /\ \E m \in Nat : m = Len(rdxAnswers)
      /\ \E u : u = rdxAnswers' /\ u = Tail(rdxAnswers) BY <1>0 DEF RdxHear
<1> PICK m \in Nat : m = Len(rdxAnswers) BY <1>2
<1> PICK u : u = rdxAnswers' /\ u = Tail(rdxAnswers) BY <1>2
<1>3. /\ u \in Seq(RdxCalls) /\ m >= 1 /\ DOMAIN rdxAnswers = 1 .. m /\ DOMAIN u = 1 .. m - 1
      /\ a = rdxAnswers[1] /\ a \in RdxCalls
      /\ \A k \in 1 .. m - 1 : u[k] = rdxAnswers[k + 1] BY <1>0, <1>1, <1>2, RdxTailed
<1>4. /\ a.kind \in {"mode", "toggle", "raw", "get"} /\ a.ok \in BOOLEAN
      /\ a.config \in RdxConfigs \cup {RdxUnknown} /\ a.prev \in RdxConfigs \cup {RdxUnknown}
  BY <1>3, RdxAnswerFields
<1>5. /\ rdxWin' = IF a.kind = "get" THEN a.config
                   ELSE IF a.kind = "mode" /\ ~a.ok THEN a.prev ELSE rdxWin
      /\ rdxPages' = IF RdxTurns(a) THEN [gen |-> rdxPages.gen + 1, held |-> {}] ELSE rdxPages
  BY <1>1 DEF RdxHear, RdxTurns
<1>6. UNCHANGED <<rdxMem, rdxDisk, rdxPut, rdxOpen, rdxRead, rdxAstray>> BY DEF RdxHear
<1>7. PICK get : get = RdxCall("get", RdxUnknown, RdxUnknown, FALSE) OBVIOUS
<1>8. get \in RdxCalls /\ get.ok /\ get.kind = "get" /\ RdxSensible(get)
  BY <1>7 DEF RdxCall, RdxCalls, RdxSensible, RdxChanges
<1>9. \/ rdxAsked' = Append(rdxAsked, get) /\ a.kind \in RdxChanges /\ ~a.ok
      \/ UNCHANGED rdxAsked /\ ~(a.kind \in RdxChanges /\ ~a.ok)
  BY <1>1, <1>7 DEF RdxHear, RdxChanges
<1>10. PICK n \in Nat : n = Len(rdxAsked) BY <1>0
<1>11. PICK t : t = rdxAsked' OBVIOUS
<1>12. /\ t \in Seq(RdxCalls) /\ DOMAIN rdxAsked = 1 .. n
       /\ \A k \in 1 .. n : t[k] = rdxAsked[k]
       /\ \/ DOMAIN t = 1 .. n + 1 /\ t[n + 1] = get /\ a.kind \in RdxChanges /\ ~a.ok
          \/ DOMAIN t = 1 .. n /\ ~(a.kind \in RdxChanges /\ ~a.ok)
       /\ t = <<>> => rdxAsked = <<>>
  <2>1. CASE rdxAsked' = Append(rdxAsked, get) /\ a.kind \in RdxChanges /\ ~a.ok
    BY <1>0, <1>8, <1>10, <1>11, <2>1, RdxAppended
  <2>2. CASE UNCHANGED rdxAsked /\ ~(a.kind \in RdxChanges /\ ~a.ok) BY <1>0, <1>10, <1>11, <2>2
  <2> QED BY <1>9, <2>1, <2>2
<1>13. rdxWin' \in RdxConfigs \cup {RdxUnknown} BY <1>0, <1>4, <1>5 DEF RdxSettingTypes
<1>14. \A k \in DOMAIN u : RdxSensible(u[k])
  <2> SUFFICES ASSUME NEW k \in 1 .. m - 1 PROVE RdxSensible(u[k]) BY <1>3
  <2>1. k + 1 \in DOMAIN rdxAnswers /\ u[k] = rdxAnswers[k + 1] BY <1>3
  <2> QED BY <1>0, <2>1 DEF RdxSettingTypes
<1>15. \A k \in DOMAIN t : RdxSensible(t[k]) /\ t[k].ok
  <2>1. \A k \in 1 .. n : RdxSensible(t[k]) /\ t[k].ok BY <1>0, <1>12 DEF RdxSettingTypes
  <2> QED BY <1>8, <1>12, <2>1
<1>16. rdxPut => t # <<>> /\ 1 \in 1 .. n /\ t[1] = rdxAsked[1]
  <2>1. rdxPut => 1 \in DOMAIN rdxAsked /\ rdxAsked # <<>> BY <1>0 DEF RdxSettingTypes
  <2> QED BY <1>12, <2>1
<1>17. RdxSettingTypes'
  BY <1>0, <1>2, <1>3, <1>6, <1>11, <1>12, <1>13, <1>14, <1>15, <1>16 DEF RdxSettingTypes
<1>18. RdxDiskInv' BY <1>6, <1>11, <1>16 DEF RdxInv, RdxDiskInv
<1>19. RdxTurning => RdxTurns(a) \/ RdxTurning'
  <2> SUFFICES ASSUME NEW j \in 1 .. m, RdxTurns(rdxAnswers[j]) PROVE RdxTurns(a) \/ RdxTurning'
    BY <1>3 DEF RdxTurning
  <2>1. CASE j = 1 BY <1>3, <2>1
  <2>2. CASE j # 1
    <3>1. j - 1 \in 1 .. m - 1 /\ u[j - 1] = rdxAnswers[j] BY <1>3, <2>2
    <3> QED BY <1>2, <1>3, <3>1 DEF RdxTurning
  <2> QED BY <2>1, <2>2
<1>20. RdxReadInv' /\ RdxPageTypes' /\ (~rdxAstray' => RdxPagesInv')
  <2>1. CASE ~RdxTurns(a) BY <1>5, <1>6, <1>19, <2>1, RdxReadsStay
  <2>2. CASE RdxTurns(a)
    <3>1. rdxPages' = [gen |-> rdxPages.gen + 1, held |-> {}] /\ rdxPages.gen \in Nat
      BY <1>5, <2>2 DEF RdxInv, RdxPageTypes
    <3>2. rdxPages'.gen = rdxPages.gen + 1 /\ rdxPages'.held = {} /\ RdxPageTypes'
      BY <1>6, <3>1 DEF RdxInv, RdxPageTypes
    <3>3. ASSUME NEW r \in RdxReaders PROVE RdxRight(r, rdxRead[r])'
      <4>1. RdxRight(r, rdxRead[r]) BY DEF RdxInv, RdxReadInv
      <4>2. CASE rdxRead[r] = RdxIdle BY <1>6, <4>2 DEF RdxRight
      <4>3. CASE rdxRead[r] # RdxIdle BY <1>6, <3>1, <3>2, <4>1, <4>3 DEF RdxRight, RdxBusy
      <4> QED BY <4>2, <4>3
    <3> QED BY <1>6, <3>2, <3>3 DEF RdxReadInv, RdxPagesInv, RdxInv
  <2> QED BY <2>1, <2>2
<1>21. ASSUME ~rdxAstray' PROVE RdxClearInv' /\ RdxChainInv' /\ RdxCopyInv'
  <2>1. RdxClearInv /\ RdxCopyInv /\ RdxChainInv BY <1>6, <1>21 DEF RdxInv, RdxStraightInv
  <2>2. ASSUME NEW k \in DOMAIN t, t[k].kind \in RdxChanges
        PROVE  k \in 1 .. n /\ t[k] = rdxAsked[k] /\ RdxIsChange(k) /\ k \in DOMAIN rdxAsked
    <3>1. k \in 1 .. n BY <1>8, <1>12, <2>2 DEF RdxChanges
    <3> QED BY <1>12, <2>2, <3>1 DEF RdxIsChange
  <2>3. ASSUME NEW k \in DOMAIN t, t[k].kind \in RdxChanges
        PROVE  a.kind # "get" /\ a.ok /\ DOMAIN t = 1 .. n /\ rdxWin' = rdxWin
    <3>1. a.kind # "get" /\ a.ok BY <1>3, <2>1, <2>2, <2>3 DEF RdxClearInv
    <3> QED BY <1>5, <1>12, <3>1
  <2>4. RdxClearInv'
    <3> SUFFICES ASSUME NEW k \in DOMAIN t, t[k].kind \in RdxChanges
                 PROVE  /\ \A j \in 1 .. k - 1 : t[j].kind # "get"
                        /\ \A j \in 1 .. m - 1 : u[j].kind # "get" /\ u[j].ok
      BY <1>2, <1>3, <1>11 DEF RdxClearInv, RdxIsChange
    <3>1. \A j \in 1 .. k - 1 : t[j].kind # "get" BY <1>12, <2>1, <2>2 DEF RdxClearInv
    <3>2. ASSUME NEW j \in 1 .. m - 1 PROVE u[j].kind # "get" /\ u[j].ok
      <4>1. j + 1 \in DOMAIN rdxAnswers /\ u[j] = rdxAnswers[j + 1] BY <1>3
      <4> QED BY <2>1, <2>2, <4>1 DEF RdxClearInv
    <3> QED BY <3>1, <3>2
  <2>5. RdxChainInv'
    <3> SUFFICES ASSUME NEW k \in DOMAIN t, t[k].kind \in RdxChanges
                 PROVE  /\ (\A j \in 1 .. k - 1 : t[j].kind \notin RdxChanges) =>
                              t[k].prev = RdxConfig(rdxMem)
                        /\ \A j \in 1 .. k - 1 :
                             t[j].kind \in RdxChanges
                               /\ (\A i \in j + 1 .. k - 1 : t[i].kind \notin RdxChanges) =>
                                 t[k].prev = t[j].config
                        /\ (\A j \in DOMAIN t : j > k => t[j].kind \notin RdxChanges) =>
                              rdxWin' = t[k].config BY <1>6, <1>11 DEF RdxChainInv, RdxIsChange
    <3>1. k \in 1 .. n /\ t[k] = rdxAsked[k] /\ RdxIsChange(k) /\ k \in DOMAIN rdxAsked
          /\ DOMAIN t = 1 .. n /\ rdxWin' = rdxWin BY <2>2, <2>3
    <3>2. \A j \in 1 .. n : t[j].kind = rdxAsked[j].kind /\ t[j].config = rdxAsked[j].config
      BY <1>12
    <3>3. (\A j \in 1 .. k - 1 : t[j].kind \notin RdxChanges) => t[k].prev = RdxConfig(rdxMem)
      BY <2>1, <3>1, <3>2 DEF RdxChainInv, RdxIsChange
    <3>4. ASSUME NEW j \in 1 .. k - 1, t[j].kind \in RdxChanges,
                 \A i \in j + 1 .. k - 1 : t[i].kind \notin RdxChanges
          PROVE  t[k].prev = t[j].config
      <4>1. /\ j \in 1 .. n /\ t[j].kind = rdxAsked[j].kind
            /\ t[j].config = rdxAsked[j].config BY <3>1, <3>2
      <4>2. RdxIsChange(j) BY <3>4, <4>1 DEF RdxIsChange
      <4>3. ASSUME NEW i \in j + 1 .. k - 1 PROVE ~RdxIsChange(i)
        <5>1. i \in 1 .. n /\ t[i].kind \notin RdxChanges BY <3>1, <3>4, <4>1
        <5> QED BY <3>2, <5>1 DEF RdxIsChange
      <4>4. rdxAsked[k].prev = rdxAsked[j].config BY <2>1, <3>1, <4>2, <4>3 DEF RdxChainInv
      <4> QED BY <3>1, <4>1, <4>4
    <3>5. ASSUME \A j \in DOMAIN t : j > k => t[j].kind \notin RdxChanges
          PROVE  rdxWin' = t[k].config
      <4>1. \A j \in DOMAIN rdxAsked : j > k => ~RdxIsChange(j)
        BY <1>12, <3>1, <3>2, <3>5 DEF RdxIsChange
      <4> QED BY <2>1, <3>1, <4>1 DEF RdxChainInv
    <3> QED BY <3>3, <3>4, <3>5
  <2>6. ASSUME NEW j \in 1 .. m - 1, u[j].kind = "get" PROVE u[j].config = RdxConfig(rdxMem)
    <3>1. j + 1 \in DOMAIN rdxAnswers /\ u[j] = rdxAnswers[j + 1] BY <1>3
    <3> QED BY <2>1, <2>6, <3>1 DEF RdxCopyInv
  <2>7. \/ \E k \in DOMAIN t : t[k].kind \in RdxChanges \cup {"get"}
        \/ \E j \in 1 .. m - 1 : \/ u[j].kind = "get"
                                 \/ u[j].kind \in RdxChanges /\ ~u[j].ok
        \/ rdxWin' \in {RdxUnknown, RdxConfig(rdxMem)}
    <3>1. CASE a.kind = "get"
      <4>1. a.config = RdxConfig(rdxMem) BY <1>3, <2>1, <3>1 DEF RdxCopyInv
      <4> QED BY <1>5, <3>1, <4>1
    <3>2. CASE a.kind \in RdxChanges /\ ~a.ok BY <1>8, <1>12, <3>2
    <3>3. CASE a.kind # "get" /\ ~(a.kind \in RdxChanges /\ ~a.ok)
      <4>1. rdxWin' = rdxWin /\ DOMAIN t = 1 .. n BY <1>5, <1>12, <3>3 DEF RdxChanges
      <4>2. \/ \E k \in 1 .. n : rdxAsked[k].kind \in RdxChanges \cup {"get"}
            \/ \E j \in 1 .. m : \/ rdxAnswers[j].kind = "get"
                                 \/ rdxAnswers[j].kind \in RdxChanges /\ ~rdxAnswers[j].ok
            \/ rdxWin \in {RdxUnknown, RdxConfig(rdxMem)}
        BY <1>3, <1>12, <2>1 DEF RdxCopyInv, RdxIsChange
      <4>3. ASSUME NEW j \in 1 .. m, \/ rdxAnswers[j].kind = "get"
                                     \/ rdxAnswers[j].kind \in RdxChanges /\ ~rdxAnswers[j].ok
            PROVE  \E i \in 1 .. m - 1 : \/ u[i].kind = "get"
                                         \/ u[i].kind \in RdxChanges /\ ~u[i].ok
        <5>1. j # 1 BY <1>3, <3>3, <4>3
        <5>2. j - 1 \in 1 .. m - 1 /\ u[j - 1] = rdxAnswers[j] BY <1>3, <5>1
        <5> QED BY <4>3, <5>2
      <4> QED BY <1>12, <4>1, <4>2, <4>3
    <3> QED BY <3>1, <3>2, <3>3
  <2>8. RdxCopyInv' BY <1>2, <1>3, <1>6, <1>11, <2>6, <2>7 DEF RdxCopyInv, RdxIsChange
  <2> QED BY <2>4, <2>5, <2>8
<1> QED BY <1>6, <1>17, <1>18, <1>20, <1>21 DEF RdxInv, RdxStraightInv

\* No call, no read, no page: what is on disk is what counts.
RdxBlank ==
    /\ rdxMem \in [mode : RdxModes, on : SUBSET RdxAll, raw : BOOLEAN]
    /\ rdxDisk \in [config : RdxConfigs \cup {RdxTorn}, raw : {"on", "off", "torn"}]
    /\ rdxDisk.config \in {RdxTorn, RdxConfig(rdxMem)}
    /\ rdxDisk.raw = "on" => rdxMem.raw
    /\ rdxWin \in {RdxUnknown, RdxConfig(rdxMem)}
    /\ rdxAsked = <<>> /\ rdxAnswers = <<>> /\ ~rdxPut /\ ~rdxAstray
    /\ rdxPut \in BOOLEAN /\ rdxAstray \in BOOLEAN /\ rdxOpen \in {"open", "closing", "closed"}
    /\ rdxPages \in [gen : Nat, held : SUBSET BOOLEAN] /\ rdxPages.held = {}
    /\ rdxRead = [r \in RdxReaders |-> RdxIdle]

LEMMA RdxFresh ==
    ASSUME RdxBlank
    PROVE  RdxInv
<1> USE DEF RdxBlank
<1>1. RdxConfig(rdxMem) \in RdxConfigs BY RdxConfigOf
<1>2. rdxAsked \in Seq(RdxCalls) /\ rdxAnswers \in Seq(RdxCalls)
      /\ DOMAIN rdxAsked = {} /\ DOMAIN rdxAnswers = {}
  OBVIOUS
<1>3. RdxSettingTypes BY <1>1, <1>2 DEF RdxSettingTypes
<1>4. RdxDiskInv /\ RdxPageTypes BY DEF RdxDiskInv, RdxPageTypes
<1>5. RdxStraightInv BY <1>2 DEF RdxStraightInv, RdxClearInv, RdxChainInv, RdxCopyInv, RdxPagesInv
<1>6. RdxReadInv BY DEF RdxReadInv, RdxRight
<1> QED BY <1>3, <1>4, <1>5, <1>6 DEF RdxInv

LEMMA RdxFreshNext == RdxBlank' => RdxInv'
<1>1. RdxBlank => RdxInv BY RdxFresh
<1> QED BY <1>1, PTL

LEMMA RdxRestartKeeps ==
    ASSUME RdxInv, RdxRestart
    PROVE  RdxInv'
<1>0. RdxSettingTypes /\ rdxPages.gen \in Nat BY DEF RdxInv, RdxPageTypes
<1>1. PICK disk : rdxDisk' = disk /\ rdxMem' = RdxLoaded(disk)
         /\ disk \in {rdxDisk} \union
              (IF RdxWriting THEN {RdxHalfWritten(Head(rdxAsked))} ELSE {}) BY DEF RdxRestart
<1>2. disk \in [config : RdxConfigs \cup {RdxTorn}, raw : {"on", "off", "torn"}]
  <2>1. rdxDisk \in [config : RdxConfigs \cup {RdxTorn}, raw : {"on", "off", "torn"}]
    BY <1>0 DEF RdxSettingTypes
  <2>2. disk \in {rdxDisk, [rdxDisk EXCEPT !.raw = "torn"], [rdxDisk EXCEPT !.config = RdxTorn]}
    BY <1>1 DEF RdxHalfWritten
  <2> QED BY <2>1, <2>2
<1>3. PICK config : config = IF disk.config = RdxTorn THEN RdxDefault ELSE disk.config OBVIOUS
<1> PICK raw \in BOOLEAN : raw = (disk.raw = "on") /\ (raw <=> disk.raw = "on") OBVIOUS
<1>4. config \in RdxConfigs /\ disk.config \in {RdxTorn, config} BY <1>2, <1>3, RdxKnown
<1>5. PICK mem : mem = rdxMem' /\ mem = RdxMemory(config, raw) BY <1>1, <1>3 DEF RdxLoaded
<1>6. /\ mem \in [mode : RdxModes, on : SUBSET RdxAll, raw : BOOLEAN]
      /\ RdxConfig(mem) = config /\ (mem.raw <=> raw)
  <2>2. mem.raw <=> raw BY <1>5 DEF RdxMemory
  <2>3. config \in RdxConfigs /\ mem = RdxMemory(config, raw) BY <1>4, <1>5
  <2>4. mem \in [mode : RdxModes, on : SUBSET RdxAll, raw : BOOLEAN]
    BY <2>3 DEF RdxMemory, RdxConfigs
  <2>5. RdxConfig(mem) = config BY <2>3 DEF RdxMemory, RdxConfigs, RdxConfig
  <2> QED BY <2>2, <2>4, <2>5
<1>7. /\ rdxWin' = RdxUnknown /\ rdxAsked' = <<>> /\ rdxAnswers' = <<>> /\ rdxPut' = FALSE
      /\ rdxAstray' = FALSE /\ rdxOpen' = "closed" /\ rdxRead' = [r \in RdxReaders |-> RdxIdle]
      /\ rdxPages' = [gen |-> rdxPages.gen + 1, held |-> {}] BY DEF RdxRestart
<1>8. rdxPages' \in [gen : Nat, held : SUBSET BOOLEAN] /\ rdxPages'.held = {} BY <1>0, <1>7
<1>9. RdxBlank' BY <1>1, <1>2, <1>3, <1>4, <1>5, <1>6, <1>7, <1>8 DEF RdxBlank
<1> QED BY <1>9, RdxFreshNext

LEMMA RdxInitInv ==
    ASSUME RdxInit
    PROVE  RdxInv
<1>1. RdxDefault \in RdxConfigs BY RdxKnown
<1>2. rdxMem = RdxMemory(RdxDefault, FALSE) BY DEF RdxInit
<1>3. /\ rdxMem \in [mode : RdxModes, on : SUBSET RdxAll, raw : BOOLEAN]
      /\ RdxConfig(rdxMem) = RdxDefault BY <1>1, <1>2 DEF RdxMemory, RdxConfig, RdxConfigs
<1>4. /\ rdxDisk \in [config : RdxConfigs \cup {RdxTorn}, raw : {"on", "off", "torn"}]
      /\ rdxDisk.config = RdxDefault /\ rdxDisk.raw = "off" BY <1>1 DEF RdxInit
<1>5. /\ rdxWin = RdxDefault /\ rdxAsked = <<>> /\ rdxAnswers = <<>> /\ rdxPut = FALSE
      /\ rdxAstray = FALSE /\ rdxOpen = "open" /\ rdxRead = [r \in RdxReaders |-> RdxIdle]
      /\ rdxPages = [gen |-> 0, held |-> {}] BY DEF RdxInit
<1>6. rdxPages \in [gen : Nat, held : SUBSET BOOLEAN] /\ rdxPages.held = {} BY <1>5
<1> QED BY <1>3, <1>4, <1>5, <1>6, RdxFresh DEF RdxBlank

LEMMA RdxStutters ==
    ASSUME RdxInv, UNCHANGED rdxVars
    PROVE  RdxInv'
<1> USE DEF rdxVars
<1>1. RdxTurning' = RdxTurning BY DEF RdxTurning
<1>2. RdxReadInv' /\ RdxPageTypes' /\ (~rdxAstray' => RdxPagesInv') BY <1>1, RdxReadsStay
<1>3. rdxOpen' \in {"open", "closing", "closed"} /\ UNCHANGED rdxSettings
  BY DEF RdxInv, RdxPageTypes, rdxSettings
<1>4. /\ RdxSettingTypes' /\ RdxDiskInv' /\ rdxAstray' = rdxAstray
      /\ ~rdxAstray => RdxClearInv' /\ RdxChainInv' /\ RdxCopyInv' BY <1>3, RdxSettingsStay
<1> QED BY <1>2, <1>4 DEF RdxInv, RdxStraightInv

\* The inductive invariant of the gate, its pages and the settings file.
THEOREM RdxInvariant == RdxSpec => []RdxInv
<1>1. RdxInit => RdxInv BY RdxInitInv
<1>2. RdxInv /\ [RdxNext]_rdxVars => RdxInv'
  <2> SUFFICES ASSUME RdxInv, [RdxNext]_rdxVars PROVE RdxInv' OBVIOUS
  <2>1. ASSUME NEW r \in RdxReaders,
               \/ RdxBegin(r) \/ RdxReadMode(r) \/ RdxReadFlag(r) \/ RdxCollect(r)
               \/ RdxCopy(r) \/ RdxPassRaws(r) \/ RdxPassMessages(r) \/ RdxTake(r)
        PROVE  RdxInv'
    BY <2>1, RdxBeginKeeps, RdxReadModeKeeps, RdxReadFlagKeeps, RdxCollectKeeps, RdxCopyKeeps,
      RdxPassRawsKeeps, RdxPassMessagesKeeps, RdxTakeKeeps
  <2>2. CASE RdxClose \/ RdxDrop \/ RdxOpenAgain BY <2>2, RdxSessionKeeps
  <2>3. CASE RdxSetMode \/ RdxToggle BY <2>3, RdxSetKeeps
  <2>4. CASE RdxSetRaw \/ RdxRefresh BY <2>4, RdxOtherCallsKeep
  <2>5. CASE RdxGet \/ RdxPersist \/ RdxPersistFails \/ RdxStore \/ RdxHear
    BY <2>5, RdxGetKeeps, RdxPersistKeeps, RdxPersistFailsKeeps, RdxStoreKeeps, RdxHearKeeps
  <2>6. CASE RdxRestart BY <2>6, RdxRestartKeeps
  <2>7. CASE UNCHANGED rdxVars BY <2>7, RdxStutters
  <2> QED BY <2>1, <2>2, <2>3, <2>4, <2>5, <2>6, <2>7 DEF RdxNext
<1> QED BY <1>1, <1>2, PTL DEF RdxSpec

\* Type correctness: settings, files, the window's copy and pages keep
\* their types, whatever detectors and pages there are.
THEOREM RdxTypeCorrect == RdxSpec => []RdxTypeOK
<1>1. RdxInv => RdxTypeOK BY DEF RdxInv, RdxSettingTypes, RdxPageTypes, RdxTypeOK, RdxConfigs
<1> QED BY <1>1, RdxInvariant, PTL

\* For any readers, detectors, pages and numbers of calls, failures and
\* crashes: no pass over an agent's page is left out unless the settings
\* allowed raw text at some moment of its call, a restart allows no more
\* than was allowed, and the window settles on the settings there are
\* (services/policy.rs, services/settings.rs, settingsStore.ts).
THEOREM RdxGatesHold == RdxSpec => []RdxGateSound
<1>1. ASSUME RdxInv PROVE RdxAgentGated
  <2> SUFFICES ASSUME NEW r \in RdxReaders, r = "agent", rdxRead[r].at = "answered", ~rdxRead[r].may
               PROVE  /\ rdxRead[r].used # <<>>
                      /\ RdxOwn(rdxRead[r].raws) # {} => Len(rdxRead[r].used) = 2
    BY DEF RdxAgentGated
  <2>1. RdxGated(rdxRead[r]) BY <1>1 DEF RdxInv, RdxReadInv, RdxRight, RdxIdle
  <2> QED BY <2>1 DEF RdxGated
<1>2. ASSUME RdxInv PROVE RdxRestartSafe
  <2> SUFFICES ASSUME RdxAllows(RdxLoaded(rdxDisk)), ~rdxPut PROVE RdxAllows(rdxMem)
    BY DEF RdxRestartSafe
  <2>1. /\ rdxDisk.config \in {RdxTorn, RdxConfig(rdxMem)} /\ (rdxDisk.raw = "on" => rdxMem.raw)
        /\ rdxMem \in [mode : RdxModes, on : SUBSET RdxAll, raw : BOOLEAN]
    BY <1>2 DEF RdxInv, RdxDiskInv, RdxSettingTypes
  <2>2. PICK config : config = IF rdxDisk.config = RdxTorn THEN RdxDefault ELSE rdxDisk.config
    OBVIOUS
  <2>3. config.mode = "none" => rdxMem.mode = "none"
    <3>1. RdxDefault.mode = "external" BY DEF RdxDefault
    <3>2. RdxConfig(rdxMem).mode = rdxMem.mode BY DEF RdxConfig
    <3> QED BY <2>1, <2>2, <3>1, <3>2
  <2>4. config.mode = "none" \/ rdxDisk.raw = "on" BY <2>2 DEF RdxAllows, RdxLoaded, RdxMemory
  <2> QED BY <2>1, <2>3, <2>4 DEF RdxAllows
<1>3. ASSUME RdxInv PROVE RdxWindowAgrees
  <2> SUFFICES ASSUME rdxAsked = <<>>, rdxAnswers = <<>>, ~rdxAstray
               PROVE  /\ rdxWin \in {RdxUnknown, RdxConfig(rdxMem)}
                      /\ rdxPages.held \subseteq {rdxMem.mode = "all"} BY DEF RdxWindowAgrees
  <2>1. RdxCopyInv /\ RdxPagesInv BY <1>3 DEF RdxInv, RdxStraightInv
  <2>2. DOMAIN rdxAsked = {} /\ DOMAIN rdxAnswers = {} OBVIOUS
  <2> QED BY <2>1, <2>2 DEF RdxCopyInv, RdxPagesInv, RdxTurning
<1>4. RdxInv => RdxGateSound BY <1>1, <1>2, <1>3 DEF RdxGateSound
<1> QED BY <1>4, RdxInvariant, PTL

----------------------------------------
\* Runs of a session's chain: a stop reaches the runs it was meant for, and
\* the three result maps agree.

\* A reopen that has not inserted its session yet has room for one, and
\* only a reopen inserts and restores.
RunCloserInv ==
    /\ runCloser.pc \in {"sessions", "tracker", "correlator", "reporter", "meta", "locks", "insert"}
         /\ runCloser.reopen => runOpened < RunMaxInst
    /\ runCloser.pc \in {"insert", "restore"} => runCloser.reopen

RunTypeInv == RunTypeOK /\ RunCloserInv

\* What a command that returns leaves behind has its type.
RunLocals == [pc : {"idle", "done"} \cup RunWaiting \cup RunInside,
              lock : Nat, want : SUBSET RunProcs, read : RunChains,
              ids : SUBSET RunProcs, chunks : Nat,
              answer : {"none", "ok", "cancelled", "error"}]

\* Setting the fields of one run's locals to values of their types.
LEMMA RunSetRead ==
  ASSUME NEW r \in RunLocals, NEW chain \in RunChains
  PROVE  [r EXCEPT !.pc = "commit", !.read = chain] \in RunLocals BY DEF RunLocals, RunInside

LEMMA RunSetIds ==
  ASSUME NEW r \in RunLocals, NEW ids \in SUBSET RunProcs
  PROVE  [r EXCEPT !.pc = "gate", !.ids = ids] \in RunLocals BY DEF RunLocals, RunInside

LEMMA RunSetLock ==
  ASSUME NEW r \in RunLocals, NEW lock \in Nat, NEW want \in SUBSET RunProcs
  PROVE  [r EXCEPT !.pc = "register", !.lock = lock, !.want = want] \in RunLocals
  BY DEF RunLocals, RunWaiting

LEMMA RunIdleType == RunIdle \in RunLocals BY DEF RunIdle, RunLocals, RunNoChain, RunChains

LEMMA RunReturnType ==
  ASSUME RunTypeOK, NEW c \in RunCalls, NEW a \in {"ok", "cancelled", "error"}, RunReturn(c, a)
  PROVE  /\ runCall' \in [RunCalls -> RunLocals]
         /\ runTokens' \subseteq RunCalls /\ runCancel' \subseteq RunCalls
  <1>1. [RunIdle EXCEPT !.pc = "done", !.answer = a, !.chunks = runCall[c].chunks] \in RunLocals
    BY RunIdleType DEF RunTypeOK, RunLocals, RunIdle
  <1> QED BY <1>1 DEF RunReturn, RunTypeOK, RunLocals

LEMMA RunNoChainType == RunNoChain \in RunChains BY DEF RunNoChain, RunChains

LEMMA RunTypeInit == RunInit => RunTypeInv
  <1> SUFFICES ASSUME RunInit PROVE RunTypeInv OBVIOUS
  <1>1. runCall \in [RunCalls -> RunLocals] BY RunIdleType DEF RunInit
  <1>2. runStore \in [RunMaps -> RunCalls \cup {RunNobody}] /\ runChain \in RunChains
    BY RunNoChainType DEF RunInit
  <1>3. /\ runCloser = [pc |-> "idle", reopen |-> FALSE, meta |-> RunNoChain]
        /\ RunNoChain \in RunChains BY RunNoChainType DEF RunInit, RunNoCloser
  <1>4. runInst \in 0..RunMaxInst /\ runOpened \in 0..RunMaxInst /\ runEdits \in 0..RunMaxEdits
    BY RunAssumption DEF RunInit
  <1>5. RunTypeOK
    <2>1. runCloser \in [pc : {"idle", "sessions", "tracker", "correlator", "reporter", "meta",
                               "locks", "insert", "restore"},
                         reopen : BOOLEAN, meta : RunChains] BY <1>3
    <2>2. /\ runTokens \subseteq RunCalls /\ runCancel \subseteq RunCalls
          /\ runStopped \subseteq RunCalls /\ runTorn \in BOOLEAN
          /\ runLock \in Nat /\ runLocks \in Nat BY DEF RunInit
    <2> HIDE DEF RunInit
    <2> QED BY <1>1, <1>2, <1>4, <2>1, <2>2 DEF RunTypeOK, RunLocals
  <1>6. RunCloserInv BY <1>3 DEF RunCloserInv
  <1> QED BY <1>5, <1>6 DEF RunTypeInv

LEMMA RunCallType ==
  ASSUME RunTypeInv, NEW c \in RunCalls, RunStep(c)
  PROVE  RunTypeInv'
  <1> USE DEF RunTypeInv, RunTypeOK, RunCloserInv, runSession, runRegistry, runMeta, runHistory,
              RunAt, RunGo, RunWaiting, RunInside, RunLocals
  <1>1. CASE RunRegister(c) BY <1>1 DEF RunRegister
  <1>2. CASE RunAcquire(c) BY <1>2 DEF RunAcquire
  <1>3. CASE RunResolve(c)
    BY <1>3, RunReturnType, RunAssumption DEF RunResolve, RunResolvable, RunEffective, RunChains
  <1>4. CASE RunPatchEnsure(c) BY <1>4, RunReturnType DEF RunPatchEnsure
  <1>5. CASE RunPatchRead(c)
    <2>1. [runCall[c] EXCEPT !.pc = "commit", !.read = runChain] \in RunLocals BY RunSetRead
    <2>2. runCall' = [runCall EXCEPT ![c] = [runCall[c] EXCEPT !.pc = "commit", !.read = runChain]]
      BY <1>5 DEF RunPatchRead
    <2>3. runCall' \in [RunCalls -> RunLocals] BY <2>1, <2>2
    <2> QED BY <1>5, <2>3 DEF RunPatchRead
  <1>6. CASE RunPatchCommit(c)
    <2>1. runCall[c].read \in RunChains /\ runCall[c].ids \in SUBSET RunProcs OBVIOUS
    <2>2. RunPatched(runCall[c].read, runCall[c].ids) \in RunChains
      BY <2>1 DEF RunPatched, RunChains
    <2> QED BY <1>6, <2>2 DEF RunPatchCommit
  <1>7. CASE RunResolveAgain(c)
    <2>1. RunEffective({}) \in SUBSET RunProcs BY RunAssumption DEF RunEffective
    <2>2. [runCall[c] EXCEPT !.pc = "gate", !.ids = RunEffective({})] \in RunLocals
      BY <2>1, RunSetIds
    <2>3. CASE RunResolvable({})
      <3>1. runCall' = [runCall EXCEPT
                          ![c] = [runCall[c] EXCEPT !.pc = "gate", !.ids = RunEffective({})]]
        BY <1>7, <2>3 DEF RunResolveAgain
      <3> QED BY <1>7, <2>2, <2>3, <3>1 DEF RunResolveAgain
    <2>4. CASE ~RunResolvable({}) BY <1>7, <2>4, RunReturnType DEF RunResolveAgain
    <2> QED BY <2>3, <2>4
  <1>8. CASE RunGate(c) BY <1>8, RunReturnType DEF RunGate
  <1>9. CASE RunSnapshot(c) BY <1>9, RunReturnType DEF RunSnapshot
  <1>10. CASE RunChunk(c) BY <1>10 DEF RunChunk
  <1>11. CASE RunStoreOne(c, "tracker", "correlator") BY <1>11 DEF RunStoreOne, RunMaps
  <1>12. CASE RunStoreOne(c, "correlator", "reporter") BY <1>12 DEF RunStoreOne, RunMaps
  <1>13. CASE RunStoreLast(c) BY <1>13, RunReturnType DEF RunStoreLast, RunMaps
  <1> QED BY <1>1, <1>2, <1>3, <1>4, <1>5, <1>6, <1>7, <1>8, <1>9, <1>10, <1>11, <1>12, <1>13 DEF RunStep

LEMMA RunUserType ==
  ASSUME RunTypeInv,
         \/ \E c \in RunCalls, want \in SUBSET RunProcs : RunStart(c, want)
         \/ \E active, disabled \in SUBSET RunProcs : RunEditChain(active, disabled)
         \/ RunStop
         \/ \E reopen \in BOOLEAN : RunClose(reopen)
  PROVE  RunTypeInv'
  <1> USE DEF RunTypeInv, RunTypeOK, RunCloserInv, runSession, runRegistry, runMeta, runHistory,
              RunAt, RunWaiting, RunInside, RunLocals
  <1>1. ASSUME NEW c \in RunCalls, NEW want \in SUBSET RunProcs, RunStart(c, want)
        PROVE  RunTypeInv'
    <2> DEFINE lock == IF runLock = 0 THEN runLocks + 1 ELSE runLock
               r == [runCall[c] EXCEPT !.pc = "register", !.lock = lock, !.want = want]
    <2>1. lock \in Nat OBVIOUS
    <2>2. r \in RunLocals
      <3>1. runCall[c] \in RunLocals OBVIOUS
      <3> QED BY <2>1, <3>1, RunSetLock
    <2>3. runCall' = [runCall EXCEPT ![c] = r] BY <1>1 DEF RunStart
    <2>4. runCall' \in [RunCalls -> RunLocals] BY <2>2, <2>3
    <2>5. /\ runLock' \in Nat /\ runLocks' \in Nat
          /\ UNCHANGED <<runInst, runOpened, runTokens, runCancel, runChain, runEdits, runStore,
                         runCloser, runStopped, runTorn>> BY <1>1, <2>1 DEF RunStart
    <2> QED BY <2>4, <2>5
  <1>2. ASSUME NEW active \in SUBSET RunProcs, NEW disabled \in SUBSET RunProcs,
               RunEditChain(active, disabled)
        PROVE  RunTypeInv' BY <1>2, RunAssumption DEF RunEditChain, RunCommitted, RunChains
  <1>3. CASE RunStop BY <1>3 DEF RunStop
  <1>4. ASSUME NEW reopen \in BOOLEAN, RunClose(reopen)
        PROVE  RunTypeInv' BY <1>4 DEF RunClose, RunNoChain, RunChains
  <1> QED BY <1>1, <1>2, <1>3, <1>4

LEMMA RunCloserType ==
  ASSUME RunTypeInv, RunCloserStep
  PROVE  RunTypeInv'
  <1> USE RunAssumption DEF RunTypeInv, RunTypeOK, RunCloserInv, runSession, runRegistry, runMeta,
              RunCloserAt, RunNoCloser, RunNoChain, RunChains
  <1>1. CASE RunCloseSession BY <1>1 DEF RunCloseSession
  <1>2. CASE RunCloseMap("tracker", "correlator") BY <1>2 DEF RunCloseMap
  <1>3. CASE RunCloseMap("correlator", "reporter") BY <1>3 DEF RunCloseMap
  <1>4. CASE RunCloseMap("reporter", "meta") BY <1>4 DEF RunCloseMap
  <1>5. CASE RunCloseMeta BY <1>5 DEF RunCloseMeta
  <1>6. CASE RunCloseLocks BY <1>6 DEF RunCloseLocks
  <1>7. CASE RunReopenInsert BY <1>7 DEF RunReopenInsert
  <1>8. CASE RunReopenRestore BY <1>8 DEF RunReopenRestore
  <1> QED BY <1>1, <1>2, <1>3, <1>4, <1>5, <1>6, <1>7, <1>8 DEF RunCloserStep

LEMMA RunTypeStep == RunTypeInv /\ [RunNext]_runVars => RunTypeInv'
  <1> SUFFICES ASSUME RunTypeInv, [RunNext]_runVars PROVE RunTypeInv' OBVIOUS
  <1>1. CASE RunNext BY <1>1, RunCallType, RunUserType, RunCloserType DEF RunNext
  <1>2. CASE UNCHANGED runVars
    BY <1>2 DEF runVars, runSession, runRegistry, runMeta, runHistory, RunTypeInv, RunTypeOK,
      RunCloserInv
  <1> QED BY <1>1, <1>2

\* Every variable of the runs and of the close keeps its type.
THEOREM RunTypeCorrect == RunSpec => []RunTypeOK
  <1>1. RunTypeInv => RunTypeOK BY DEF RunTypeInv
  <1> QED BY <1>1, RunTypeInit, RunTypeStep, PTL DEF RunSpec
----------------------------------------
\* A run that waits for the lock or holds it has its token registered, so a
\* stop reaches it; and a run that was stopped is cancelled until it is
\* over.
RunStopInv ==
    \A c \in RunCalls :
      /\ runCall[c].pc \in RunInside \cup {"queued"} => c \in runTokens
      /\ c \in runStopped => c \in runCancel \/ runCall[c].pc = "done"

LEMMA RunStopInit == RunInit => RunStopInv BY DEF RunInit, RunStopInv, RunIdle, RunInside

\* A run that returns is over, with the chunks it has processed.
LEMMA RunReturned ==
  ASSUME RunTypeOK, NEW c \in RunCalls, NEW a, RunReturn(c, a)
  PROVE  /\ runCall'[c].pc = "done" /\ runCall'[c].chunks = runCall[c].chunks
         /\ \A d \in RunCalls \ {c} : runCall'[d] = runCall[d]
         /\ runTokens' = runTokens \ {c} /\ runCancel' = runCancel \ {c}
  BY DEF RunReturn, RunTypeOK, RunIdle

\* Neither is disturbed by a step of a run that only moves on.
LEMMA RunMovesOn ==
  ASSUME RunTypeOK, RunStopInv, NEW c \in RunCalls, RunAt(c, "resolve") \/ RunAt(c, "again"),
         runCall'[c].pc \in RunInside, runCall'[c].chunks = runCall[c].chunks,
         \A d \in RunCalls \ {c} : runCall'[d] = runCall[d],
         UNCHANGED <<runTokens, runCancel, runStopped>>
  PROVE  RunStopInv' BY DEF RunStopInv, RunAt, RunInside

LEMMA RunStopCall ==
  ASSUME RunTypeOK, RunStopInv, NEW c \in RunCalls, RunStep(c)
  PROVE  RunStopInv' /\ (c \in runStopped => runCall'[c].chunks = runCall[c].chunks)
                     /\ \A d \in RunCalls \ {c} : runCall'[d] = runCall[d]
  <1> USE DEF RunTypeOK, RunStopInv, runSession, runRegistry, runMeta, runHistory,
              RunAt, RunGo, RunInside
  <1>1. CASE RunRegister(c) BY <1>1 DEF RunRegister
  <1>2. CASE RunAcquire(c) BY <1>2 DEF RunAcquire
  <1>3. CASE RunResolve(c)
    <2>1. CASE RunReturn(c, "error") BY <1>3, <2>1, RunReturned DEF RunResolve
    <2>2. CASE ~RunReturn(c, "error")
      <3>1. /\ runCall'[c].pc \in RunInside /\ runCall'[c].chunks = runCall[c].chunks
            /\ \A d \in RunCalls \ {c} : runCall'[d] = runCall[d]
            /\ UNCHANGED <<runTokens, runCancel, runStopped>> BY <1>3, <2>2 DEF RunResolve
      <3> QED BY <1>3, <3>1, RunMovesOn DEF RunResolve
    <2> QED BY <2>1, <2>2
  <1>4. CASE RunPatchEnsure(c) BY <1>4, RunReturned DEF RunPatchEnsure
  <1>5. CASE RunPatchRead(c) BY <1>5 DEF RunPatchRead
  <1>6. CASE RunPatchCommit(c) BY <1>6 DEF RunPatchCommit
  <1>7. CASE RunResolveAgain(c)
    <2>1. CASE RunReturn(c, "error") BY <1>7, <2>1, RunReturned DEF RunResolveAgain
    <2>2. CASE ~RunReturn(c, "error")
      <3>1. /\ runCall'[c].pc \in RunInside /\ runCall'[c].chunks = runCall[c].chunks
            /\ \A d \in RunCalls \ {c} : runCall'[d] = runCall[d]
            /\ UNCHANGED <<runTokens, runCancel, runStopped>> BY <1>7, <2>2 DEF RunResolveAgain
      <3> QED BY <1>7, <3>1, RunMovesOn DEF RunResolveAgain
    <2> QED BY <2>1, <2>2
  <1>8. CASE RunGate(c) BY <1>8, RunReturned DEF RunGate
  <1>9. CASE RunSnapshot(c) BY <1>9, RunReturned DEF RunSnapshot
  <1>10. CASE RunChunk(c) BY <1>10 DEF RunChunk
  <1>11. CASE RunStoreOne(c, "tracker", "correlator") BY <1>11 DEF RunStoreOne
  <1>12. CASE RunStoreOne(c, "correlator", "reporter") BY <1>12 DEF RunStoreOne
  <1>13. CASE RunStoreLast(c) BY <1>13, RunReturned DEF RunStoreLast
  <1> QED BY <1>1, <1>2, <1>3, <1>4, <1>5, <1>6, <1>7, <1>8, <1>9, <1>10, <1>11, <1>12, <1>13 DEF RunStep

\* What the user and a close do leaves every run's chunks alone.
LEMMA RunStopUser ==
  ASSUME RunTypeOK, RunStopInv,
         \/ \E c \in RunCalls, want \in SUBSET RunProcs : RunStart(c, want)
         \/ \E active, disabled \in SUBSET RunProcs : RunEditChain(active, disabled)
         \/ RunStop \/ RunCloserStep
         \/ \E reopen \in BOOLEAN : RunClose(reopen)
  PROVE  RunStopInv' /\ \A d \in RunCalls : runCall'[d].chunks = runCall[d].chunks
  <1> USE DEF RunStopInv, runSession, runRegistry, runMeta, runHistory, RunAt, RunInside
  <1>1. ASSUME NEW c \in RunCalls, NEW want \in SUBSET RunProcs, RunStart(c, want)
        PROVE  RunStopInv' /\ \A d \in RunCalls : runCall'[d].chunks = runCall[d].chunks
    <2>1. /\ runCall'[c].pc = "register" /\ runCall[c].pc = "idle"
          /\ \A d \in RunCalls : runCall'[d].chunks = runCall[d].chunks
          /\ \A d \in RunCalls \ {c} : runCall'[d] = runCall[d]
          /\ UNCHANGED <<runTokens, runCancel, runStopped>>
      BY ZenonT(30), <1>1 DEF RunStart, RunTypeOK
    <2> QED BY <2>1
  <1>2. ASSUME NEW active \in SUBSET RunProcs, NEW disabled \in SUBSET RunProcs,
               RunEditChain(active, disabled)
        PROVE  RunStopInv' /\ runCall' = runCall BY <1>2 DEF RunEditChain
  <1>3. CASE RunStop BY <1>3 DEF RunStop
  <1>4. CASE RunCloserStep
    BY <1>4 DEF RunCloserStep, RunCloserAt, RunCloseSession, RunCloseMap, RunCloseMeta,
      RunCloseLocks, RunReopenInsert, RunReopenRestore
  <1>5. ASSUME NEW reopen \in BOOLEAN, RunClose(reopen)
        PROVE  RunStopInv' /\ runCall' = runCall BY <1>5 DEF RunClose
  <1> QED BY <1>1, <1>2, <1>3, <1>4, <1>5

LEMMA RunStopStep ==
  RunTypeOK /\ RunStopInv /\ [RunNext]_runVars =>
    RunStopInv' /\ \A c \in runStopped : runCall'[c].chunks = runCall[c].chunks
  <1> SUFFICES ASSUME RunTypeOK, RunStopInv, [RunNext]_runVars
               PROVE  RunStopInv' /\ \A c \in runStopped : runCall'[c].chunks = runCall[c].chunks
    OBVIOUS
  <1>1. runStopped \subseteq RunCalls BY DEF RunTypeOK
  <1>2. ASSUME NEW c \in RunCalls, RunStep(c)
        PROVE  RunStopInv' /\ \A d \in runStopped : runCall'[d].chunks = runCall[d].chunks
    BY <1>1, <1>2, RunStopCall
  <1>3. CASE UNCHANGED runVars
    BY <1>3 DEF runVars, runSession, runRegistry, runMeta, runHistory, RunStopInv
  <1> QED BY <1>1, <1>2, <1>3, RunStopUser DEF RunNext

\* A run that was queued or executing when the user pressed stop processes
\* no further chunk (services/pipeline.rs:472).
THEOREM RunStopIsHeard == RunSpec => RunStopReaches
  <1>1. RunInit => RunStopInv BY RunStopInit
  <1>2. RunTypeOK /\ RunStopInv /\ [RunNext]_runVars => RunStopInv' BY RunStopStep
  <1>3. RunTypeOK /\ RunStopInv /\ [RunNext]_runVars =>
          [\A c \in runStopped : runCall'[c].chunks = runCall[c].chunks]_runVars BY RunStopStep
  <1> QED BY <1>1, <1>2, <1>3, RunTypeCorrect, PTL DEF RunSpec, RunStopReaches
----------------------------------------
\* While no step of a close falls into a run: the runs under way share the
\* lock object of the registry, so one of them is inside at most; ...
RunInsideRuns == {c \in RunCalls : runCall[c].pc \in RunInside}

RunLockInv ==
    /\ \A c \in RunCalls : runCall[c].pc \in RunWaiting \cup RunInside =>
         runCall[c].lock = runLock /\ runLock # 0
    /\ \A c, d \in RunInsideRuns : c = d

\* ... a run past its look at the session has it open; ...
RunOpenInv ==
    /\ \A c \in RunCalls : runCall[c].pc \in {"chunk", "tracker", "correlator", "reporter"} =>
         runInst # 0 /\ runCloser.pc \in {"idle", "sessions", "restore"}
    /\ runCloser.pc \in {"tracker", "correlator", "reporter", "meta", "locks", "insert"} =>
         runInst = 0

\* ... and where the maps do not agree, a run or a close is halfway through
\* them.
RunMapsAre(t, c, r) ==
    runStore["tracker"] = t /\ runStore["correlator"] = c /\ runStore["reporter"] = r

RunMapsInv ==
    /\ \A c \in RunCalls :
         /\ runCall[c].pc = "correlator" => runStore["tracker"] = c
         /\ runCall[c].pc = "reporter" => runStore["tracker"] = c /\ runStore["correlator"] = c
    /\ ~RunStoring /\ runCloser.pc \in {"idle", "sessions", "tracker", "restore"} =>
         \E c \in RunCalls \cup {RunNobody} : RunMapsAre(c, c, c)
    /\ runCloser.pc = "correlator" => \E c \in RunCalls \cup {RunNobody} : RunMapsAre(RunNobody, c, c)
    /\ runCloser.pc = "reporter" => \E c \in RunCalls \cup {RunNobody} : RunMapsAre(RunNobody, RunNobody, c)
    /\ runCloser.pc \in {"meta", "locks", "insert"} => RunMapsAre(RunNobody, RunNobody, RunNobody)
    /\ runInst = 0 /\ runCloser.pc = "idle" => RunMapsAre(RunNobody, RunNobody, RunNobody)
    /\ runCloser.pc \in {"sessions", "restore"} => runInst # 0

RunAgreeInv == ~runTorn => RunLockInv /\ RunOpenInv /\ RunMapsInv

LEMMA RunAgreeInit == RunInit => RunAgreeInv
  <1> SUFFICES ASSUME RunInit PROVE RunAgreeInv OBVIOUS
  <1>1. \A c \in RunCalls : runCall[c].pc = "idle" BY DEF RunInit, RunIdle
  <1>2. RunMapsAre(RunNobody, RunNobody, RunNobody) /\ runInst = 1 /\ runCloser.pc = "idle"
    BY DEF RunInit, RunMapsAre, RunMaps, RunNoCloser
  <1> QED BY <1>1, <1>2 DEF RunAgreeInv, RunLockInv, RunOpenInv, RunMapsInv, RunInsideRuns,
                      RunWaiting, RunInside

\* A run that stays inside, or leaves, without a store keeps the agreement.
LEMMA RunAgreeInside ==
  ASSUME RunTypeOK, RunAgreeInv, ~runTorn, NEW c \in RunCalls,
         runCall[c].pc \in RunInside \ {"correlator", "reporter"},
         \/ runCall'[c].pc = "done"
         \/ /\ runCall'[c].pc \in RunInside \ {"correlator", "reporter"}
            /\ runCall'[c].lock = runCall[c].lock
            /\ runCall'[c].pc \in {"chunk", "tracker"} =>
                 runInst # 0 \/ runCall[c].pc \in {"chunk", "tracker"},
         \A d \in RunCalls \ {c} : runCall'[d] = runCall[d],
         UNCHANGED <<runInst, runLock, runStore, runCloser, runTorn>>
  PROVE  RunAgreeInv'
  <1>1. RunLockInv /\ RunOpenInv /\ RunMapsInv BY DEF RunAgreeInv
  <1>2. RunInsideRuns' \subseteq RunInsideRuns BY DEF RunInsideRuns
  <1>3. RunLockInv' BY <1>1, <1>2 DEF RunLockInv, RunWaiting, RunInside
  <1>4. runCloser.pc \in {"tracker", "correlator", "reporter", "meta", "locks", "insert"} =>
          runInst = 0 BY <1>1 DEF RunOpenInv
  <1>5. RunOpenInv'
    <2>1. runInst # 0 => runCloser.pc \in {"idle", "sessions", "restore"} BY <1>4 DEF RunTypeOK
    <2>2. ASSUME NEW d \in RunCalls,
                 runCall'[d].pc \in {"chunk", "tracker", "correlator", "reporter"}
          PROVE  runInst # 0
      <3>1. CASE d = c BY <1>1, <2>2, <3>1 DEF RunOpenInv
      <3>2. CASE d # c BY <1>1, <2>2, <3>2 DEF RunOpenInv
      <3> QED BY <3>1, <3>2
    <2> QED BY <1>4, <2>1, <2>2 DEF RunOpenInv
  <1>6. RunStoring' <=> RunStoring BY DEF RunStoring
  <1>7. RunMapsInv' BY <1>1, <1>6 DEF RunMapsInv, RunMapsAre, RunInside
  <1> QED BY <1>3, <1>5, <1>7 DEF RunAgreeInv

LEMMA RunAgreeCall ==
  ASSUME RunTypeInv, RunAgreeInv, ~runTorn, NEW c \in RunCalls, RunStep(c)
  PROVE  RunAgreeInv'
  <1> USE DEF RunTypeInv, RunTypeOK, runSession, runRegistry, runMeta, runHistory, RunAt, RunGo
  <1>0. RunLockInv /\ RunOpenInv /\ RunMapsInv BY DEF RunAgreeInv
  <1>1. CASE RunRegister(c)
    <2>1. /\ runCall[c].pc = "register" /\ runCall'[c].pc = "queued"
          /\ runCall'[c].lock = runCall[c].lock
          /\ \A d \in RunCalls \ {c} : runCall'[d] = runCall[d]
          /\ UNCHANGED <<runInst, runLock, runStore, runCloser, runTorn>> BY <1>1 DEF RunRegister
    <2>2. RunInsideRuns' = RunInsideRuns BY <2>1 DEF RunInsideRuns, RunInside
    <2>3. RunStoring' <=> RunStoring BY <2>1 DEF RunStoring
    <2> QED BY <1>0, <2>1, <2>2, <2>3 DEF RunAgreeInv, RunLockInv, RunOpenInv, RunMapsInv,
      RunMapsAre, RunWaiting
  <1>2. CASE RunAcquire(c)
    <2>1. /\ runCall[c].pc = "queued" /\ runCall'[c].pc = "resolve"
          /\ runCall'[c].lock = runCall[c].lock
          /\ \A d \in RunCalls \ {c} : runCall'[d] = runCall[d]
          /\ UNCHANGED <<runInst, runLock, runStore, runCloser, runTorn>> BY <1>2 DEF RunAcquire
    <2>2. RunInsideRuns = {}
      BY <1>0, <1>2 DEF RunInsideRuns, RunAcquire, RunLockFree, RunLockInv, RunWaiting
    <2>3. RunInsideRuns' \subseteq {c} BY <2>1, <2>2 DEF RunInsideRuns
    <2>4. RunStoring' <=> RunStoring BY <2>1 DEF RunStoring
    <2> QED BY <1>0, <2>1, <2>3, <2>4 DEF RunAgreeInv, RunLockInv, RunOpenInv, RunMapsInv,
      RunMapsAre, RunWaiting, RunInside
  <1>3. CASE RunResolve(c)
    <2>1. CASE RunReturn(c, "error")
      BY <1>3, <2>1, RunReturned, RunAgreeInside DEF RunResolve, RunInside
    <2>2. CASE ~RunReturn(c, "error")
      <3>1. /\ runCall'[c].pc \in {"ensure", "gate"} /\ runCall'[c].lock = runCall[c].lock
            /\ \A d \in RunCalls \ {c} : runCall'[d] = runCall[d] BY <1>3, <2>2 DEF RunResolve
      <3> QED BY <1>3, <3>1, RunAgreeInside DEF RunResolve, RunInside
    <2> QED BY <2>1, <2>2
  <1>4. CASE RunPatchEnsure(c) BY <1>4, RunReturned, RunAgreeInside DEF RunPatchEnsure, RunInside
  <1>5. CASE RunPatchRead(c) BY <1>5, RunAgreeInside DEF RunPatchRead, RunInside
  <1>6. CASE RunPatchCommit(c) BY <1>6, RunAgreeInside DEF RunPatchCommit, RunInside
  <1>7. CASE RunResolveAgain(c)
    <2>1. CASE RunReturn(c, "error")
      BY <1>7, <2>1, RunReturned, RunAgreeInside DEF RunResolveAgain, RunInside
    <2>2. CASE ~RunReturn(c, "error")
      <3>1. /\ runCall'[c].pc = "gate" /\ runCall'[c].lock = runCall[c].lock
            /\ \A d \in RunCalls \ {c} : runCall'[d] = runCall[d] BY <1>7, <2>2 DEF RunResolveAgain
      <3> QED BY <1>7, <3>1, RunAgreeInside DEF RunResolveAgain, RunInside
    <2> QED BY <2>1, <2>2
  <1>8. CASE RunGate(c) BY <1>8, RunReturned, RunAgreeInside DEF RunGate, RunInside
  <1>9. CASE RunSnapshot(c) BY <1>9, RunReturned, RunAgreeInside DEF RunSnapshot, RunInside
  <1>10. CASE RunChunk(c) BY <1>10, RunAgreeInside DEF RunChunk, RunInside
  <1>11. CASE RunStoreOne(c, "tracker", "correlator")
    <2>1. /\ runCall[c].pc = "tracker" /\ runCall'[c].pc = "correlator"
          /\ runCall'[c].lock = runCall[c].lock
          /\ \A d \in RunCalls \ {c} : runCall'[d] = runCall[d]
          /\ runStore' = [runStore EXCEPT !["tracker"] = c]
          /\ UNCHANGED <<runInst, runLock, runCloser, runTorn>> BY <1>11 DEF RunStoreOne
    <2>2. RunInsideRuns' = RunInsideRuns /\ c \in RunInsideRuns BY <2>1 DEF RunInsideRuns, RunInside
    <2>3. RunLockInv' BY <1>0, <2>1, <2>2 DEF RunLockInv, RunWaiting, RunInside
    <2>4. RunOpenInv' BY <1>0, <2>1 DEF RunOpenInv
    <2>5. /\ RunStoring' /\ runInst # 0 /\ runCloser.pc \in {"idle", "sessions", "restore"}
          /\ runStore'["tracker"] = c BY <1>0, <2>1 DEF RunStoring, RunOpenInv, RunMaps
    <2>6. \A d \in RunCalls : runCall'[d].pc \in {"correlator", "reporter"} =>
            d = c /\ runCall'[d].pc = "correlator"
      BY <1>0, <2>1, <2>2 DEF RunLockInv, RunInsideRuns, RunInside
    <2>7. RunMapsInv' BY <2>1, <2>5, <2>6 DEF RunMapsInv
    <2> QED BY <2>3, <2>4, <2>7 DEF RunAgreeInv
  <1>12. CASE RunStoreOne(c, "correlator", "reporter")
    <2>1. /\ runCall[c].pc = "correlator" /\ runCall'[c].pc = "reporter"
          /\ runCall'[c].lock = runCall[c].lock
          /\ \A d \in RunCalls \ {c} : runCall'[d] = runCall[d]
          /\ runStore' = [runStore EXCEPT !["correlator"] = c]
          /\ UNCHANGED <<runInst, runLock, runCloser, runTorn>> BY <1>12 DEF RunStoreOne
    <2>2. RunInsideRuns' = RunInsideRuns /\ c \in RunInsideRuns BY <2>1 DEF RunInsideRuns, RunInside
    <2>3. RunLockInv' BY <1>0, <2>1, <2>2 DEF RunLockInv, RunWaiting, RunInside
    <2>4. RunOpenInv' BY <1>0, <2>1 DEF RunOpenInv
    <2>5. /\ RunStoring' /\ runInst # 0 /\ runCloser.pc \in {"idle", "sessions", "restore"}
          /\ runStore'["tracker"] = c /\ runStore'["correlator"] = c
      BY <1>0, <2>1 DEF RunStoring, RunOpenInv, RunMaps, RunMapsInv
    <2>6. \A d \in RunCalls : runCall'[d].pc \in {"correlator", "reporter"} =>
            d = c /\ runCall'[d].pc = "reporter"
      BY <1>0, <2>1, <2>2 DEF RunLockInv, RunInsideRuns, RunInside
    <2>7. RunMapsInv' BY <2>1, <2>5, <2>6 DEF RunMapsInv
    <2> QED BY <2>3, <2>4, <2>7 DEF RunAgreeInv
  <1>13. CASE RunStoreLast(c)
    <2>1. /\ runCall[c].pc = "reporter" /\ runCall'[c].pc = "done"
          /\ \A d \in RunCalls \ {c} : runCall'[d] = runCall[d]
          /\ runStore' = [runStore EXCEPT !["reporter"] = c]
          /\ UNCHANGED <<runInst, runLock, runCloser, runTorn>>
      BY <1>13, RunReturned DEF RunStoreLast
    <2>2. RunInsideRuns = {c} /\ RunInsideRuns' = {}
      BY <1>0, <2>1 DEF RunInsideRuns, RunInside, RunLockInv
    <2>3. RunLockInv' BY <1>0, <2>1, <2>2 DEF RunLockInv, RunWaiting, RunInside
    <2>4. RunOpenInv' BY <1>0, <2>1 DEF RunOpenInv
    <2>5. /\ runInst # 0 /\ runCloser.pc \in {"idle", "sessions", "restore"}
          /\ RunMapsAre(c, c, c)' BY <1>0, <2>1 DEF RunOpenInv, RunMaps, RunMapsInv, RunMapsAre
    <2>6. \A d \in RunCalls : runCall'[d].pc \notin {"correlator", "reporter"}
      BY <2>2 DEF RunInsideRuns, RunInside
    <2>7. RunMapsInv' BY <2>1, <2>5, <2>6 DEF RunMapsInv, RunMapsAre
    <2> QED BY <2>3, <2>4, <2>7 DEF RunAgreeInv
  <1> QED BY <1>1, <1>2, <1>3, <1>4, <1>5, <1>6, <1>7, <1>8, <1>9, <1>10, <1>11, <1>12, <1>13 DEF RunStep

LEMMA RunAgreeUser ==
  ASSUME RunTypeInv, RunAgreeInv, ~runTorn,
         \/ \E c \in RunCalls, want \in SUBSET RunProcs : RunStart(c, want)
         \/ \E active, disabled \in SUBSET RunProcs : RunEditChain(active, disabled)
         \/ RunStop
         \/ \E reopen \in BOOLEAN : RunClose(reopen)
  PROVE  RunAgreeInv'
  <1> USE DEF runSession, runRegistry, runMeta, runHistory
  <1>0. RunLockInv /\ RunOpenInv /\ RunMapsInv BY DEF RunAgreeInv
  <1>1. ASSUME NEW c \in RunCalls, NEW want \in SUBSET RunProcs, RunStart(c, want)
        PROVE  RunAgreeInv'
    <2>0. runLock' # 0 /\ (runLock # 0 => runLock' = runLock)
      <3>1. runLocks \in Nat BY DEF RunTypeInv, RunTypeOK
      <3>2. runLock' = IF runLock = 0 THEN runLocks + 1 ELSE runLock BY <1>1 DEF RunStart
      <3> QED BY <3>1, <3>2
    <2>1. /\ runCall[c].pc = "idle" /\ runCall'[c].pc = "register"
          /\ runCall'[c].lock = runLock' /\ runLock' # 0 /\ (runLock # 0 => runLock' = runLock)
          /\ \A d \in RunCalls \ {c} : runCall'[d] = runCall[d]
          /\ UNCHANGED <<runInst, runStore, runCloser, runTorn>>
      BY <1>1, <2>0 DEF RunStart, RunTypeInv, RunTypeOK, RunAt
    <2>2. RunInsideRuns' = RunInsideRuns BY <2>1 DEF RunInsideRuns, RunInside
    <2>3. RunLockInv' BY <1>0, <2>1, <2>2 DEF RunLockInv, RunWaiting
    <2>4. RunStoring' <=> RunStoring BY <2>1 DEF RunStoring
    <2> QED BY <1>0, <2>1, <2>3, <2>4 DEF RunAgreeInv, RunOpenInv, RunMapsInv, RunMapsAre
  <1>2. ASSUME NEW active \in SUBSET RunProcs, NEW disabled \in SUBSET RunProcs,
               RunEditChain(active, disabled)
        PROVE  RunAgreeInv'
    BY <1>0, <1>2 DEF RunEditChain, RunAgreeInv, RunLockInv, RunOpenInv, RunMapsInv, RunMapsAre,
      RunInsideRuns, RunStoring
  <1>3. CASE RunStop
    BY <1>0, <1>3 DEF RunStop, RunAgreeInv, RunLockInv, RunOpenInv, RunMapsInv, RunMapsAre,
      RunInsideRuns, RunStoring
  <1>4. ASSUME NEW reopen \in BOOLEAN, RunClose(reopen)
        PROVE  RunAgreeInv'
    <2>1. /\ runCloser.pc = "idle" /\ runCloser'.pc = "sessions" /\ runInst # 0
          /\ UNCHANGED <<runInst, runLock, runCall, runStore, runTorn>> BY <1>4 DEF RunClose
    <2> QED BY <1>0, <2>1 DEF RunAgreeInv, RunLockInv, RunOpenInv, RunMapsInv, RunMapsAre,
                        RunInsideRuns, RunStoring
  <1> QED BY <1>1, <1>2, <1>3, <1>4

\* A step of a close that falls into no run.
LEMMA RunAgreeCloser ==
  ASSUME RunTypeInv, RunAgreeInv, ~runTorn, RunCloserStep
  PROVE  RunAgreeInv'
  <1> USE DEF runSession, runRegistry, runMeta
  <1>0. RunLockInv /\ RunOpenInv /\ RunMapsInv BY DEF RunAgreeInv
  <1>1. SUFFICES ASSUME ~RunUnderWay
                 PROVE  RunLockInv' /\ RunOpenInv' /\ RunMapsInv'
    BY DEF RunAgreeInv, RunCloserStep, RunCloserAt, RunCloseSession, RunCloseMap, RunCloseMeta,
      RunCloseLocks, RunReopenInsert, RunReopenRestore
  <1>2. /\ \A c \in RunCalls : runCall'[c].pc \notin RunWaiting \cup RunInside
        /\ \A c \in RunCalls : runCall[c].pc \notin RunWaiting \cup RunInside
    BY <1>1 DEF RunUnderWay, RunCloserStep, RunCloserAt, RunCloseSession, RunCloseMap, RunCloseMeta,
      RunCloseLocks, RunReopenInsert, RunReopenRestore
  <1>3. RunLockInv' BY <1>2 DEF RunLockInv, RunInsideRuns
  <1>4. ~RunStoring' /\ ~RunStoring BY <1>2 DEF RunStoring, RunInside
  <1>5. \A c \in RunCalls :
          runCall'[c].pc \notin {"chunk", "tracker", "correlator", "reporter"} BY <1>2 DEF RunInside
  <1>6. CASE RunCloseSession
    <2>1. /\ runCloser.pc = "sessions" /\ runCloser'.pc = "tracker" /\ runInst' = 0
          /\ UNCHANGED runStore BY <1>6 DEF RunCloseSession, RunCloserAt, RunTypeInv, RunTypeOK
    <2> QED BY <1>0, <1>3, <1>4, <1>5, <2>1 DEF RunOpenInv, RunMapsInv, RunMapsAre
  <1>7. CASE RunCloseMap("tracker", "correlator")
    <2>1. /\ runCloser.pc = "tracker" /\ runCloser'.pc = "correlator" /\ UNCHANGED runInst
          /\ runStore' = [runStore EXCEPT !["tracker"] = RunNobody]
      BY <1>7 DEF RunCloseMap, RunCloserAt, RunTypeInv, RunTypeOK
    <2>2. PICK c \in RunCalls \cup {RunNobody} : RunMapsAre(c, c, c)
      BY <1>0, <1>4, <2>1 DEF RunMapsInv
    <2>3. RunMapsAre(RunNobody, c, c)' BY <2>1, <2>2 DEF RunMapsAre, RunTypeInv, RunTypeOK, RunMaps
    <2> QED BY <1>0, <1>3, <1>4, <1>5, <2>1, <2>3 DEF RunOpenInv, RunMapsInv
  <1>8. CASE RunCloseMap("correlator", "reporter")
    <2>1. /\ runCloser.pc = "correlator" /\ runCloser'.pc = "reporter" /\ UNCHANGED runInst
          /\ runStore' = [runStore EXCEPT !["correlator"] = RunNobody]
      BY <1>8 DEF RunCloseMap, RunCloserAt, RunTypeInv, RunTypeOK
    <2>2. PICK c \in RunCalls \cup {RunNobody} : RunMapsAre(RunNobody, c, c)
      BY <1>0, <2>1 DEF RunMapsInv
    <2>3. RunMapsAre(RunNobody, RunNobody, c)'
      BY <2>1, <2>2 DEF RunMapsAre, RunTypeInv, RunTypeOK, RunMaps
    <2> QED BY <1>0, <1>3, <1>4, <1>5, <2>1, <2>3 DEF RunOpenInv, RunMapsInv
  <1>9. CASE RunCloseMap("reporter", "meta")
    <2>1. /\ runCloser.pc = "reporter" /\ runCloser'.pc = "meta" /\ UNCHANGED runInst
          /\ runStore' = [runStore EXCEPT !["reporter"] = RunNobody]
      BY <1>9 DEF RunCloseMap, RunCloserAt, RunTypeInv, RunTypeOK
    <2>2. PICK c \in RunCalls \cup {RunNobody} : RunMapsAre(RunNobody, RunNobody, c)
      BY <1>0, <2>1 DEF RunMapsInv
    <2>3. RunMapsAre(RunNobody, RunNobody, RunNobody)'
      BY <2>1, <2>2 DEF RunMapsAre, RunTypeInv, RunTypeOK, RunMaps
    <2> QED BY <1>0, <1>3, <1>4, <1>5, <2>1, <2>3 DEF RunOpenInv, RunMapsInv
  <1>10. CASE RunCloseMeta \/ RunCloseLocks
    <2>1. /\ runCloser.pc \in {"meta", "locks"} /\ runCloser'.pc \in {"locks", "insert", "idle"}
          /\ UNCHANGED <<runInst, runStore>>
      BY <1>10 DEF RunCloseMeta, RunCloseLocks, RunCloserAt, RunNoCloser, RunTypeInv, RunTypeOK
    <2>2. RunMapsAre(RunNobody, RunNobody, RunNobody)' /\ runInst' = 0
      BY <1>0, <2>1 DEF RunMapsAre, RunMapsInv, RunOpenInv
    <2> QED BY <1>3, <1>5, <2>1, <2>2 DEF RunOpenInv, RunMapsInv
  <1>11. CASE RunReopenInsert \/ RunReopenRestore
    <2>1. /\ runCloser.pc \in {"insert", "restore"} /\ runCloser'.pc \in {"restore", "idle"}
          /\ UNCHANGED runStore /\ runInst' # 0
      BY <1>0, <1>11 DEF RunReopenInsert, RunReopenRestore, RunCloserAt, RunNoCloser, RunTypeInv,
        RunTypeOK, RunMapsInv
    <2>2. \E c \in RunCalls \cup {RunNobody} : RunMapsAre(c, c, c)'
      BY <1>0, <1>4, <2>1 DEF RunMapsAre, RunMapsInv
    <2> QED BY <1>3, <1>5, <2>1, <2>2 DEF RunOpenInv, RunMapsInv
  <1> QED BY <1>6, <1>7, <1>8, <1>9, <1>10, <1>11 DEF RunCloserStep

LEMMA RunAgreeStep == RunTypeInv /\ RunAgreeInv /\ [RunNext]_runVars => RunAgreeInv'
  <1> SUFFICES ASSUME RunTypeInv, RunAgreeInv, [RunNext]_runVars, ~runTorn PROVE RunAgreeInv'
    <2>1. runTorn /\ [RunNext]_runVars => runTorn'
      BY DEF RunNext, runVars, runHistory, RunStep, RunStart, RunEditChain, RunStop, RunClose,
        RunCloserStep, RunCloserAt, RunRegister, RunAcquire, RunResolve, RunPatchEnsure,
        RunPatchRead, RunPatchCommit, RunResolveAgain, RunGate, RunSnapshot, RunChunk, RunStoreOne,
        RunStoreLast, RunCloseSession, RunCloseMap, RunCloseMeta, RunCloseLocks, RunReopenInsert,
        RunReopenRestore
    <2> QED BY <2>1 DEF RunAgreeInv
  <1>1. CASE RunNext BY <1>1, RunAgreeCall, RunAgreeUser, RunAgreeCloser DEF RunNext
  <1>2. CASE UNCHANGED runVars
    BY <1>2 DEF runVars, runSession, runRegistry, runMeta, runHistory, RunAgreeInv, RunLockInv,
      RunOpenInv, RunMapsInv, RunMapsAre, RunInsideRuns, RunStoring
  <1> QED BY <1>1, <1>2

\* The three maps hold all of one run's results, and none once the session
\* is closed, as long as no close falls into a run (run_blocking's lock and
\* close's removals, services/pipeline.rs and services/sessions.rs).
THEOREM RunMapsAgree == RunSpec => []RunResultsConsistent
  <1>1. RunTypeInv /\ RunAgreeInv => RunResultsConsistent
    <2> SUFFICES ASSUME RunTypeInv, RunAgreeInv, ~runTorn, RunSettled
                 PROVE  /\ \A m, n \in RunMaps : runStore[m] = runStore[n]
                        /\ runInst = 0 => \A m \in RunMaps : runStore[m] = RunNobody
      BY DEF RunResultsConsistent
    <2>1. /\ \E c \in RunCalls \cup {RunNobody} : RunMapsAre(c, c, c)
          /\ runInst = 0 => RunMapsAre(RunNobody, RunNobody, RunNobody)
      BY DEF RunAgreeInv, RunMapsInv, RunSettled
    <2> QED BY <2>1 DEF RunMapsAre, RunMaps
  <1> QED BY <1>1, RunTypeInit, RunTypeStep, RunAgreeInit, RunAgreeStep, PTL DEF RunSpec
=============================================================================
