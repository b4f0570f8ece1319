---------------------------- MODULE StreamSource ----------------------------
(***************************************************************************)
(* The log source of a live capture (core/log_source.rs): raw lines kept   *)
(* in memory up to a retention cap, older ones moved to a spill file, the  *)
(* rest counted as lost.                                                   *)
(*                                                                         *)
(* Everything here runs under the `sessions' lock, so the loop of          *)
(* evict_inner, one step per line below, is not interleaved with anything: *)
(* `phase' keeps the other actions out.  A line is its absolute number, a  *)
(* byte of the spill file is <<line, position>>, position 0 the newline.   *)
(***************************************************************************)
EXTENDS Integers, Sequences, FiniteSets, SequencesExt

CONSTANTS
    SrcMaxRetained,\* max_raw_lines of the stream
    SrcCap,       \* SPILL_MAX_BYTES
    SrcWidths,    \* content lengths a line may have
    SrcMaxWidth,  \* the longest of them
    SrcMaxBatch,  \* lines per batch
    SrcMaxLines   \* bound: no batch once this many lines have arrived

ASSUME SrcAssumption ==
    /\ SrcMaxRetained \in Nat
    /\ SrcCap \in Nat \ {0}
    /\ SrcMaxWidth \in Nat /\ SrcWidths \subseteq 0 .. SrcMaxWidth
    /\ SrcMaxBatch \in Nat \ {0}
    /\ SrcMaxLines \in Nat

VARIABLES
    srcWidth,     \* line_meta: one entry per line that ever arrived, its length
    srcRaw,       \* raw_lines: the lines in memory
    srcEvicted,   \* evicted_count
    srcLost,      \* lost_line_count
    srcOpened,    \* is `spill' Some?
    srcOffsets,   \* SpillFile.line_offsets
    srcBytes,     \* SpillFile.total_bytes
    srcCapped,    \* SpillFile.cap_reached
    srcDisk,      \* the bytes of the file
    srcCursor,    \* position of the file handle, shared by reads and writes
    srcPhase,     \* "ready", or where evict_inner stands
    srcExcess,    \* how many lines this eviction takes
    srcNext       \* how many of them its loop has been through

(* History: the lines written whole; whether a read moved the file handle; *)
(* whether lines were evicted before the file existed; whether a write     *)
(* failed.                                                                 *)
VARIABLES srcSpilled, srcMoved, srcLate, srcBroken

srcLines   == <<srcWidth, srcRaw, srcEvicted>>
srcFile    == <<srcOpened, srcOffsets, srcBytes, srcCapped, srcDisk, srcCursor>>
srcLoop    == <<srcPhase, srcExcess, srcNext>>
srcHistory == <<srcSpilled, srcMoved, srcLate, srcBroken>>
srcVars    == <<srcLines, srcLost, srcFile, srcLoop, srcHistory>>

SrcTotal == Len(srcWidth)

SrcTypeOK ==
    /\ srcWidth \in Seq(SrcWidths)
    /\ srcRaw \in Seq(Nat)
    /\ srcEvicted \in Nat
    /\ srcLost \in Nat
    /\ srcOpened \in BOOLEAN
    /\ srcOffsets \in Seq(Nat)
    /\ srcBytes \in Nat
    /\ srcCapped \in BOOLEAN
    /\ srcCursor \in Nat
    /\ srcDisk \in Seq((Nat \cup {-1}) \X Nat)
    /\ srcPhase \in {"ready", "open", "spill"}
    /\ srcExcess \in Nat
    /\ srcNext \in Nat
    /\ srcSpilled \subseteq Nat
    /\ srcMoved \in BOOLEAN
    /\ srcLate \in BOOLEAN
    /\ srcBroken \in BOOLEAN

SrcInit ==
    /\ srcWidth = <<>>
    /\ srcRaw = <<>>
    /\ srcEvicted = 0
    /\ srcLost = 0
    /\ srcOpened = FALSE
    /\ srcOffsets = <<>>
    /\ srcBytes = 0
    /\ srcCapped = FALSE
    /\ srcDisk = <<>>
    /\ srcCursor = 0
    /\ srcPhase = "ready"
    /\ srcExcess = 0
    /\ srcNext = 0
    /\ srcSpilled = {}
    /\ srcMoved = FALSE
    /\ srcLate = FALSE
    /\ srcBroken = FALSE

----------------------------------------
(* Bytes and lines.                                                        *)
SrcContent(l) == [i \in 1..srcWidth[l + 1] |-> <<l, i>>]
SrcRecord(l)  == Append(SrcContent(l), <<l, 0>>)
SrcHole       == <<-1, 0>>    \* what a write past the end of the file leaves

(* Writing data at position c of file f.                                   *)
SrcOverwrite(f, c, data) ==
    [i \in 1..(IF c + Len(data) > Len(f) THEN c + Len(data) ELSE Len(f)) |->
        IF i > c /\ i <= c + Len(data) THEN data[i - c]
        ELSE IF i <= Len(f) THEN f[i] ELSE SrcHole]

SrcNothing == <<SrcHole>>        \* None

(* SpillFile::read_line: offset and end come from line_offsets.            *)
SrcOffset(i)  == srcOffsets[i + 1]
MutSrcEnd(i)  == srcBytes                      \* the end of the file, not of the line
SrcEnd(i)     == IF i + 1 < Len(srcOffsets) THEN srcOffsets[i + 2] ELSE srcBytes
SrcReadLine(i) ==
    IF i >= Len(srcOffsets) THEN SrcNothing
    ELSE IF SrcEnd(i) <= SrcOffset(i) THEN <<>>
    ELSE IF SrcEnd(i) - 1 > Len(srcDisk) THEN SrcNothing          \* read_exact fails
    ELSE SubSeq(srcDisk, SrcOffset(i) + 1, SrcEnd(i) - 1)

(* Where that read leaves the file handle.                                 *)
SrcCursorAfterRead(i) ==
    IF i >= Len(srcOffsets) \/ SrcEnd(i) <= SrcOffset(i) THEN srcCursor
    ELSE IF SrcEnd(i) - 1 <= Len(srcDisk) THEN SrcEnd(i) - 1
    ELSE IF SrcOffset(i) <= Len(srcDisk) THEN Len(srcDisk) ELSE SrcOffset(i)

(* raw_line(l) for any line number.                                        *)
SrcRawLine(l) ==
    IF l < srcEvicted
    THEN IF srcOpened THEN SrcReadLine(l) ELSE SrcNothing
    ELSE IF l - srcEvicted < Len(srcRaw) THEN SrcContent(srcRaw[l - srcEvicted + 1])
    ELSE SrcNothing

(* write_stream_lines: what a save puts out, line by line.                 *)
SrcMarker == <<SrcHole, SrcHole>>

(* Mutant: the marker goes before what the file still has. *)
MutSrcSaved ==
    LET onDisk == SelectSeq([i \in 1..Len(srcOffsets) |-> SrcReadLine(i - 1)],
                            LAMBDA x : x # SrcNothing)
    IN  (IF srcLost > 0 THEN <<SrcMarker>> ELSE <<>>) \o (IF srcOpened THEN onDisk ELSE <<>>)
        \o [i \in 1..Len(srcRaw) |-> SrcContent(srcRaw[i])]

SrcSaved ==
    LET onDisk == SelectSeq([i \in 1..Len(srcOffsets) |-> SrcReadLine(i - 1)],
                            LAMBDA x : x # SrcNothing)
        inMemory == [i \in 1..Len(srcRaw) |-> SrcContent(srcRaw[i])]
    IN  (IF srcOpened THEN onDisk ELSE <<>>)
        \o (IF srcLost > 0 THEN <<SrcMarker>> ELSE <<>>) \o inMemory

----------------------------------------
(* flush_batch, step 3: push the batch and evict what exceeds the cap.     *)
MutSrcExcess(n) == n - SrcMaxRetained          \* no saturating_sub
SrcExcess(n)    == IF n > SrcMaxRetained THEN n - SrcMaxRetained ELSE 0

SrcArrive(batch) ==
    /\ srcPhase = "ready"
    /\ SrcTotal < SrcMaxLines
    /\ srcWidth' = srcWidth \o batch
    /\ srcRaw' = srcRaw \o [i \in 1..Len(batch) |-> SrcTotal + i - 1]
    /\ srcExcess' = SrcExcess(Len(srcRaw'))
    /\ srcPhase' = IF srcExcess' = 0 THEN "ready" ELSE "open"
    /\ UNCHANGED <<srcEvicted, srcLost, srcNext, srcFile, srcHistory>>

(* The end of evict_inner: the lines leave memory whatever became of them. *)
SrcDrain(missed) ==
    /\ srcRaw' = SubSeq(srcRaw, srcExcess + 1, Len(srcRaw))
    /\ srcEvicted' = srcEvicted + srcExcess
    /\ srcLost' = srcLost + missed
    /\ srcPhase' = "ready"
    /\ srcExcess' = 0
    /\ srcNext' = 0
    /\ UNCHANGED <<srcWidth, srcFile, srcHistory>>

(* Create the spill file unless there is one; without it the whole         *)
(* eviction is lost.                                                       *)
SrcOpenSpill ==
    /\ srcPhase = "open"
    /\ srcOpened' = TRUE
    /\ srcLate' = (srcLate \/ (~srcOpened /\ srcEvicted > 0))
    /\ srcPhase' = "spill"
    /\ UNCHANGED <<srcLines, srcLost, srcOffsets, srcBytes, srcCapped,
                   srcDisk, srcCursor, srcExcess, srcNext, srcSpilled,
                   srcMoved, srcBroken>>

SrcOpenSpillFails ==
    /\ srcPhase = "open"
    /\ ~srcOpened
    /\ SrcDrain(srcExcess)

MutSrcCapReached(b) == b > SrcCap              \* off by one
SrcCapReached(b)    == b >= SrcCap

(* write_line: the offset is noted first, then the line goes to wherever   *)
(* the file handle stands.                                                 *)
SrcSpillLine ==
    /\ srcPhase = "spill"
    /\ srcNext < srcExcess
    /\ ~srcCapped
    /\ LET l == srcRaw[srcNext + 1]
       IN  /\ srcOffsets' = Append(srcOffsets, srcBytes)
           /\ srcDisk' = SrcOverwrite(srcDisk, srcCursor, SrcRecord(l))
           /\ srcCursor' = srcCursor + Len(SrcRecord(l))
           /\ srcBytes' = srcBytes + Len(SrcRecord(l))
           /\ srcSpilled' = srcSpilled \cup {l}
    /\ srcCapped' = SrcCapReached(srcBytes')
    /\ srcNext' = srcNext + 1
    /\ UNCHANGED <<srcLines, srcLost, srcOpened, srcPhase, srcExcess,
                   srcMoved, srcLate, srcBroken>>

(* The disk is full: k bytes get through, the line counts as lost, and its *)
(* offset entry stays.                                                     *)
SrcSpillLineFails(k) ==
    /\ srcPhase = "spill"
    /\ srcNext < srcExcess
    /\ ~srcCapped
    /\ LET l == srcRaw[srcNext + 1]
       IN  /\ k < Len(SrcRecord(l))
           /\ srcDisk' = IF k = 0 THEN srcDisk
                      ELSE SrcOverwrite(srcDisk, srcCursor, SubSeq(SrcRecord(l), 1, k))
    /\ srcOffsets' = Append(srcOffsets, srcBytes)
    /\ srcCursor' = srcCursor + k
    /\ srcLost' = srcLost + 1
    /\ srcBroken' = TRUE
    /\ srcNext' = srcNext + 1
    /\ UNCHANGED <<srcLines, srcOpened, srcBytes, srcCapped, srcPhase,
                   srcExcess, srcSpilled, srcMoved, srcLate>>

(* Once the cap is reached the rest of the eviction is lost unattempted.   *)
MutSrcMissed == 1                           \* counts only the line it stopped at
SrcMissed    == srcExcess - srcNext

SrcSpillCapped ==
    /\ srcPhase = "spill"
    /\ srcNext < srcExcess
    /\ srcCapped
    /\ SrcDrain(SrcMissed)

SrcSpillDone ==
    /\ srcPhase = "spill"
    /\ srcNext = srcExcess
    /\ SrcDrain(0)

----------------------------------------
(* Readers: get_lines, search, filters and pipeline runs go through        *)
(* raw_line; save_live_capture reads every spilled line, the last one last.*)
SrcReads(i) ==
    /\ srcPhase = "ready"
    /\ srcOpened
    /\ srcCursor' = SrcCursorAfterRead(i)
    /\ srcMoved' = (srcMoved \/ srcCursor' # srcCursor)
    /\ UNCHANGED <<srcLines, srcLost, srcOpened, srcOffsets, srcBytes,
                   srcCapped, srcDisk, srcLoop, srcSpilled, srcLate,
                   srcBroken>>

SrcRead(l) == l < srcEvicted /\ SrcReads(l)
SrcSave    == Len(srcOffsets) > 0 /\ SrcReads(Len(srcOffsets) - 1)

SrcNext ==
    \/ \E n \in 1..SrcMaxBatch : \E batch \in [1..n -> SrcWidths] : SrcArrive(batch)
    \/ SrcOpenSpill
    \/ SrcOpenSpillFails
    \/ SrcSpillLine
    \/ \E k \in 0..SrcMaxWidth : SrcSpillLineFails(k)
    \/ SrcSpillCapped
    \/ SrcSpillDone
    \/ \E l \in 0..(SrcTotal - 1) : SrcRead(l)
    \/ SrcSave

SrcSpec == SrcInit /\ [][SrcNext]_srcVars

----------------------------------------
(* Properties. *)

(* Where every evicted line went, between evictions: written whole to the  *)
(* file or counted as lost, never both and never neither; and memory holds *)
(* exactly the lines after them, within the retention cap.                 *)
SrcEveryLineAccountedFor ==
    srcPhase = "ready" =>
        /\ srcEvicted = srcLost + Cardinality(srcSpilled)
        /\ srcRaw = [i \in 1..(SrcTotal - srcEvicted) |-> srcEvicted + i - 1]
        /\ Len(srcRaw) <= SrcMaxRetained

(* The spill file stays below the cap plus the line that reached it, and   *)
(* raw_line tells the truth as long as no read took place before the last  *)
(* eviction, the file existed from the first one on, and no write failed:  *)
(* an evicted line reads back as it was or is one of the lost ones.        *)
SrcUndisturbed == ~srcMoved /\ ~srcLate /\ ~srcBroken
SrcFaithful(l) == SrcRawLine(l) = IF l < srcEvicted /\ l \notin srcSpilled THEN SrcNothing
                                                               ELSE SrcContent(l)
SrcSpillFaithful ==
    /\ srcBytes < SrcCap + SrcMaxWidth + 1
    /\ srcPhase = "ready" /\ SrcUndisturbed => \A l \in 0..(SrcTotal - 1) : SrcFaithful(l)

(* No line goes uncounted, and what can still be read of it is its text.   *)
SrcSound == SrcEveryLineAccountedFor /\ SrcSpillFaithful

(* Under the same conditions a saved capture shows the lines in order, with *)
(* the marker where lines are missing.                                     *)
SrcSavedInOrder ==
    LET before == SelectSeq([i \in 1..srcEvicted |-> i - 1], LAMBDA l : l \in srcSpilled)
        shown(seq) == [i \in 1..Len(seq) |-> SrcContent(seq[i])]
    IN  srcPhase = "ready" /\ SrcUndisturbed =>
          SrcSaved = shown(before) \o (IF srcLost > 0 THEN <<SrcMarker>> ELSE <<>>) \o shown(srcRaw)

(* "Evicted lines are written to the spill file so they remain accessible  *)
(* via raw_line()" (doc of evict): a line that was written reads back,     *)
(* whatever was read in the meantime.  write_line does not seek, so the    *)
(* first line spilled after a read lands on top of older ones.             *)
SrcSpilledStaysAccessible ==
    srcPhase = "ready" /\ ~srcLate /\ ~srcBroken => \A l \in srcSpilled : SrcRawLine(l) = SrcContent(l)
=============================================================================
