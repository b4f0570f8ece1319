---------------------------- MODULE MCLineIndex ----------------------------
(* Files for the instances of LineIndex: every short body over the lines   *)
(* of a bug report, after a header, and over the lines that detection      *)
(* tells apart.                                                            *)
EXTENDS LineIndex

Line(k, n, day, w) == [k |-> k, n |-> n, day |-> day, w |-> w]
Text(k) == Line(k, "", 1, 1)
Capture(y, day) == Line("header", y, day, 1)
ReportLines ==
    {Line("start", "A", 1, 1), Line("footer", "A", 1, 1),
     Line("start", IdxDumpsys, 1, 1), Line("footer", IdxDumpsys, 1, 1),
     Line("service", "x", 1, 2), Line("threadtime", "t", 3, 1)}
PlainLines == {Text("threadtime"), Text("kernel"), Text("divider"), Text("plain")}
AllBodies(lines, n) == UNION {[1..m -> lines] : m \in 0..n}
File(ls, open, bom) == [lines |-> ls, open |-> open, bom |-> bom]
ReportFiles == {File(<<Capture(2, 2)>> \o b, FALSE, FALSE) : b \in AllBodies(ReportLines, 4)}
LateHeader == {File(b \o <<Capture(1, 3)>> \o b, TRUE, TRUE) : b \in AllBodies(ReportLines, 2)}
PlainFiles == {File(b, open, FALSE) : b \in AllBodies(PlainLines, 5), open \in BOOLEAN}
(* No line of a format, or too few in the sample: a word decides.          *)
WordFiles ==
    {File(b, FALSE, FALSE) : b \in AllBodies({Text("linux"), Text("radio"), Text("plain"), Text("kernel")}, 3)}
ManyFiles == WordFiles \cup ReportFiles \cup LateHeader \cup PlainFiles
=============================================================================
