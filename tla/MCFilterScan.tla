---------------------------- MODULE MCFilterScan ----------------------------
(* Lines and expressions for the instances of FilterExpr and FilterScan.   *)
EXTENDS FilterScan

FilterWords == {"ab", "abc"}
FilterLines == [level : {"E", "W"}, tag : SUBSET {"a", "b"}, tid : {"t", "u"}, words : SUBSET FilterWords]
WordLength == [w \in FilterWords |-> IF w = "ab" THEN 2 ELSE 3]

Leaves == {FltField("level", "E"), FltField("level", "W"), FltField("tag", "a"),
           FltField("tag", "b"), FltField("tid", "t"), FltText("ab"), FltText("abc")}
Over(S, T) == {FltAnd(<<x, y>>) : x \in S, y \in T} \cup {FltOr(<<x, y>>) : x \in S, y \in T}
Groups == Leaves \cup {FltNot(e) : e \in Leaves} \cup Over(Leaves, Leaves)
Pairs(l, t, w) ==
    LET S == {FltField("level", l), FltField("tag", t), FltText(w)} IN {FltAnd(<<x, y>>) : x \in S, y \in S}
AllExprs == Groups \cup Over(Leaves, Groups) \cup Over(Pairs("E", "a", "ab"), Pairs("W", "b", "abc"))

(* A scan meets lines that the criteria offer and the expression does not  *)
(* want, and an expression without criteria.                               *)
LineOf(l, w) == [level |-> l, tag |-> {"a"}, tid |-> "t", words |-> w]
ScannedFile == <<LineOf("E", {}), LineOf("E", {"ab"}), LineOf("W", {"ab"}), LineOf("E", {})>>
Scanned == {FltAnd(<<FltField("level", "E"), FltNot(FltText("ab"))>>), FltNot(FltField("level", "W"))}
=============================================================================
