------------------------------ MODULE MCChains ------------------------------
(* Processor chains and log lines for the instances of PipelineCore.       *)
EXTENDS PipelineCore

Tag(h) == [kind |-> "tag", hits |-> h, under |-> h, bare |-> FALSE]
TagRe(h, u) == [kind |-> "tag_regex", hits |-> h, under |-> u, bare |-> u = {}]
Word(h) == [kind |-> "word", hits |-> h, inRaw |-> h, bare |-> FALSE]
WordRe(h, u) == [kind |-> "word_regex", hits |-> h, inRaw |-> u, bare |-> FALSE]
Rule(k, h) == [kind |-> k, hits |-> h]
Level(n) == [kind |-> "level", min |-> n, hits |-> {}, bare |-> TRUE]
Time(a, b) == [kind |-> "time", from |-> a, to |-> b, hits |-> {}, bare |-> TRUE]
Filter(rs) == [kind |-> "filter", rules |-> rs]
Finds(ws) == [kind |-> "extract", finds |-> ws]
Script == [kind |-> "script"]
Agg(gs) == [kind |-> "aggregate", groups |-> gs]
Count == [type |-> "count"]
CountBy == [type |-> "count_by"]
Burst == [type |-> "burst", span |-> 1, threshold |-> 2]
Rep(p) == [pipeline |-> p, sections |-> {}, declared |-> {}]
Trk(ts) == [transitions |-> ts, defaults |-> [f |-> "off", g |-> "off"], sections |-> {}, declared |-> {}]
Tr(rs, set, clear) == [rules |-> rs, set |-> set, clear |-> clear]
Cor(ss, lines, span) == [sources |-> ss, trigger |-> "b", lines |-> lines, span |-> span, declared |-> {}]
Src(id, rs) == [id |-> id, rules |-> rs, cond |-> {"s", "w", "boom"}]
Xf(f, masks) == [filter |-> f, masks |-> masks, rewrites |-> [w \in {} |-> ""], declared |-> {}]

Chain(x, r, t, c) == [transformers |-> x, reporters |-> r, trackers |-> t, correlators |-> c]
R1 == Rep(<<Filter({Tag({"A"}), Level(1)}), Finds({"w", "s"}), Script, Agg(<<Count, CountBy, Burst>>)>>)
R2 == Rep(<<Filter({Word({"w", "boom"})}), Agg(<<Burst>>), Script, Filter({Time(0, 1)})>>)
R3 == Rep(<<Filter({TagRe({"B"}, {"B"}), WordRe({"s"}, {"s"})}), Script>>)
T1 == Trk(<<Tr({Tag({"A"}), Word({"w"})}, [f |-> "on"], {}), Tr({Tag({"A"})}, [g |-> "$1"], {"f"}), Tr({Tag({"B"})}, [h |-> "x"], {"g"})>>)
T2 == Trk(<<Tr({Tag({"A"}), WordRe({"s"}, {"s"})}, [f |-> "$1"], {}), Tr({Word({"boom"}), Tag({"B"})}, [g |-> "on"], {"f"})>>)
C1 == Cor(<<Src("a", {Tag({"A"})}), Src("b", {Tag({"B"})})>>, 2, 1)
C2 == Cor(<<Src("b", {Word({"s"})}), Src("a", {Tag({"A"})}), Src("c", {Word({"w"})})>>, -1, 1)
Chains == {Chain(<<>>, <<R1, R2>>, <<T1>>, <<>>), Chain(<<>>, <<R1, R2>>, <<>>, <<>>), Chain(<<>>, <<R1, R3>>, <<T2>>, <<C1>>),
   Chain(<<Xf({}, TRUE)>>, <<R1>>, <<T1>>, <<C2>>), Chain(<<>>, <<R3>>, <<T2>>, <<>>),
   Chain(<<Xf({Rule("word", {"s", "w"})}, TRUE)>>, <<R2>>, <<T2>>, <<C1>>)}
UnderTagRegex == {Chain(<<>>, <<R1, Rep(<<Filter({TagRe({"B"}, {})})>>)>>, <<>>, <<>>)}
L(t, w, l, s) == [tag |-> t, word |-> w, level |-> l, ts |-> s, quick |-> TRUE]
Alphabet == {L("A", "w", 1, 0), L("A", "s", 1, 1), [L("B", "s", 0, 2) EXCEPT !.quick = FALSE], L("A", "boom", 2, 3), L("B", "w", 1, 1)}
LogcatFile == [known |-> TRUE, type |-> "Logcat", sections |-> <<>>]
Tokens == <<"t1", "t2">>
=============================================================================
