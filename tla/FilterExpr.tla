----------------------------- MODULE FilterExpr -----------------------------
(***************************************************************************)
(* The filter expressions of the query bar: what an expression means for a *)
(* line (src-shared/filter/index.ts), the criteria that the query bar      *)
(* extracts from it (query/backendFilter.ts) and what the back end makes   *)
(* of those (core/filter.rs).  Pure operators; an instance checks one      *)
(* expression per behaviour, fltExpr.                                      *)
(*                                                                         *)
(* A line has a level, a thread, and the texts that its tag and its raw    *)
(* text contain, of those an expression may name.                          *)
(***************************************************************************)
EXTENDS Naturals, Sequences, FiniteSets, SequencesExt

CONSTANTS
    FltLines,    \* lines: records of level, tag, tid and words
    FltLength,   \* the length of each word
    FltExprs     \* expressions of the instance

VARIABLE fltExpr

FltField(f, v) == [kind |-> "field", field |-> f, value |-> v]
FltText(w) == [kind |-> "text", value |-> w]
FltNot(e) == [kind |-> "not", child |-> e]
FltAnd(s) == [kind |-> "and", children |-> s]
FltOr(s) == [kind |-> "or", children |-> s]

----------------------------------------
(* matchesFilter: the meaning of an expression.                            *)

FltFieldMatches(f, v, line) ==
    CASE f = "level" -> line.level = v
      [] f = "tag" -> v \in line.tag
      [] f = "tid" -> line.tid = v
      [] f = "message" -> v \in line.words

RECURSIVE FltMatches(_, _)
FltMatches(e, line) ==
    CASE e.kind = "and" -> \A i \in DOMAIN e.children : FltMatches(e.children[i], line)
      [] e.kind = "or" -> \E i \in DOMAIN e.children : FltMatches(e.children[i], line)
      [] e.kind = "not" -> ~FltMatches(e.child, line)
      [] e.kind = "field" -> FltFieldMatches(e.field, e.value, line)
      [] e.kind = "text" -> e.value \in line.words

----------------------------------------
(* buildBackendFilter: criteria that narrow the lines the window has to    *)
(* look at, and whether it has to look at them at all.                     *)

FltEmpty == [levels |-> {}, tags |-> {}, text |-> {}, combine |-> "and"]
FltNone == [found |-> FALSE, criteria |-> FltEmpty, js |-> FALSE]
FltFound(c, js) == [found |-> TRUE, criteria |-> c, js |-> js]

FltFromLeaf(f, v) ==
    CASE f = "level" -> FltFound([FltEmpty EXCEPT !.levels = {v}], FALSE)
      [] f = "tag" -> FltFound([FltEmpty EXCEPT !.tags = {v}], FALSE)
      [] f = "message" -> FltFound([FltEmpty EXCEPT !.text = {v}], TRUE)
      [] OTHER -> FltNone

(* One text needle fits: the longer of the two.                            *)
FltNeedle(t, u) ==
    IF u # {} /\ (\A w \in t, x \in u : FltLength[x] > FltLength[w]) THEN u ELSE t

FltMerge(c, d) ==
    [c EXCEPT !.levels = @ \cup d.levels, !.tags = @ \cup d.tags,
              !.text = FltNeedle(@, d.text)]

(* A mutant: two values of one field under AND pass as exact.              *)
MutFltWidens(c, d) == FALSE /\ c = d

(* A field that had a value got another one, which the back end reads as   *)
(* an alternative.                                                         *)
FltWidens(c, d) ==
    \/ c.levels # {} /\ d.levels # {}
    \/ c.tags # {} /\ d.tags # {}

FltFieldsUsed(c) == Cardinality({f \in {"levels", "tags", "text"} : c[f] # {}})

(* An OR needs every branch.                                               *)
FltFromOr(rs) ==
    IF \E i \in DOMAIN rs : ~rs[i].found THEN FltNone
    ELSE FltFound(FoldLeft(LAMBDA c, r : FltMerge(c, r.criteria),
                           [FltEmpty EXCEPT !.combine = "or"], rs),
                  \E i \in DOMAIN rs : rs[i].js)

(* An AND can leave out what it cannot express: an OR over several fields  *)
(* among that.                                                             *)
FltUsable(r) == r.found /\ ~(r.criteria.combine = "or" /\ FltFieldsUsed(r.criteria) > 1)

FltFromAnd(rs) ==
    LET Step(acc, r) ==
          IF ~FltUsable(r) THEN [acc EXCEPT !.js = TRUE]
          ELSE FltFound(FltMerge(acc.criteria, r.criteria),
                        acc.js \/ r.js \/ FltWidens(acc.criteria, r.criteria))
    IN FoldLeft(Step, FltNone, rs)

RECURSIVE FltFrom(_)
FltFrom(e) ==
    CASE e.kind = "not" -> FltNone
      [] e.kind = "field" -> FltFromLeaf(e.field, e.value)
      [] e.kind = "text" -> FltFromLeaf("message", e.value)
      [] e.kind = "or" -> FltFromOr([i \in DOMAIN e.children |-> FltFrom(e.children[i])])
      [] e.kind = "and" -> FltFromAnd([i \in DOMAIN e.children |-> FltFrom(e.children[i])])

----------------------------------------
(* line_matches_criteria: one check for each field that is given, combined *)
(* by AND or by OR; several values of a field are alternatives.            *)
FltChecks(c, line) ==
    (IF c.text = {} THEN {} ELSE {c.text \subseteq line.words})
      \cup (IF c.levels = {} THEN {} ELSE {line.level \in c.levels})
      \cup (IF c.tags = {} THEN {} ELSE {line.tag \cap c.tags # {}})

FltOffers(c, line) ==
    LET checks == FltChecks(c, line) IN
    IF c.combine = "and" \/ checks = {} THEN FALSE \notin checks ELSE TRUE \in checks

----------------------------------------
FltInit == fltExpr \in FltExprs
FltNext == UNCHANGED fltExpr
FltVars == <<fltExpr>>
FltSpec == FltInit /\ [][FltNext]_FltVars

(* What the back end offers contains every line the expression wants       *)
(* (backendFilter.ts:8-10).  Refuted: an OR of two texts asks for the      *)
(* longer one alone.                                                       *)
FltExtractIsSuperset ==
    LET r == FltFrom(fltExpr) IN
    r.found => \A line \in FltLines : FltMatches(fltExpr, line) => FltOffers(r.criteria, line)

(* It is exact where it says so: the window shows the back end's lines     *)
(* without looking at them (backendFilter.ts:12-14).  Refuted: an OR of    *)
(* groups, `level:E tag:a | level:W tag:b', asks for either level or tag.  *)
FltExactIsExact ==
    LET r == FltFrom(fltExpr) IN
    r.found /\ ~r.js =>
      \A line \in FltLines : FltOffers(r.criteria, line) => FltMatches(fltExpr, line)

(* The parts of an expression that criteria are asked of, its ORs, and     *)
(* what their branches gave.                                               *)
RECURSIVE FltParts(_)
FltParts(e) ==
    {e} \cup (IF e.kind \in {"and", "or"}
              THEN UNION {FltParts(e.children[i]) : i \in DOMAIN e.children} ELSE {})
FltOrs(e) == {p \in FltParts(e) : p.kind = "or"}
FltBranches(p) == {FltFrom(p.children[i]) : i \in DOMAIN p.children}

(* An OR whose branches ask for two texts, of which one is kept; and one   *)
(* with a branch that asks for two fields at once.                         *)
FltDropsNeedle(p) == Cardinality(UNION {r.criteria.text : r \in FltBranches(p)}) > 1
FltSplitsGroup(p) ==
    \E r \in FltBranches(p) : r.criteria.combine = "and" /\ FltFieldsUsed(r.criteria) > 1

(* Nothing else loses a line, and nothing else passes as exact and is not. *)
FltExtractSound ==
    /\ (\E p \in FltOrs(fltExpr) : FltDropsNeedle(p)) \/ FltExtractIsSuperset
    /\ (\E p \in FltOrs(fltExpr) : FltSplitsGroup(p)) \/ FltExactIsExact
=============================================================================
