------------------------------ MODULE MCScans ------------------------------
(* Requests, criteria and a file for the instances of Scans.               *)
EXTENDS Scans

Only(x) == [all |-> TRUE, checks |-> {{x}}]
Either == [all |-> FALSE, checks |-> {{"x"}, {"", "z"}}]
FileLines == <<"x", "y", "x", "x", "y">>

Asked(kind, want) == [kind |-> kind, want |-> want, from |-> 0, to |-> 9]
Hits(all) == Asked("hits", Only("x")) @@ [offset |-> 1, limit |-> 1, all |-> all]
Query(want, sel) == Asked("lines", want) @@ [skip |-> TRUE, sel |-> sel]
Recent == [by |-> "recent", count |-> 2]
Around == [by |-> "around", line |-> 0, before |-> 1, after |-> 1]
Uniform == [by |-> "uniform", count |-> 2]
Window == [Asked("window", Only("x")) EXCEPT !.from = 1]
            @@ [skip |-> TRUE, sel |-> [by |-> "centered", line |-> 2, count |-> 2]]
Paged == Asked("page", Only("x")) @@ [hits |-> {0, 2}, context |-> 1, offset |-> 1, limit |-> 2]

Requests == {Asked("filter", Only("x")), Asked("summary", Either),
             Hits(TRUE), Hits(FALSE), Query(Only("x"), Recent),
             Query(Either, Uniform), Window, Paged}
LogWatch == {Only("x")}
OneQuery == {Query(Only("x"), Around)}
OneFilter == {Asked("filter", Only("x"))}
=============================================================================
