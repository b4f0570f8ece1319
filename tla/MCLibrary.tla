----------------------------- MODULE MCLibrary -----------------------------
(* Publications for the instances of Library: the second one has a newer   *)
(* version of a processor and of both packs, one more member in the large  *)
(* pack, and a manifest that lags.                                         *)
EXTENDS Library

Files(v) == [i \in {"p", "q"} |-> IF i = "p" THEN v ELSE 1]
Publication(v, small, large) ==
    [list |-> Files(v), file |-> Files(v),
     packs |-> [k \in {"small", "large"} |->
                  [ver |-> v, ids |-> IF k = "small" THEN <<"p">> ELSE large]],
     manifests |-> [k \in {"small", "large"} |->
                      IF k = "small" THEN [ver |-> small, procs |-> {"p"}]
                      ELSE [ver |-> v, procs |-> ToSet(large)]]]
TwoPublications == <<Publication(1, 1, <<"p">>), Publication(2, 1, <<"p", "q">>)>>
=============================================================================
