----------------------------- MODULE MCServices -----------------------------
(***************************************************************************)
(* What the services keep true, on a small instance of each.               *)
(*                                                                         *)
(* As in MCProgress, the behaviours are the sum of the components': `part' *)
(* says which component runs, and the others stay as they began.           *)
(***************************************************************************)
EXTENDS MCLiveStream, MCStreamSource, DirtyFlag, PipelineRuns, MCChains,
        Artifacts

CONSTANTS q1, q2

VARIABLE part

TwoRuns == {q1, q2}

allVars == <<part, vars, srcVars, dirVars, runVars, coreVars, artVars>>

Parts == {"source", "stream", "flag", "runs", "core",
          "artifacts"}

ServicesInit ==
    /\ part \in Parts
    /\ SrcInit /\ Init /\ DirInit /\ RunInit /\ CoreInit
    /\ ArtInit
    /\ part = "artifacts" \/ artKind = "analysis"

(* What stays as it is when part p takes a step. *)
OthersStay(p) ==
    /\ IF p = "source" THEN TRUE ELSE UNCHANGED srcVars
    /\ IF p = "stream" THEN TRUE ELSE UNCHANGED vars
    /\ IF p = "flag" THEN TRUE ELSE UNCHANGED dirVars
    /\ IF p = "runs" THEN TRUE ELSE UNCHANGED runVars
    /\ IF p = "core" THEN TRUE ELSE UNCHANGED coreVars
    /\ IF p = "artifacts" THEN TRUE ELSE UNCHANGED artVars

ServicesNext ==
    /\ UNCHANGED part
    /\ OthersStay(part)
    /\ \/ part = "source" /\ SrcNext
       \/ part = "stream" /\ Next
       \/ part = "flag" /\ DirNext
       \/ part = "runs" /\ RunNext
       \/ part = "core" /\ CoreNext
       \/ part = "artifacts" /\ ArtNext

(* The callers of the stream's commands are interchangeable, and so are    *)
(* the runs.                                                               *)
CallerSymmetry == Permutations(TwoCallers) \cup Permutations(TwoRuns)

ServicesSpec == ServicesInit /\ [][ServicesNext]_allVars

(* Every variable has its type, whichever component runs.                  *)
ServicesTypeOK ==
    CASE part = "stream" -> TypeOK
      [] part = "source" -> SrcTypeOK
      [] part = "flag" -> DirTypeOK
      [] part = "runs" -> RunTypeOK
      [] part = "core" -> TRUE
      [] part = "artifacts" -> ArtTypeOK

=============================================================================
