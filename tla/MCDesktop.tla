----------------------------- MODULE MCDesktop -----------------------------
(***************************************************************************)
(* What the desktop and the agents rely on when they share a workspace:    *)
(* transitions, scans and watches, the supervised sidecar, the library of  *)
(* processors and packs, the index of an opened file, the registry of the   *)
(* open sessions.  A small instance of each.                               *)
(*                                                                         *)
(* As in MCProgress, the behaviours are the sum of the components': `part' *)
(* says which component runs, and the others stay as they began.           *)
(***************************************************************************)
EXTENDS WorkspaceSwitch, MCScans, Sidecar, MCLibrary, MCLineIndex, MCSessions

VARIABLE part

sumVars == <<part, allvars, scnVars, mcpVars, libVars, idxVars, sesVars>>

Parts == {"switch", "scans", "sidecar", "library", "index",
          "sessions"}

(* What a component that does not run begins with is fixed: a file in the  *)
(* place of the one that is not indexed, a library at a first run.         *)
AnyFile == CHOOSE f \in IdxFiles : TRUE

DesktopInit ==
    /\ part \in Parts
    /\ SwInit /\ ScnInit /\ McpInit /\ LibInit /\ IdxInit /\ SesInit
    /\ part = "index" \/ idxFile = AnyFile
    /\ part = "library" \/ libWin.checked

(* What stays as it is when part p takes a step. *)
OthersStay(p) ==
    /\ IF p = "switch" THEN TRUE ELSE UNCHANGED allvars
    /\ IF p = "scans" THEN TRUE ELSE UNCHANGED scnVars
    /\ IF p = "sidecar" THEN TRUE ELSE UNCHANGED mcpVars
    /\ IF p = "library" THEN TRUE ELSE UNCHANGED libVars
    /\ IF p = "index" THEN TRUE ELSE UNCHANGED idxVars
    /\ IF p = "sessions" THEN TRUE ELSE UNCHANGED sesVars

DesktopNext ==
    /\ UNCHANGED part
    /\ OthersStay(part)
    /\ \/ part = "switch" /\ SwNext
       \/ part = "scans" /\ ScnNext
       \/ part = "sidecar" /\ McpNext
       \/ part = "library" /\ LibNext
       \/ part = "index" /\ IdxNext
       \/ part = "sessions" /\ SesNext

DesktopSpec == DesktopInit /\ [][DesktopNext]_sumVars

(* Every variable has its type, whichever component runs.                  *)
DesktopTypeOK ==
    CASE part = "switch" -> SwTypeOK
      [] part = "scans" -> ScnTypeOK
      [] part = "sidecar" -> McpTypeOK
      [] part = "library" -> LibTypeOK
      [] part = "index" -> IdxTypeOK
      [] part = "sessions" -> SesTypeOK

(* The index and the sections of a file do not depend on where its first   *)
(* pass and its chunks were cut, and sections nest (LineIndex).            *)
LineIndexSound == part = "index" => IdxSound

=============================================================================
