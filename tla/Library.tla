------------------------------ MODULE Library ------------------------------
(* The library of processors and packs: services/marketplace.rs (install,    *)
(* update, update all, packs, the check at launch), services/processors.rs   *)
(* (YAML installs, uninstall), processors/{marketplace,registry,pack}.rs and *)
(* load_persisted_processors of lib.rs, with the part of packsStore.ts that  *)
(* learns of pending updates.                                                *)
(*                                                                           *)
(* Every installed processor is twice: in AppState and in a file that the    *)
(* next launch reads.  No lock spans the two, nor a download and what was    *)
(* tested before it.  One source stands for the configured ones; a version   *)
(* is a number, 0 one that cannot be ordered; a file is told from another    *)
(* by its content, which is what its checksum tells.                         *)
EXTENDS Naturals, FiniteSets, Sequences, SequencesExt

CONSTANTS
    LibNone,      \* what is not there
    LibIds,       \* processors of the source
    LibPackIds,   \* packs
    LibYamlIds,   \* those also installed from YAML, under their bare id
    LibShelf,     \* what the source publishes, one record per publication
    LibCallers,   \* concurrent calls
    LibMaxCalls,  \* bound: calls
    LibMaxCrash,  \* bound: restarts
    LibMaxFail    \* bound: downloads, writes, removals that fail

LibKeys == (LibIds \X {"m"}) \cup (LibYamlIds \X {"yaml"})  \* id@source, the bare id
LibPackKey(q) == <<q, "pack">>

LibWriters == {"ui", "agent", LibNone}
LibDefs == [ver : Nat, by : LibWriters]         \* a processor, memory or file
LibMetas == [ver : Nat, procs : SUBSET LibIds]  \* a pack, memory or file

ASSUME LibAssumption ==
    /\ LibNone \notin LibDefs \cup LibMetas \cup LibPackIds \cup {"pack", "unpack"}
    /\ LibMaxCalls \in Nat /\ LibMaxCrash \in Nat /\ LibMaxFail \in Nat
    /\ LibYamlIds \subseteq LibIds /\ IsFiniteSet(LibIds)
    /\ Len(LibShelf) \in Nat \ {0} /\ DOMAIN LibShelf = 1..Len(LibShelf)
    /\ \A k \in 1..Len(LibShelf) :
         /\ DOMAIN LibShelf[k].list \subseteq LibIds
         /\ \A p \in DOMAIN LibShelf[k].list :
              LibShelf[k].list[p] \in Nat /\ LibShelf[k].file[p] \in Nat
         /\ DOMAIN LibShelf[k].packs \subseteq DOMAIN LibShelf[k].manifests
         /\ DOMAIN LibShelf[k].manifests \subseteq LibPackIds
         /\ \A q \in DOMAIN LibShelf[k].manifests :
              LibShelf[k].manifests[q].procs \subseteq LibIds
         /\ \A q \in DOMAIN LibShelf[k].packs :
              /\ LibShelf[k].packs[q].ver \in Nat
              /\ LibShelf[k].packs[q].ids \in Seq(LibIds)

VARIABLES
    libAt,         \* the publication the source serves now
    libSource,     \* the configured source: LibNone, "manual" or "auto"
    libProcs,      \* AppState::processors
    libFiles,      \* processors/*.yaml
    libPacks,      \* AppState::packs
    libPackFiles,  \* packs/*.pack.yaml
    libCall,       \* the calls in flight
    libPending,    \* AppState::pending_updates and pending_pack_updates
    libWin,        \* the window's side of the check at launch
    libCount,      \* calls, restarts and failures so far (bounds)
    libMixed,      \* keys that two calls were changing at once (history)
    libFrom,       \* publication each pack was installed from (history)
    libExcused,    \* members gone since their pack was installed (history)
    libStray       \* what a failed removal left, a failed write cut (history)

libDisk == <<libFiles, libPackFiles>>
libMemory == <<libProcs, libPacks>>
libGhost == <<libMixed, libFrom, libExcused, libStray>>
libVars == <<libAt, libSource, libProcs, libFiles, libPacks, libPackFiles,
             libCall, libPending, libWin, libCount, libMixed, libFrom, libExcused,
             libStray>>

LibIdle == [pc |-> "idle", op |-> LibNone, by |-> LibNone, queue |-> <<>>,
            index |-> 0, pack |-> LibNone, manifest |-> {}, ver |-> 0,
            ids |-> <<>>, from |-> 0, have |-> LibNone, kept |-> {}, lost |-> {}]
(* A window that has just been created; there is no check on a first run.  *)
LibNewWindow(first) == [checked |-> first, found |-> {}, seed |-> FALSE,
                        listening |-> FALSE, shown |-> {}]

(* A first run, or a launch with all of the first publication installed.   *)
LibInit ==
    \E first \in BOOLEAN :
      LET shelf == LibShelf[1]
          installed(key) == ~first /\ key[2] = "m" /\ key[1] \in DOMAIN shelf.list
          packed(q) == ~first /\ q \in DOMAIN shelf.packs
                         /\ ToSet(shelf.packs[q].ids) \subseteq DOMAIN shelf.list
      IN
      /\ libAt = 1 /\ libSource = "auto"
      /\ libProcs = [key \in LibKeys |->
            IF installed(key) THEN [ver |-> shelf.file[key[1]], by |-> "ui"] ELSE LibNone]
      /\ libFiles = libProcs
      /\ libPacks = [q \in LibPackIds |->
            IF packed(q) THEN [ver |-> shelf.packs[q].ver, procs |-> shelf.manifests[q].procs]
            ELSE LibNone]
      /\ libPackFiles = libPacks
      /\ libCall = [c \in LibCallers |-> LibIdle]
      /\ libPending = {} /\ libWin = LibNewWindow(first)
      /\ libCount = [calls |-> 0, crash |-> 0, fail |-> 0]
      /\ libMixed = {} /\ libFrom = [q \in LibPackIds |-> IF packed(q) THEN 1 ELSE 0]
      /\ libExcused = {} /\ libStray = {}

LibPcs == {"idle", "fetch", "manifest", "take", "download", "persist", "insert",
           "packfile", "upsert", "park", "announce", "others", "remove", "delete",
           "unfile"}
LibOps == {LibNone, "one", "yaml", "pack", "all", "startup", "uninstall", "unpack"}
LibEntries == [id : LibIds, to : LibKeys, listed : BOOLEAN, ver : Nat, file : Nat]
LibHaves ==
    {LibNone} \cup [procs : [LibIds -> Nat \cup {LibNone}],
                    packs : [LibPackIds -> LibMetas \cup {LibNone}]]
LibLocals ==
    [pc : LibPcs, op : LibOps, by : LibWriters, queue : Seq(LibEntries),
     index : 0..Len(LibShelf), pack : LibPackIds \cup {LibNone},
     manifest : SUBSET LibIds, ver : Nat, ids : Seq(LibIds), from : 0..Len(LibShelf),
     have : LibHaves, kept : SUBSET (LibIds \cup LibPackIds), lost : SUBSET LibIds]

LibTypeOK ==
    /\ libAt \in 1..Len(LibShelf) /\ libSource \in {LibNone, "manual", "auto"}
    /\ libProcs \in [LibKeys -> LibDefs \cup {LibNone}]
    /\ libFiles \in [LibKeys -> LibDefs \cup {LibNone}]
    /\ libPacks \in [LibPackIds -> LibMetas \cup {LibNone}]
    /\ libPackFiles \in [LibPackIds -> LibMetas \cup {LibNone}]
    /\ libCall \in [LibCallers -> LibLocals]
    /\ libMixed \subseteq LibKeys \cup {LibPackKey(q) : q \in LibPackIds}
    /\ libFrom \in [LibPackIds -> 0..Len(LibShelf)]
    /\ libExcused \subseteq LibPackIds \X LibIds
    /\ libStray \subseteq LibKeys \cup {LibPackKey(q) : q \in LibPackIds}

----------------------------------------
LibNow == LibShelf[libAt]
LibBusy(c) == libCall[c].pc # "idle"

(* is_newer: versions that cannot be ordered are no update.                *)
LibNewer(installed, available) ==
    installed # 0 /\ available # 0 /\ installed < available

(* A row of an index, and the file it announces.                           *)
LibEntry(p, k) == [id |-> p, to |-> <<p, "m">>, listed |-> p \in DOMAIN LibShelf[k].list,
                   ver |-> IF p \in DOMAIN LibShelf[k].list THEN LibShelf[k].list[p] ELSE 0,
                   file |-> IF p \in DOMAIN LibShelf[k].list THEN LibShelf[k].file[p] ELSE 0]

(* Installed from the source, and at which version.                        *)
LibHave == [p \in LibIds |-> IF libProcs[<<p, "m">>] = LibNone THEN LibNone
                               ELSE libProcs[<<p, "m">>].ver]

LibUpdates(have, k) ==
    {p \in DOMAIN LibShelf[k].list :
       have[p] # LibNone /\ LibNewer(have[p], LibShelf[k].list[p])}

(* detect_pack_updates: a newer version, or members not installed with it. *)
LibPackUpdates(packs, k) ==
    {q \in DOMAIN LibShelf[k].packs : packs[q] # LibNone
       /\ \/ LibNewer(packs[q].ver, LibShelf[k].packs[q].ver)
          \/ ~(ToSet(LibShelf[k].packs[q].ids) \subseteq packs[q].procs)}

(* What a call is changing, in memory and on disk, at the moment.          *)
LibSection(call) ==
    IF call.pc \in {"insert", "delete"} THEN {Head(call.queue).to}
    ELSE IF call.pc \in {"upsert", "unfile"} THEN {LibPackKey(call.pack)} ELSE {}

(* Call c starts to change x.                                              *)
LibEnters(c, x) ==
    libMixed' = IF \E d \in LibCallers \ {c} : x \in LibSection(libCall[d])
                  THEN libMixed \cup {x} ELSE libMixed

LibGo(c, call) == libCall' = [libCall EXCEPT ![c] = call]

(* Call c takes processor p away, under the installations of packs that    *)
(* are under way (history: their `lost').                                  *)
LibTakesAway(c, call, p) ==
    libCall' = [d \in LibCallers |->
                  IF d = c THEN call
                  ELSE IF libCall[d].op = "pack" THEN [libCall[d] EXCEPT !.lost = @ \cup {p}]
                  ELSE libCall[d]]

(* A processor that cannot be installed ends the call; an update of many   *)
(* goes on with the next and keeps it as pending.                          *)
LibFailed(call) ==
    IF call.op \in {"all", "startup"}
      THEN [call EXCEPT !.pc = "take", !.queue = Tail(@),
                        !.kept = @ \cup {Head(call.queue).id}]
      ELSE LibIdle
LibFails == libCount.fail < LibMaxFail
            /\ libCount' = [libCount EXCEPT !.fail = @ + 1]

----------------------------------------
(* Calls.                                                                  *)

LibCounted(c) ==
    /\ ~LibBusy(c) /\ libCount.calls < LibMaxCalls
    /\ libCount' = [libCount EXCEPT !.calls = @ + 1]
    /\ UNCHANGED <<libAt, libSource, libFiles, libPackFiles, libPending, libWin>>
LibBegin(c, call) == LibCounted(c) /\ LibGo(c, call)

(* install_from_marketplace and update_processor, with the row the caller  *)
(* saw in publication k.                                                   *)
LibInstall(c, p, k) ==
    /\ libSource # LibNone /\ p \in DOMAIN LibShelf[k].list
    /\ LibBegin(c, [LibIdle EXCEPT !.pc = "download", !.op = "one", !.by = "ui",
                                   !.queue = <<LibEntry(p, k)>>])
    /\ UNCHANGED <<libMemory, libGhost>>

(* install_yaml and install_from_file: the bare id.                        *)
LibInstallYaml(c, p) ==
    /\ LibBegin(c, [LibIdle EXCEPT !.pc = "persist", !.op = "yaml", !.by = "agent",
                       !.queue = <<[LibEntry(p, 1) EXCEPT !.to = <<p, "yaml">>]>>])
    /\ UNCHANGED <<libMemory, libGhost>>

LibInstallPack(c, q, k) ==
    /\ libSource # LibNone /\ q \in DOMAIN LibShelf[k].packs
    /\ LibBegin(c, [LibIdle EXCEPT !.pc = "fetch", !.op = "pack", !.by = "agent",
                       !.pack = q, !.ver = LibShelf[k].packs[q].ver,
                       !.ids = LibShelf[k].packs[q].ids, !.from = k])
    /\ UNCHANGED <<libMemory, libGhost>>

LibUpdateAll(c) ==
    /\ libSource # LibNone
    /\ LibBegin(c, [LibIdle EXCEPT !.pc = "fetch", !.op = "all", !.by = "ui"])
    /\ UNCHANGED <<libMemory, libGhost>>

(* startup_check, once per launch; what is installed is read before the    *)
(* index is fetched.                                                       *)
LibStartup(c) ==
    /\ ~libWin.checked /\ libSource # LibNone
    /\ \A d \in LibCallers : libCall[d].op # "startup"
    /\ LibBegin(c, [LibIdle EXCEPT !.pc = "fetch", !.op = "startup",
                       !.have = [procs |-> LibHave, packs |-> libPacks]])
    /\ UNCHANGED <<libMemory, libGhost>>

(* uninstall: out of the map, and then the file.                           *)
LibUninstall(c, key) ==
    /\ libProcs[key] # LibNone
    /\ LibCounted(c)
    /\ LET call == [LibIdle EXCEPT !.pc = "delete", !.op = "uninstall",
                       !.queue = <<[LibEntry(key[1], 1) EXCEPT !.to = key]>>]
       IN IF key[2] = "m"
            THEN /\ LibTakesAway(c, call, key[1])
                 /\ libExcused' = libExcused \cup (LibPackIds \X {key[1]})
            ELSE LibGo(c, call) /\ UNCHANGED libExcused
    /\ libProcs' = [libProcs EXCEPT ![key] = LibNone]
    /\ LibEnters(c, key)
    /\ UNCHANGED <<libPacks, libFrom, libStray>>

(* uninstall_pack leaves the members; uninstall_pack_from_marketplace first *)
(* reads which it has.                                                      *)
LibUninstallPack(c, q, members) ==
    /\ libPacks[q] # LibNone
    /\ LibBegin(c, [LibIdle EXCEPT !.pc = IF members THEN "others" ELSE "unfile",
                       !.op = "unpack", !.pack = q,
                       !.ids = SetToSeq(libPacks[q].procs)])
    /\ IF members THEN UNCHANGED <<libPacks, libMixed>>
       ELSE /\ libPacks' = [libPacks EXCEPT ![q] = LibNone]
            /\ LibEnters(c, LibPackKey(q))
    /\ libExcused' = libExcused \cup ({q} \X LibIds)
    /\ UNCHANGED <<libProcs, libFrom, libStray>>

----------------------------------------
(* Their steps.                                                            *)

(* fetch_marketplace has answered.                                         *)
LibFetch(c) ==
    LET call == [libCall[c] EXCEPT !.index = libAt]
        entries(set) == SetToSeq({LibEntry(p, libAt) : p \in set})
        updates == LibUpdates(call.have.procs, libAt)
    IN
    /\ call.pc = "fetch"
    /\ LibGo(c, CASE call.op = "pack" -> [call EXCEPT !.pc = "manifest"]
                  [] call.op = "all" ->
                       [call EXCEPT !.pc = "take",
                                    !.queue = entries(LibUpdates(LibHave, libAt))]
                  [] call.op = "startup" ->
                       [call EXCEPT !.pc = "take",
                          !.queue = IF libSource = "auto" THEN entries(updates) ELSE <<>>,
                          !.kept = LibPackUpdates(call.have.packs, libAt)
                                     \cup IF libSource = "auto" THEN {} ELSE updates])
    /\ UNCHANGED <<libAt, libSource, libDisk, libMemory, libPending, libWin,
                   libCount, libGhost>>

(* The manifest is verified before any member is touched.                  *)
LibManifest(c) ==
    LET call == libCall[c]
        listed == IF call.pack \in DOMAIN LibShelf[call.index].packs
                    THEN call.index ELSE call.from
        manifest == LibNow.manifests[call.pack]
        verified == /\ call.pack \in DOMAIN LibNow.manifests
                    /\ manifest = LibShelf[listed].manifests[call.pack]
    IN
    /\ call.pc = "manifest"
    /\ LibGo(c, IF verified
                  THEN [call EXCEPT !.pc = "take", !.manifest = manifest.procs,
                          !.queue = [i \in DOMAIN call.ids |->
                                       LibEntry(call.ids[i], call.index)]]
                  ELSE LibIdle)
    /\ UNCHANGED <<libAt, libSource, libDisk, libMemory, libPending, libWin,
                   libCount, libGhost>>

LibCurrent(entry) ==
    /\ libProcs[entry.to] # LibNone
    /\ ~LibNewer(libProcs[entry.to].ver, entry.ver)

(* The next processor of the call.  An update at launch keeps on record    *)
(* who installed it.                                                       *)
LibTake(c) ==
    LET call == libCall[c]
        entry == Head(call.queue)
    IN
    /\ call.pc = "take"
    /\ LibGo(c,
         IF call.queue = <<>>
           THEN CASE call.op = "pack" -> [call EXCEPT !.pc = "packfile"]
                  [] call.op = "startup" -> [call EXCEPT !.pc = "park"]
                  [] call.op = "all" -> LibIdle
         ELSE IF call.op = "pack" /\ ~entry.listed THEN LibIdle
         ELSE IF call.op = "pack" /\ LibCurrent(entry)
           THEN [call EXCEPT !.queue = Tail(@)]
         ELSE [call EXCEPT !.pc = "download",
                 !.by = IF call.op # "startup" THEN @
                        ELSE IF libProcs[entry.to] = LibNone THEN LibNone
                        ELSE libProcs[entry.to].by])
    /\ UNCHANGED <<libAt, libSource, libDisk, libMemory, libPending, libWin,
                   libCount, libGhost>>

(* Downloaded and verified against the checksum of the row.                *)
LibDownload(c) ==
    LET call == libCall[c]
        entry == Head(call.queue)
        there == entry.id \in DOMAIN LibNow.file /\ LibNow.file[entry.id] = entry.file
    IN
    /\ call.pc = "download"
    /\ LibGo(c, IF there THEN [call EXCEPT !.pc = "persist"] ELSE LibFailed(call))
    /\ UNCHANGED <<libAt, libSource, libDisk, libMemory, libPending, libWin,
                   libCount, libGhost>>

LibDef(call) == [ver |-> Head(call.queue).file, by |-> call.by]

LibPersist(c) ==
    LET call == libCall[c]
        key == Head(call.queue).to
    IN
    /\ call.pc = "persist"
    /\ libFiles' = [libFiles EXCEPT ![key] = LibDef(call)]
    /\ LibEnters(c, key) /\ libStray' = libStray \ {key}
    /\ LibGo(c, [call EXCEPT !.pc = "insert"])
    /\ UNCHANGED <<libAt, libSource, libPackFiles, libMemory, libPending, libWin,
                   libCount, libFrom, libExcused>>

LibInsert(c) ==
    LET call == libCall[c] IN
    /\ call.pc = "insert"
    /\ libProcs' = [libProcs EXCEPT ![Head(call.queue).to] = LibDef(call)]
    /\ LibGo(c, IF call.op \in {"one", "yaml"} THEN LibIdle
                ELSE [call EXCEPT !.pc = "take", !.queue = Tail(@)])
    /\ UNCHANGED <<libAt, libSource, libDisk, libPacks, libPending, libWin,
                   libCount, libGhost>>

(* The network or the disk says no, and no file is touched, ...            *)
LibError(c) ==
    LET call == libCall[c] IN
    /\ call.pc \in {"download", "persist", "fetch", "manifest", "packfile"} /\ LibFails
    /\ LibGo(c, IF call.pc \in {"download", "persist"} THEN LibFailed(call)
                ELSE IF call.op = "startup" THEN [call EXCEPT !.pc = "park"]
                ELSE LibIdle)
    /\ UNCHANGED <<libAt, libSource, libDisk, libMemory, libPending, libWin, libGhost>>

(* ... or the disk says no after `write' has truncated the file, which the *)
(* next launch then skips.                                                 *)
LibCut(c) ==
    LET call == libCall[c]
        key == Head(call.queue).to
    IN
    /\ LibFails
    /\ \/ /\ call.pc = "persist" /\ libFiles[key] # LibNone
          /\ libFiles' = [libFiles EXCEPT ![key] = LibNone]
          /\ libStray' = libStray \cup {key}
          /\ libExcused' = libExcused \cup
                             {x \in LibPackIds \X LibIds : key = <<x[2], "m">>}
          /\ LibGo(c, LibFailed(call)) /\ UNCHANGED libPackFiles
       \/ /\ call.pc = "packfile" /\ libPackFiles[call.pack] # LibNone
          /\ libPackFiles' = [libPackFiles EXCEPT ![call.pack] = LibNone]
          /\ libStray' = libStray \cup {LibPackKey(call.pack)}
          /\ LibGo(c, LibIdle) /\ UNCHANGED <<libFiles, libExcused>>
    /\ UNCHANGED <<libAt, libSource, libMemory, libPending, libWin, libMixed, libFrom>>

MutLibPackMeta(call) == [ver |-> LibShelf[call.index].manifests[call.pack].ver,
                         procs |-> call.manifest]
(* The manifest, with the version of the row for its own.                  *)
LibPackMeta(call) == [ver |-> call.ver, procs |-> call.manifest]

LibPackFile(c) ==
    LET call == libCall[c] IN
    /\ call.pc = "packfile"
    /\ libPackFiles' = [libPackFiles EXCEPT ![call.pack] = LibPackMeta(call)]
    /\ libFrom' = [libFrom EXCEPT ![call.pack] = call.from]
    /\ LibEnters(c, LibPackKey(call.pack))
    /\ libStray' = libStray \ {LibPackKey(call.pack)}
    /\ libExcused' = {x \in libExcused : x[1] # call.pack} \cup
                       ({call.pack} \X (call.lost \cup {p \in LibIds : <<p, "m">> \in libStray}))
    /\ LibGo(c, [call EXCEPT !.pc = "upsert"])
    /\ UNCHANGED <<libAt, libSource, libFiles, libMemory, libPending, libWin, libCount>>

(* The members that pack calls in flight are to uninstall, decided already. *)
LibDoomed ==
    {e.id : e \in UNION {ToSet(libCall[d].queue) :
                          d \in {x \in LibCallers : libCall[x].op = "unpack"}}}

LibUpsertPack(c) ==
    LET call == libCall[c] IN
    /\ call.pc = "upsert"
    /\ libPacks' = [libPacks EXCEPT ![call.pack] = LibPackMeta(call)]
    /\ libExcused' = libExcused \cup ({call.pack} \X LibDoomed)
    /\ LibGo(c, LibIdle)
    /\ UNCHANGED <<libAt, libSource, libDisk, libProcs, libPending, libWin,
                   libCount, libMixed, libFrom, libStray>>

(* startup_check parks what is left, and then tells the window.            *)
LibPark(c) ==
    LET call == libCall[c] IN
    /\ call.pc = "park"
    /\ libPending' = call.kept
    /\ libWin' = [libWin EXCEPT !.found = call.kept]
    /\ LibGo(c, [call EXCEPT !.pc = "announce"])
    /\ UNCHANGED <<libAt, libSource, libDisk, libMemory, libCount, libGhost>>

LibAnnounce(c) ==
    LET call == libCall[c] IN
    /\ call.pc = "announce"
    /\ libWin' = [libWin EXCEPT !.checked = TRUE,
                     !.shown = IF libWin.listening THEN call.kept ELSE @]
    /\ LibGo(c, LibIdle)
    /\ UNCHANGED <<libAt, libSource, libDisk, libMemory, libPending, libCount, libGhost>>

MutLibOrphans(q, ids) == ToSet(ids)
(* The members no other pack has.                                          *)
LibOrphans(q, ids) ==
    {p \in ToSet(ids) : \A o \in LibPackIds \ {q} :
       libPacks[o] = LibNone \/ p \notin libPacks[o].procs}

LibOthers(c) ==
    LET call == libCall[c] IN
    /\ call.pc = "others"
    /\ LibGo(c, [call EXCEPT !.pc = "remove",
                   !.queue = SetToSeq({LibEntry(p, 1) :
                                         p \in LibOrphans(call.pack, call.ids)})])
    /\ UNCHANGED <<libAt, libSource, libDisk, libMemory, libPending, libWin,
                   libCount, libGhost>>

LibRemove(c) ==
    LET call == libCall[c]
        entry == Head(call.queue)
        installing == {libCall[d].pack : d \in {e \in LibCallers : libCall[e].op = "pack"}}
    IN
    /\ call.pc = "remove"
    /\ IF call.queue = <<>>
         THEN /\ libPacks' = [libPacks EXCEPT ![call.pack] = LibNone]
              /\ LibGo(c, [call EXCEPT !.pc = "unfile"])
              /\ LibEnters(c, LibPackKey(call.pack))
              /\ libExcused' = libExcused \cup ({call.pack} \X LibIds)
              /\ UNCHANGED libProcs
         ELSE /\ libProcs' = [libProcs EXCEPT ![entry.to] = LibNone]
              /\ LibTakesAway(c, [call EXCEPT !.pc = "delete"], entry.id)
              /\ LibEnters(c, entry.to)
              /\ libExcused' = libExcused \cup
                                 (({call.pack} \cup installing) \X {entry.id})
              /\ UNCHANGED libPacks
    /\ UNCHANGED <<libAt, libSource, libDisk, libPending, libWin, libCount, libFrom, libStray>>

(* The next one of the call.                                               *)
LibDeleted(call) ==
    IF call.op = "unpack" THEN [call EXCEPT !.pc = "remove", !.queue = Tail(@)] ELSE LibIdle

LibDelete(c) ==
    LET call == libCall[c]
        key == Head(call.queue).to
    IN
    /\ call.pc = "delete"
    /\ libFiles' = [libFiles EXCEPT ![key] = LibNone] /\ libStray' = libStray \ {key}
    /\ LibGo(c, LibDeleted(call))
    /\ UNCHANGED <<libAt, libSource, libPackFiles, libMemory, libPending, libWin,
                   libCount, libMixed, libFrom, libExcused>>

LibUnfile(c) ==
    LET call == libCall[c] IN
    /\ call.pc = "unfile"
    /\ libPackFiles' = [libPackFiles EXCEPT ![call.pack] = LibNone]
    /\ libStray' = libStray \ {LibPackKey(call.pack)}
    /\ LibGo(c, LibIdle)
    /\ UNCHANGED <<libAt, libSource, libFiles, libMemory, libPending, libWin,
                   libCount, libMixed, libFrom, libExcused>>

(* The file cannot be removed: nobody is told, and the call goes on.       *)
LibLeaves(c) ==
    LET call == libCall[c] IN
    /\ LibFails
    /\ \/ /\ call.pc = "delete" /\ libFiles[Head(call.queue).to] # LibNone
          /\ libStray' = libStray \cup {Head(call.queue).to}
          /\ LibGo(c, LibDeleted(call))
       \/ /\ call.pc = "unfile" /\ libPackFiles[call.pack] # LibNone
          /\ libStray' = libStray \cup {LibPackKey(call.pack)}
          /\ LibGo(c, LibIdle)
    /\ UNCHANGED <<libAt, libSource, libDisk, libMemory, libPending, libWin,
                   libMixed, libFrom, libExcused>>

LibStep(c) ==
    \/ LibFetch(c) \/ LibManifest(c) \/ LibTake(c) \/ LibDownload(c)
    \/ LibPersist(c) \/ LibInsert(c) \/ LibError(c) \/ LibCut(c) \/ LibPackFile(c)
    \/ LibUpsertPack(c) \/ LibPark(c) \/ LibAnnounce(c) \/ LibOthers(c)
    \/ LibRemove(c) \/ LibDelete(c) \/ LibUnfile(c) \/ LibLeaves(c)

----------------------------------------
(* The source publishes; the user edits the sources; the application is    *)
(* launched again.                                                         *)

LibPublish ==
    /\ libAt < Len(LibShelf) /\ libAt' = libAt + 1
    /\ UNCHANGED <<libSource, libDisk, libMemory, libCall, libPending, libWin,
                   libCount, libGhost>>

(* add_source, remove_source and restore_default_sources write the file    *)
(* and the memory under one lock.                                          *)
LibEditSource(source) ==
    /\ source # libSource /\ libSource' = source
    /\ source = LibNone \/ libSource = LibNone
    /\ libCount.calls < LibMaxCalls
    /\ libCount' = [libCount EXCEPT !.calls = @ + 1]
    /\ UNCHANGED <<libAt, libDisk, libMemory, libCall, libPending, libWin, libGhost>>

(* load_persisted_processors and load_packs_from_dir: all that can be read, *)
(* what was uninstalled included if its file is still there.               *)
LibRestart ==
    /\ libCount.crash < LibMaxCrash
    /\ libCount' = [libCount EXCEPT !.crash = @ + 1]
    /\ libProcs' = libFiles /\ libPacks' = libPackFiles
    /\ libCall' = [c \in LibCallers |-> LibIdle]
    /\ libPending' = {} /\ libWin' = LibNewWindow(FALSE) /\ libStray' = {}
    /\ UNCHANGED <<libAt, libSource, libDisk, libMixed, libFrom, libExcused>>

(* The window takes the seed: only one that is not empty is shown.         *)
LibSeed ==
    /\ ~libWin.seed
    /\ libPending' = {}
    /\ libWin' = [libWin EXCEPT !.seed = TRUE,
                     !.shown = IF libPending = {} THEN @ ELSE libPending]
    /\ UNCHANGED <<libAt, libSource, libDisk, libMemory, libCall, libCount, libGhost>>

(* Its listener is registered: a call of its own, after the others.        *)
LibListen ==
    /\ ~libWin.listening
    /\ libWin' = [libWin EXCEPT !.listening = TRUE]
    /\ UNCHANGED <<libAt, libSource, libDisk, libMemory, libCall, libPending,
                   libCount, libGhost>>

LibNext ==
    \/ \E c \in LibCallers :
         \/ LibStep(c)
         \/ \E k \in 1..libAt : \/ \E p \in LibIds : LibInstall(c, p, k)
                                \/ \E q \in LibPackIds : LibInstallPack(c, q, k)
         \/ \E p \in LibYamlIds : LibInstallYaml(c, p)
         \/ LibUpdateAll(c) \/ LibStartup(c)
         \/ \E key \in LibKeys : LibUninstall(c, key)
         \/ \E q \in LibPackIds, members \in BOOLEAN : LibUninstallPack(c, q, members)
    \/ LibPublish \/ LibRestart \/ LibSeed \/ LibListen
    \/ \E source \in {LibNone, "manual", "auto"} : LibEditSource(source)

LibSpec == LibInit /\ [][LibNext]_libVars

----------------------------------------
(* Properties.                                                             *)

LibAtRest(x) == \A c \in LibCallers : x \notin LibSection(libCall[c])
LibAlone(q) == LibPackKey(q) \notin libMixed \cup libStray /\ LibAtRest(LibPackKey(q))

(* What is installed is what the next launch will load, whatever failed on *)
(* the way and whichever calls ran side by side, as long as no two of them *)
(* changed the same processor or pack at once (nothing keeps them apart).  *)
(* The exception is a file that could not be removed, of which nobody is   *)
(* told, and one that a failed write has cut, until the next write or      *)
(* removal of that file that succeeds, or the next launch.                 *)
LibSurvivesRestart ==
    /\ \A key \in LibKeys \ (libMixed \cup libStray) :
         LibAtRest(key) => libProcs[key] = libFiles[key]
    /\ \A q \in LibPackIds : LibAlone(q) => libPacks[q] = libPackFiles[q]

(* The members that the row of a pack named when it was installed.         *)
LibNamed(q) == IF libFrom[q] = 0 THEN {} ELSE ToSet(LibShelf[libFrom[q]].packs[q].ids)

(* A pack that is listed has the members it was installed with: one that   *)
(* was being installed when it failed is not listed, and another pack that *)
(* is uninstalled leaves what they share, unless both were under way at    *)
(* once or a failed write cut the member's file.  (A member that only a    *)
(* later manifest names is listed without being installed when the         *)
(* caller's row is an old one.)                                            *)
LibPacksComplete ==
    \A q \in LibPackIds :
      libPacks[q] # LibNone /\ LibAlone(q) =>
        \A p \in libPacks[q].procs \cap LibNamed(q) :
          \/ libProcs[<<p, "m">>] # LibNone
          \/ <<q, p>> \in libExcused \/ <<p, "m">> \in libMixed

(* A pack installed from the publication that is still the current one is  *)
(* not offered as an update again, even if its manifest lags, as long as   *)
(* its manifest has the members that its row names.                        *)
LibPackUpdateSettles ==
    \A q \in LibPackIds \cap DOMAIN LibNow.packs :
      /\ libFrom[q] = libAt /\ LibAlone(q)
      /\ ToSet(LibNow.packs[q].ids) \subseteq LibNow.manifests[q].procs
      => q \notin LibPackUpdates(libPacks, libAt)

LibrarySound == LibSurvivesRestart /\ LibPacksComplete /\ LibPackUpdateSettles

(* "either order of `check finishes' vs `window subscribes' works"         *)
(* (services/marketplace.rs:744): once the check is done, the seed taken   *)
(* and the listener there, the window shows what was found.  Refuted: the  *)
(* check may end after the seed was read and before the listener is there. *)
LibUpdatesReachTheWindow ==
    libWin.checked /\ libWin.seed /\ libWin.listening =>
      libWin.found \subseteq libWin.shown
=============================================================================
