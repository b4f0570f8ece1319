-------------------------- MODULE Library_proofs --------------------------
\* Proofs about the library of processors and packs (Library): what is
\* installed is what the next launch loads, a listed pack has its members,
\* and a pack that is current is not offered again.
EXTENDS Library, TLAPS, SequenceTheorems, FiniteSetTheorems

----------------------------------------
\* The inductive invariant.

\* A pack call has the row its caller saw, and from the manifest on the
\* members of a publication that is not older.
LibPackRow(call) ==
    /\ call.pack \in LibPackIds /\ call.from \in 1..libAt
    /\ call.pack \in DOMAIN LibShelf[call.from].packs
    /\ call.ver = LibShelf[call.from].packs[call.pack].ver
    /\ call.ids = LibShelf[call.from].packs[call.pack].ids
LibManifestOf(q, procs, from) ==
    \E m \in from..libAt :
      q \in DOMAIN LibShelf[m].manifests /\ procs = LibShelf[m].manifests[q].procs

\* Where a call can be, by what it does, and what it then has.
LibInstalls == {"one", "yaml", "pack", "all", "startup"}
LibSeeing == {"take", "download", "persist", "insert", "packfile"}
LibCallSane(call) ==
    /\ call.pc \in {"download", "persist", "insert", "delete"} => call.queue # <<>>
    /\ call.pc \in {"fetch", "take"} => call.op \in {"pack", "all", "startup"}
    /\ call.pc \in {"download", "persist", "insert"} => call.op \in LibInstalls
    /\ call.pc \in {"manifest", "packfile", "upsert"} => call.op = "pack"
    /\ call.pc \in {"others", "remove", "unfile"} => call.op = "unpack"
    /\ call.pc = "delete" => call.op \in {"uninstall", "unpack"}
    /\ call.pc \in {"park", "announce"} => call.op = "startup"
    /\ call.pc = "packfile" => call.queue = <<>>
    /\ call.pc = "manifest" => call.index \in 1..Len(LibShelf)
    /\ call.op = "pack" => LibPackRow(call)
    /\ call.op = "unpack" => call.pack \in LibPackIds
    /\ call.op \in {"pack", "unpack"} =>
         \A e \in ToSet(call.queue) : e.to = <<e.id, "m">>
    /\ call.pc \in LibSeeing /\ call.op = "pack" =>
         LibManifestOf(call.pack, call.manifest, call.from)
LibSane == \A c \in LibCallers : LibCallSane(libCall[c])

\* What is installed, in memory and on disk: a processor or a pack.
LibThings == LibKeys \cup {LibPackKey(q) : q \in LibPackIds}
LibMem == [x \in LibThings |-> IF x \in LibKeys THEN libProcs[x] ELSE libPacks[x[1]]]
LibDsk == [x \in LibThings |-> IF x \in LibKeys THEN libFiles[x] ELSE libPackFiles[x[1]]]

\* Of what no two calls changed at once, at most one call is changing
\* anything; half way it has changed one side, and at rest the two sides
\* are the same, but for a file that a failed removal or write has left.
LibIn(c, x) == x \in LibSection(libCall[c])
LibWrote(call) == IF call.pc = "insert" THEN LibDef(call) ELSE LibPackMeta(call)
LibAgreeAt(x) ==
    /\ \A c, d \in LibCallers : LibIn(c, x) /\ LibIn(d, x) => c = d
    /\ \A c \in LibCallers : LibIn(c, x) =>
         IF libCall[c].pc \in {"insert", "upsert"}
           THEN LibDsk[x] = LibWrote(libCall[c]) \/ x \in libStray
         ELSE LibMem[x] = LibNone
    /\ LibAtRest(x) => LibMem[x] = LibDsk[x] \/ x \in libStray
LibAgree == \A x \in LibThings \ libMixed : LibAgreeAt(x)

\* The members a pack call has seen to are there, unless they were taken
\* away since.
LibThere(p) == libProcs[<<p, "m">>] # LibNone
LibHasSeen(call) ==
    call.op = "pack" /\ call.pc \in LibSeeing =>
      \A p \in ToSet(call.ids) :
        (\E e \in ToSet(call.queue) : e.id = p) \/ LibThere(p) \/ p \in call.lost
LibMembersSeen == \A c \in LibCallers : LibHasSeen(libCall[c])

\* So are those of a pack whose file the next launch will read.
LibFilesComplete ==
    \A q \in LibPackIds :
      libPackFiles[q] # LibNone /\ LibPackKey(q) \notin libMixed =>
        \A p \in libPackFiles[q].procs \cap LibNamed(q) :
          LibThere(p) \/ <<q, p>> \in libExcused \/ <<p, "m">> \in libMixed

\* A pack that is about to lose its file owes nothing, ...
LibUnfiledExcused ==
    \A c \in LibCallers :
      libCall[c].pc = "unfile" /\ LibPackKey(libCall[c].pack) \notin libMixed =>
        {libCall[c].pack} \X LibIds \subseteq libExcused

\* ... and a member that a pack call is to uninstall is one that no other
\* pack has, or will have when its installation ends.
LibNotOf(q, p) == libPacks[q] = LibNone \/ p \notin libPacks[q].procs
LibUpserting(q) == \E c \in LibCallers : libCall[c].pc = "upsert" /\ libCall[c].pack = q
LibDoomedAlone ==
    \A d \in LibCallers : libCall[d].op = "unpack" =>
      \A e \in ToSet(libCall[d].queue), q \in LibPackIds \ {libCall[d].pack} :
        LibNotOf(q, e.id) \/ <<q, e.id>> \in libExcused \/ LibUpserting(q)
\* A member whose file was cut is owed to no pack, and a pack whose file
\* could not be removed owes nothing.
LibStrayExcused ==
    /\ \A p \in LibIds : <<p, "m">> \in libStray /\ libFiles[<<p, "m">>] = LibNone =>
         LibPackIds \X {p} \subseteq libExcused
    /\ \A q \in LibPackIds :
         LibPackKey(q) \in libStray \ libMixed /\ libPackFiles[q] # LibNone =>
           {q} \X LibIds \subseteq libExcused
LibMembersInv ==
    /\ LibMembersSeen /\ LibFilesComplete /\ LibUnfiledExcused /\ LibDoomedAlone /\ LibStrayExcused

\* The file of a pack has the version of the row it was installed with and
\* the members of that publication's manifest or a later one's.
LibFromRow ==
    \A q \in LibPackIds : libPackFiles[q] # LibNone =>
      /\ libFrom[q] \in 1..libAt /\ q \in DOMAIN LibShelf[libFrom[q]].packs
      /\ libPackFiles[q].ver = LibShelf[libFrom[q]].packs[q].ver
      /\ LibManifestOf(q, libPackFiles[q].procs, libFrom[q])

LibInv == LibTypeOK /\ LibSane /\ LibAgree /\ LibMembersInv /\ LibFromRow

----------------------------------------
\* Sequences, entries and the locals of a call.

LEMMA LibQueue ==
  ASSUME NEW S, NEW s \in Seq(S), s # <<>>
  PROVE  /\ Head(s) \in S /\ Tail(s) \in Seq(S)
         /\ Head(s) \in ToSet(s) /\ ToSet(Tail(s)) \subseteq ToSet(s)
         /\ \A e \in ToSet(s) : e = Head(s) \/ e \in ToSet(Tail(s))
<1>1. Head(s) = s[1] /\ Tail(s) \in Seq(S) /\ Len(s) \in Nat /\ Len(s) > 0
      /\ Len(Tail(s)) = Len(s) - 1 /\ \A i \in 1..Len(Tail(s)) : Tail(s)[i] = s[i + 1]
  BY HeadTailProperties, LenProperties, EmptySeq
<1>2. DOMAIN s = 1..Len(s) /\ DOMAIN Tail(s) = 1..Len(Tail(s)) /\ \A i \in 1..Len(s) : s[i] \in S
  BY <1>1, LenProperties, ElementOfSeq
<1>3. \A e \in ToSet(s) : e = Head(s) \/ e \in ToSet(Tail(s))
  <2> SUFFICES ASSUME NEW i \in 1..Len(s)
               PROVE  s[i] = Head(s) \/ s[i] \in ToSet(Tail(s)) BY <1>2 DEF ToSet
  <2>1. CASE i = 1 BY <2>1, <1>1
  <2>2. CASE i # 1
    <3>1. i - 1 \in 1..Len(Tail(s)) /\ (i - 1) + 1 = i BY <2>2, <1>1
    <3>2. Tail(s)[i - 1] = s[i] BY <3>1, <1>1
    <3> QED BY <3>1, <3>2, <1>2 DEF ToSet
  <2> QED BY <2>1, <2>2
<1>4. ToSet(Tail(s)) \subseteq ToSet(s)
  <2> SUFFICES ASSUME NEW i \in 1..Len(Tail(s))
               PROVE  Tail(s)[i] \in ToSet(s) BY <1>2 DEF ToSet
  <2>1. i + 1 \in 1..Len(s) BY <1>1
  <2> QED BY <2>1, <1>1, <1>2 DEF ToSet
<1>5. 1 \in 1..Len(s) BY <1>1
<1> QED BY <1>1, <1>2, <1>3, <1>4, <1>5 DEF ToSet

LEMMA LibSetAsSeq ==
  ASSUME NEW S, IsFiniteSet(S)
  PROVE  SetToSeq(S) \in Seq(S)
<1>1. Cardinality(S) \in Nat /\ ExistsBijection(1..Cardinality(S), S) BY FS_CardinalityType
<1>2. PICK f \in [1..Cardinality(S) -> S] : IsInjective(f)
  BY <1>1 DEF ExistsBijection, Bijection, Injection
<1>3. SetToSeq(S) \in [1..Cardinality(S) -> S] BY <1>2 DEF SetToSeq
<1> QED BY <1>1, <1>3, IsASeq

LEMMA LibSeqElements ==
  ASSUME NEW S, NEW s \in Seq(S)
  PROVE  ToSet(s) \subseteq S BY ElementOfSeq, LenProperties DEF ToSet

LEMMA LibEntryType ==
  ASSUME NEW p \in LibIds, NEW k \in 1..Len(LibShelf)
  PROVE  /\ LibEntry(p, k) \in LibEntries /\ LibEntry(p, k).id = p /\ LibEntry(p, k).to = <<p, "m">>
BY LibAssumption DEF LibEntry, LibEntries, LibKeys

LEMMA LibRows ==
  ASSUME NEW set \in SUBSET LibIds, NEW k \in 1..Len(LibShelf)
  PROVE  LET rows == SetToSeq({LibEntry(p, k) : p \in set})
         IN  /\ rows \in Seq(LibEntries)
             /\ \A e \in ToSet(rows) : e.id \in set /\ e.to = <<e.id, "m">>
<1> DEFINE T == {LibEntry(p, k) : p \in set}
           f == [p \in set |-> LibEntry(p, k)]
<1>1. IsFiniteSet(set) BY FS_Subset, LibAssumption
<1>2. f \in Surjection(set, T) BY DEF Surjection
<1>3. IsFiniteSet(T) BY <1>1, <1>2, FS_Surjection
<1>4. SetToSeq(T) \in Seq(T) BY <1>3, LibSetAsSeq
<1>5. \A e \in T : e \in LibEntries /\ e.id \in set /\ e.to = <<e.id, "m">> BY LibEntryType
<1>6. SetToSeq(T) \in Seq(LibEntries) BY <1>4, <1>5, SeqMonotonic
<1>7. ToSet(SetToSeq(T)) \subseteq T BY <1>4, LibSeqElements
<1> QED BY <1>5, <1>6, <1>7

LEMMA LibIdsAsSeq ==
  ASSUME NEW set \in SUBSET LibIds
  PROVE  SetToSeq(set) \in Seq(LibIds) BY FS_Subset, LibAssumption, LibSetAsSeq, SeqMonotonic

LEMMA LibIdleType == LibIdle \in LibLocals
<1>1. <<>> \in Seq(LibEntries) /\ <<>> \in Seq(LibIds) /\ 0 \in 0..Len(LibShelf)
  BY LibAssumption, EmptySeq
<1>2. "idle" \in LibPcs /\ LibNone \in LibOps /\ LibNone \in LibWriters /\ LibNone \in LibHaves
  BY DEF LibPcs, LibOps, LibWriters, LibHaves
<1> QED BY <1>1, <1>2 DEF LibIdle, LibLocals

LEMMA LibOneEntry ==
  ASSUME NEW e \in LibEntries
  PROVE  <<e>> \in Seq(LibEntries) /\ ToSet(<<e>>) = {e} /\ <<e>> # <<>> /\ Head(<<e>>) = e
<1>1. <<e>> \in Seq(LibEntries) /\ Len(<<e>>) = 1 /\ <<e>>[1] = e /\ DOMAIN <<e>> = 1..1 OBVIOUS
<1> QED BY <1>1 DEF ToSet

\* What a call's locals become by the steps that change one or two of them.
LEMMA LibLocalsSteps ==
  ASSUME NEW r \in LibLocals
  PROVE  /\ \A pc \in LibPcs : [r EXCEPT !.pc = pc] \in LibLocals
         /\ \A p \in LibIds : [r EXCEPT !.lost = @ \cup {p}] \in LibLocals
         /\ \A pc \in LibPcs, by \in LibWriters :
              [r EXCEPT !.pc = pc, !.by = by] \in LibLocals
         /\ \A pc \in LibPcs, q \in Seq(LibEntries) :
              [r EXCEPT !.pc = pc, !.queue = q] \in LibLocals
         /\ \A q \in Seq(LibEntries) : [r EXCEPT !.queue = q] \in LibLocals
         /\ \A k \in 0..Len(LibShelf) : [r EXCEPT !.index = k] \in LibLocals
         /\ \A pc \in LibPcs, q \in Seq(LibEntries), x \in SUBSET (LibIds \cup LibPackIds) :
              [r EXCEPT !.pc = pc, !.queue = q, !.kept = x] \in LibLocals
         /\ \A pc \in LibPcs, m \in SUBSET LibIds, q \in Seq(LibEntries) :
              [r EXCEPT !.pc = pc, !.manifest = m, !.queue = q] \in LibLocals BY DEF LibLocals

LEMMA LibFailedType ==
  ASSUME NEW call \in LibLocals, call.queue # <<>>
  PROVE  LibFailed(call) \in LibLocals
<1>1. Head(call.queue) \in LibEntries /\ Tail(call.queue) \in Seq(LibEntries)
  BY LibQueue DEF LibLocals
<1>2. call.kept \cup {Head(call.queue).id} \in SUBSET (LibIds \cup LibPackIds)
  BY <1>1 DEF LibLocals, LibEntries
<1>3. "take" \in LibPcs BY DEF LibPcs
<1> QED BY <1>1, <1>2, <1>3, LibLocalsSteps, LibIdleType DEF LibFailed

LEMMA LibDefType ==
  ASSUME NEW call \in LibLocals, call.queue # <<>>
  PROVE  LibDef(call) \in LibDefs /\ LibDef(call) # LibNone /\ Head(call.queue).to \in LibKeys
<1>1. Head(call.queue) \in LibEntries BY LibQueue DEF LibLocals
<1> QED BY <1>1, LibAssumption DEF LibDef, LibDefs, LibLocals, LibEntries

LEMMA LibMetaType ==
  ASSUME NEW call \in LibLocals
  PROVE  LibPackMeta(call) \in LibMetas /\ LibPackMeta(call) # LibNone
BY LibAssumption DEF LibPackMeta, LibMetas, LibLocals

----------------------------------------
\* Types, and what a call has where.

LEMMA LibCallUpdate ==
  ASSUME LibTypeOK, LibSane, NEW c \in LibCallers, NEW call \in LibLocals,
         LibCallSane(call), LibGo(c, call), libAt' = libAt
  PROVE  libCall' \in [LibCallers -> LibLocals] /\ LibSane'
<1>1. libCall' = [libCall EXCEPT ![c] = call] /\ libCall \in [LibCallers -> LibLocals]
  BY DEF LibGo, LibTypeOK
<1>2. \A d \in LibCallers : libCall'[d] = IF d = c THEN call ELSE libCall[d] BY <1>1
<1>3. \A d \in LibCallers : LibCallSane(libCall'[d]) BY <1>2 DEF LibSane
<1> QED BY SMTT(30), <1>1, <1>3 DEF LibSane, LibCallSane, LibPackRow, LibManifestOf

LEMMA LibLostSane ==
  ASSUME NEW r \in LibLocals, LibCallSane(r), NEW p \in LibIds
  PROVE  LibCallSane([r EXCEPT !.lost = @ \cup {p}]) BY DEF LibLocals, LibCallSane, LibPackRow

LEMMA LibTakesAwayUpdate ==
  ASSUME LibTypeOK, LibSane, NEW c \in LibCallers, NEW call \in LibLocals,
         LibCallSane(call), NEW p \in LibIds, LibTakesAway(c, call, p), libAt' = libAt
  PROVE  libCall' \in [LibCallers -> LibLocals] /\ LibSane'
<1>1. \A d \in LibCallers : libCall[d] \in LibLocals /\ LibCallSane(libCall[d])
  BY DEF LibTypeOK, LibSane
<1>2. \A d \in LibCallers : /\ [libCall[d] EXCEPT !.lost = @ \cup {p}] \in LibLocals
                            /\ LibCallSane([libCall[d] EXCEPT !.lost = @ \cup {p}])
  BY <1>1, LibLostSane, LibLocalsSteps
<1>3. \A d \in LibCallers : libCall'[d] \in LibLocals /\ LibCallSane(libCall'[d])
  BY <1>1, <1>2 DEF LibTakesAway
<1>4. libCall' \in [LibCallers -> LibLocals] BY <1>3 DEF LibTakesAway
<1> QED BY SMTT(30), <1>3, <1>4 DEF LibSane, LibCallSane, LibPackRow, LibManifestOf

LEMMA LibIdleSane == LibCallSane(LibIdle)
<1>1. ToSet(<<>>) = {} BY DEF ToSet
<1> QED BY <1>1, LibAssumption DEF LibIdle, LibCallSane, LibSeeing

LEMMA LibInstallTypes ==
  ASSUME LibTypeOK, LibSane, NEW c \in LibCallers, NEW p \in LibIds, NEW k \in 1..libAt,
         LibInstall(c, p, k)
  PROVE  LibTypeOK' /\ LibSane'
<1> DEFINE call == [LibIdle EXCEPT !.pc = "download", !.op = "one", !.by = "ui",
                                   !.queue = <<LibEntry(p, k)>>]
<1>1. k \in 1..Len(LibShelf) BY LibAssumption DEF LibTypeOK
<1>2. call \in LibLocals BY <1>1, LibEntryType, LibOneEntry, LibIdleType DEF LibLocals, LibIdle,
     LibPcs, LibOps, LibWriters
<1>3. LibCallSane(call)
  BY <1>1, LibEntryType, LibOneEntry DEF LibIdle, LibCallSane, LibInstalls, LibSeeing
<1>4. LibGo(c, call) /\ UNCHANGED <<libAt, libSource, libDisk, libMemory, libGhost>>
  BY DEF LibInstall, LibBegin, LibCounted, libDisk
<1> QED BY <1>2, <1>3, <1>4, LibCallUpdate DEF LibTypeOK, libDisk, libMemory, libGhost

LEMMA LibInstallYamlTypes ==
  ASSUME LibTypeOK, LibSane, NEW c \in LibCallers, NEW p \in LibYamlIds, LibInstallYaml(c, p)
  PROVE  LibTypeOK' /\ LibSane'
<1> DEFINE entry == [LibEntry(p, 1) EXCEPT !.to = <<p, "yaml">>]
           call == [LibIdle EXCEPT !.pc = "persist", !.op = "yaml", !.by = "agent",
                                   !.queue = <<entry>>]
<1>1. p \in LibIds /\ 1 \in 1..Len(LibShelf) /\ <<p, "yaml">> \in LibKeys
  BY LibAssumption DEF LibKeys
<1>2. entry \in LibEntries BY <1>1, LibEntryType DEF LibEntries
<1> HIDE DEF entry
<1>3. call \in LibLocals
  BY <1>2, LibOneEntry, LibIdleType DEF LibLocals, LibIdle, LibPcs, LibOps, LibWriters
<1>4. LibCallSane(call) BY <1>2, LibOneEntry DEF LibIdle, LibCallSane, LibInstalls, LibSeeing
<1>5. LibGo(c, call) /\ UNCHANGED <<libAt, libSource, libDisk, libMemory, libGhost>>
  BY DEF LibInstallYaml, LibBegin, LibCounted, libDisk, entry
<1> QED BY <1>3, <1>4, <1>5, LibCallUpdate DEF LibTypeOK, libDisk, libMemory, libGhost

LEMMA LibInstallPackTypes ==
  ASSUME LibTypeOK, LibSane, NEW c \in LibCallers, NEW q \in LibPackIds, NEW k \in 1..libAt,
         LibInstallPack(c, q, k)
  PROVE  LibTypeOK' /\ LibSane'
<1> DEFINE row == LibShelf[k].packs[q]
           call == [LibIdle EXCEPT !.pc = "fetch", !.op = "pack", !.by = "agent",
                       !.pack = q, !.ver = row.ver, !.ids = row.ids, !.from = k]
<1>1. k \in 0..Len(LibShelf) /\ q \in DOMAIN LibShelf[k].packs
  BY LibAssumption DEF LibTypeOK, LibInstallPack
<1>2. row.ver \in Nat /\ row.ids \in Seq(LibIds) BY <1>1, LibAssumption DEF LibTypeOK
<1>3. call \in LibLocals
  BY <1>1, <1>2, LibIdleType DEF LibLocals, LibIdle, LibPcs, LibOps, LibWriters
<1>4. ToSet(<<>>) = {} BY DEF ToSet
<1>5. LibCallSane(call) BY <1>1, <1>4 DEF LibIdle, LibCallSane, LibInstalls, LibSeeing, LibPackRow
<1>6. LibGo(c, call) /\ UNCHANGED <<libAt, libSource, libDisk, libMemory, libGhost>>
  BY DEF LibInstallPack, LibBegin, LibCounted, libDisk
<1> QED BY <1>3, <1>5, <1>6, LibCallUpdate DEF LibTypeOK, libDisk, libMemory, libGhost

LEMMA LibUpdateAllTypes ==
  ASSUME LibTypeOK, LibSane, NEW c \in LibCallers, LibUpdateAll(c)
  PROVE  LibTypeOK' /\ LibSane'
<1> DEFINE call == [LibIdle EXCEPT !.pc = "fetch", !.op = "all", !.by = "ui"]
<1>1. call \in LibLocals BY LibIdleType DEF LibLocals, LibIdle, LibPcs, LibOps, LibWriters
<1>2. LibCallSane(call) BY DEF LibIdle, LibCallSane, LibInstalls, LibSeeing
<1>3. LibGo(c, call) /\ UNCHANGED <<libAt, libSource, libDisk, libMemory, libGhost>>
  BY DEF LibUpdateAll, LibBegin, LibCounted, libDisk
<1> QED BY <1>1, <1>2, <1>3, LibCallUpdate DEF LibTypeOK, libDisk, libMemory, libGhost

LEMMA LibStartupTypes ==
  ASSUME LibTypeOK, LibSane, NEW c \in LibCallers, LibStartup(c)
  PROVE  LibTypeOK' /\ LibSane'
<1> DEFINE had == [procs |-> LibHave, packs |-> libPacks]
           call == [LibIdle EXCEPT !.pc = "fetch", !.op = "startup", !.have = had]
<1>1. \A p \in LibIds : libProcs[<<p, "m">>] \in LibDefs \cup {LibNone} BY DEF LibTypeOK, LibKeys
<1>2. LibHave \in [LibIds -> Nat \cup {LibNone}] BY <1>1 DEF LibHave, LibDefs
<1>3. had \in LibHaves BY <1>2 DEF LibHaves, LibTypeOK
<1> HIDE DEF had
<1>4. call \in LibLocals BY <1>3, LibIdleType DEF LibLocals, LibIdle, LibPcs, LibOps
<1>5. LibCallSane(call) BY DEF LibIdle, LibCallSane, LibInstalls, LibSeeing
<1>6. LibGo(c, call) /\ UNCHANGED <<libAt, libSource, libDisk, libMemory, libGhost>>
  BY DEF LibStartup, LibBegin, LibCounted, libDisk, had
<1> QED BY <1>4, <1>5, <1>6, LibCallUpdate DEF LibTypeOK, libDisk, libMemory, libGhost

LEMMA LibEntersType ==
  ASSUME LibTypeOK, NEW c \in LibCallers, NEW x \in LibThings, LibEnters(c, x)
  PROVE  libMixed' \subseteq LibThings /\ libMixed \subseteq libMixed'
         /\ libMixed' \subseteq libMixed \cup {x} BY DEF LibEnters, LibTypeOK, LibThings

LEMMA LibUninstallTypes ==
  ASSUME LibTypeOK, LibSane, NEW c \in LibCallers, NEW key \in LibKeys, LibUninstall(c, key)
  PROVE  LibTypeOK' /\ LibSane'
<1> DEFINE entry == [LibEntry(key[1], 1) EXCEPT !.to = key]
           call == [LibIdle EXCEPT !.pc = "delete", !.op = "uninstall", !.queue = <<entry>>]
<1>1. key[1] \in LibIds /\ 1 \in 1..Len(LibShelf) BY LibAssumption DEF LibKeys
<1>2. entry \in LibEntries BY <1>1, LibEntryType DEF LibEntries
<1>3. UNCHANGED <<libAt, libSource, libFiles, libPackFiles, libPacks, libFrom, libStray>>
  BY DEF LibUninstall, LibCounted
<1>4. LibEnters(c, key) /\ libProcs' = [libProcs EXCEPT ![key] = LibNone] BY DEF LibUninstall
<1>5. \/ LibTakesAway(c, call, key[1]) /\ libExcused' = libExcused \cup (LibPackIds \X {key[1]})
      \/ LibGo(c, call) /\ libExcused' = libExcused BY DEF LibUninstall
<1> HIDE DEF entry
<1>6. call \in LibLocals
  BY <1>2, LibOneEntry, LibIdleType DEF LibLocals, LibIdle, LibPcs, LibOps, LibWriters
<1>7. LibCallSane(call) BY <1>2, LibOneEntry DEF LibIdle, LibCallSane, LibInstalls, LibSeeing
<1> HIDE DEF call
<1>8. libCall' \in [LibCallers -> LibLocals] /\ LibSane'
  BY <1>1, <1>3, <1>5, <1>6, <1>7, LibCallUpdate, LibTakesAwayUpdate
<1>9. libMixed' \subseteq LibThings BY <1>4, LibEntersType DEF LibThings
<1>10. libExcused' \subseteq LibPackIds \X LibIds BY <1>1, <1>5 DEF LibTypeOK
<1>11. libProcs' \in [LibKeys -> LibDefs \cup {LibNone}] BY <1>4 DEF LibTypeOK
<1> QED BY <1>3, <1>8, <1>9, <1>10, <1>11 DEF LibTypeOK, LibThings

LEMMA LibUninstallPackTypes ==
  ASSUME LibTypeOK, LibSane, NEW c \in LibCallers, NEW q \in LibPackIds,
         NEW members \in BOOLEAN, LibUninstallPack(c, q, members)
  PROVE  LibTypeOK' /\ LibSane'
<1> DEFINE call == [LibIdle EXCEPT !.pc = IF members THEN "others" ELSE "unfile",
                       !.op = "unpack", !.pack = q, !.ids = SetToSeq(libPacks[q].procs)]
<1>1. libPacks[q].procs \in SUBSET LibIds BY DEF LibUninstallPack, LibTypeOK, LibMetas
<1>2. SetToSeq(libPacks[q].procs) \in Seq(LibIds) BY <1>1, LibIdsAsSeq
<1>3. call \in LibLocals BY <1>2, LibIdleType DEF LibLocals, LibIdle, LibPcs, LibOps
<1>4. ToSet(<<>>) = {} BY DEF ToSet
<1>5. LibCallSane(call) BY <1>4 DEF LibIdle, LibCallSane, LibInstalls, LibSeeing
<1>6. LibGo(c, call) /\ UNCHANGED <<libAt, libSource, libFiles, libPackFiles, libProcs, libFrom, libStray>>
      /\ libExcused' = libExcused \cup ({q} \X LibIds) BY DEF LibUninstallPack, LibBegin, LibCounted
<1>7. LibPackKey(q) \in LibThings BY DEF LibThings
<1>8. /\ libMixed' \subseteq LibThings /\ libPacks' \in [LibPackIds -> LibMetas \cup {LibNone}]
  <2>1. CASE members BY <2>1 DEF LibUninstallPack, LibTypeOK, LibThings
  <2>2. CASE ~members BY <2>2, <1>7, LibEntersType DEF LibUninstallPack, LibTypeOK
  <2> QED BY <2>1, <2>2
<1>9. libExcused' \subseteq LibPackIds \X LibIds BY <1>6 DEF LibTypeOK
<1> QED BY <1>3, <1>5, <1>6, <1>8, <1>9, LibCallUpdate DEF LibTypeOK, LibThings

LEMMA LibFetchTypes ==
  ASSUME LibTypeOK, LibSane, NEW c \in LibCallers, LibFetch(c)
  PROVE  LibTypeOK' /\ LibSane'
<1> DEFINE call == [libCall[c] EXCEPT !.index = libAt]
           updates == LibUpdates(call.have.procs, libAt)
           all == SetToSeq({LibEntry(p, libAt) : p \in LibUpdates(LibHave, libAt)})
           mine == IF libSource = "auto" THEN SetToSeq({LibEntry(p, libAt) : p \in updates})
                   ELSE <<>>
           kept == LibPackUpdates(call.have.packs, libAt)
                     \cup IF libSource = "auto" THEN {} ELSE updates
<1>1. libCall[c] \in LibLocals /\ libAt \in 0..Len(LibShelf) /\ libAt \in 1..Len(LibShelf)
      /\ LibCallSane(libCall[c]) /\ libCall[c].pc = "fetch"
  BY LibAssumption DEF LibTypeOK, LibFetch, LibSane
<1>2. call \in LibLocals BY <1>1, LibLocalsSteps
<1>3. call.op = libCall[c].op /\ call.pack = libCall[c].pack /\ call.from = libCall[c].from
      /\ call.ver = libCall[c].ver /\ call.ids = libCall[c].ids /\ call.pc = "fetch"
      /\ call.queue = libCall[c].queue /\ call.manifest = libCall[c].manifest
      /\ call.kept = libCall[c].kept /\ call.have = libCall[c].have /\ call.index = libAt
  BY <1>1 DEF LibLocals
<1>4. call.op \in {"pack", "all", "startup"} BY <1>1, <1>3 DEF LibCallSane
<1>5. \A set : LibUpdates(set, libAt) \in SUBSET LibIds BY <1>1, LibAssumption DEF LibUpdates
<1>6. all \in Seq(LibEntries) /\ mine \in Seq(LibEntries) BY <1>1, <1>5, LibRows, EmptySeq
<1>7. kept \in SUBSET (LibIds \cup LibPackIds) BY <1>1, <1>5, LibAssumption DEF LibPackUpdates
<1>8. LibGo(c, CASE call.op = "pack" -> [call EXCEPT !.pc = "manifest"]
                 [] call.op = "all" -> [call EXCEPT !.pc = "take", !.queue = all]
                 [] call.op = "startup" ->
                      [call EXCEPT !.pc = "take", !.queue = mine, !.kept = kept]) BY DEF LibFetch
<1>9. UNCHANGED <<libAt, libSource, libDisk, libMemory, libGhost>> BY DEF LibFetch
<1> HIDE DEF call, all, mine, kept
<1>10. "manifest" \in LibPcs /\ "take" \in LibPcs BY DEF LibPcs
<1>11. CASE call.op = "pack"
  <2> DEFINE next == [call EXCEPT !.pc = "manifest"]
  <2>1. next \in LibLocals BY <1>2, <1>10, LibLocalsSteps
  <2>2. LibCallSane(next)
    BY <1>11, <1>1, <1>2, <1>3 DEF LibCallSane, LibLocals, LibPackRow, LibSeeing, LibInstalls
  <2>3. LibGo(c, next) BY <1>8, <1>11
  <2> QED BY <2>1, <2>2, <2>3, <1>9, LibCallUpdate DEF LibTypeOK, libDisk, libMemory, libGhost
<1>12. CASE call.op = "all"
  <2> DEFINE next == [call EXCEPT !.pc = "take", !.queue = all]
  <2>1. next \in LibLocals BY <1>2, <1>6, <1>10, LibLocalsSteps
  <2>2. LibCallSane(next) BY <1>12, <1>2 DEF LibCallSane, LibLocals, LibSeeing, LibInstalls
  <2>3. LibGo(c, next) BY <1>8, <1>12
  <2> QED BY <2>1, <2>2, <2>3, <1>9, LibCallUpdate DEF LibTypeOK, libDisk, libMemory, libGhost
<1>13. CASE call.op = "startup"
  <2> DEFINE next == [call EXCEPT !.pc = "take", !.queue = mine, !.kept = kept]
  <2>1. next \in LibLocals BY <1>2, <1>6, <1>7, <1>10, LibLocalsSteps
  <2>2. LibCallSane(next) BY <1>13, <1>2 DEF LibCallSane, LibLocals, LibSeeing, LibInstalls
  <2>3. LibGo(c, next) BY <1>8, <1>13
  <2> QED BY <2>1, <2>2, <2>3, <1>9, LibCallUpdate DEF LibTypeOK, libDisk, libMemory, libGhost
<1> QED BY <1>4, <1>11, <1>12, <1>13

LEMMA LibManifestTypes ==
  ASSUME LibTypeOK, LibSane, NEW c \in LibCallers, LibManifest(c)
  PROVE  LibTypeOK' /\ LibSane'
<1> DEFINE call == libCall[c]
           procs == LibNow.manifests[call.pack].procs
           queue == [i \in DOMAIN call.ids |-> LibEntry(call.ids[i], call.index)]
           next == [call EXCEPT !.pc = "take", !.manifest = procs, !.queue = queue]
<1>1. call \in LibLocals /\ libAt \in 1..Len(LibShelf) /\ LibCallSane(call) /\ call.pc = "manifest"
  BY DEF LibTypeOK, LibManifest, LibSane
<1>2. UNCHANGED <<libAt, libSource, libDisk, libMemory, libGhost>> BY DEF LibManifest
<1>3. \/ LibGo(c, LibIdle)
      \/ LibGo(c, next) /\ call.pack \in DOMAIN LibNow.manifests BY DEF LibManifest
<1>4. CASE LibGo(c, LibIdle)
  BY <1>4, <1>2, LibIdleType, LibIdleSane, LibCallUpdate DEF LibTypeOK, libDisk, libMemory, libGhost
<1>5. CASE LibGo(c, next) /\ call.pack \in DOMAIN LibNow.manifests
  <2>1. procs \in SUBSET LibIds BY <1>1, <1>5, LibAssumption DEF LibNow
  <2>2. call.ids \in Seq(LibIds) /\ call.index \in 1..Len(LibShelf) /\ call.op = "pack"
    BY <1>1 DEF LibLocals, LibCallSane
  <2>3. DOMAIN call.ids = 1..Len(call.ids) /\ Len(call.ids) \in Nat
        /\ \A i \in DOMAIN call.ids : call.ids[i] \in LibIds BY <2>2, ElementOfSeq, LenProperties
  <2>4. queue \in [1..Len(call.ids) -> LibEntries] BY <2>2, <2>3, LibEntryType
  <2>5. queue \in Seq(LibEntries) BY <2>3, <2>4, IsASeq
  <2>6. \A e \in ToSet(queue) : e.to = <<e.id, "m">>
    <3>1. \A i \in DOMAIN call.ids : queue[i].to = <<queue[i].id, "m">> BY <2>2, <2>3, LibEntryType
    <3>2. DOMAIN queue = DOMAIN call.ids OBVIOUS
    <3> HIDE DEF queue
    <3> QED BY <3>1, <3>2 DEF ToSet
  <2>7. LibManifestOf(call.pack, procs, call.from)
    <3>1. LibPackRow(call) BY <1>1, <2>2 DEF LibCallSane
    <3>2. libAt \in call.from..libAt BY <3>1, <1>1, LibAssumption DEF LibPackRow
    <3> QED BY <3>2, <1>5 DEF LibManifestOf, LibNow
  <2> HIDE DEF queue, procs
  <2>8. "take" \in LibPcs BY DEF LibPcs
  <2>9. next \in LibLocals BY <1>1, <2>1, <2>5, <2>8, LibLocalsSteps
  <2>10. LibCallSane(next)
    BY <1>1, <2>2, <2>6, <2>7 DEF LibCallSane, LibLocals, LibPackRow, LibSeeing, LibInstalls
  <2>11. LibGo(c, next) BY <1>5
  <2> QED BY <2>9, <2>10, <2>11, <1>2, LibCallUpdate DEF LibTypeOK, libDisk, libMemory, libGhost
<1> QED BY <1>3, <1>4, <1>5

LEMMA LibTakeTypes ==
  ASSUME LibTypeOK, LibSane, NEW c \in LibCallers, LibTake(c)
  PROVE  LibTypeOK' /\ LibSane'
<1> DEFINE call == libCall[c]
           entry == Head(call.queue)
           by == IF call.op # "startup" THEN call.by
                 ELSE IF libProcs[entry.to] = LibNone THEN LibNone
                 ELSE libProcs[entry.to].by
<1>1. call \in LibLocals /\ LibCallSane(call) /\ call.pc = "take" BY DEF LibTypeOK, LibTake, LibSane
<1>2. UNCHANGED <<libAt, libSource, libDisk, libMemory, libGhost>> BY DEF LibTake
<1>3. call.op \in {"pack", "all", "startup"} BY <1>1 DEF LibCallSane
<1>4. {"take", "download", "packfile", "park"} \subseteq LibPcs BY DEF LibPcs
<1>5. ASSUME NEW next \in LibLocals, LibCallSane(next), LibGo(c, next)
      PROVE  LibTypeOK' /\ LibSane'
  BY <1>2, <1>5, LibCallUpdate DEF LibTypeOK, libDisk, libMemory, libGhost
<1>6. CASE LibGo(c, LibIdle) BY <1>5, <1>6, LibIdleType, LibIdleSane
<1>7. ASSUME call.queue = <<>>, call.op = "pack", LibGo(c, [call EXCEPT !.pc = "packfile"])
      PROVE  LibTypeOK' /\ LibSane'
  <2>1. [call EXCEPT !.pc = "packfile"] \in LibLocals BY <1>1, <1>4, LibLocalsSteps
  <2>2. LibCallSane([call EXCEPT !.pc = "packfile"])
    BY <1>1, <1>7 DEF LibCallSane, LibLocals, LibPackRow, LibSeeing, LibInstalls
  <2> QED BY <2>1, <2>2, <1>7, <1>5
<1>8. ASSUME call.queue = <<>>, call.op = "startup", LibGo(c, [call EXCEPT !.pc = "park"])
      PROVE  LibTypeOK' /\ LibSane'
  <2>1. [call EXCEPT !.pc = "park"] \in LibLocals BY <1>1, <1>4, LibLocalsSteps
  <2>2. LibCallSane([call EXCEPT !.pc = "park"])
    BY <1>1, <1>8 DEF LibCallSane, LibLocals, LibPackRow, LibSeeing, LibInstalls
  <2> QED BY <2>1, <2>2, <1>8, <1>5
<1>9. ASSUME call.queue # <<>>, call.op = "pack", LibGo(c, [call EXCEPT !.queue = Tail(@)])
      PROVE  LibTypeOK' /\ LibSane'
  <2>1. /\ Tail(call.queue) \in Seq(LibEntries)
        /\ ToSet(Tail(call.queue)) \subseteq ToSet(call.queue) BY <1>1, <1>9, LibQueue DEF LibLocals
  <2>2. [call EXCEPT !.queue = Tail(@)] \in LibLocals BY <1>1, <2>1, LibLocalsSteps
  <2>3. LibCallSane([call EXCEPT !.queue = Tail(@)])
    BY <1>1, <1>9, <2>1 DEF LibCallSane, LibLocals, LibPackRow, LibSeeing, LibInstalls
  <2> QED BY <2>2, <2>3, <1>9, <1>5
<1>10. ASSUME call.queue # <<>>, LibGo(c, [call EXCEPT !.pc = "download", !.by = by])
       PROVE  LibTypeOK' /\ LibSane'
  <2>1. entry \in LibEntries BY <1>1, <1>10, LibQueue DEF LibLocals
  <2>2. libProcs[entry.to] \in LibDefs \cup {LibNone} BY <2>1 DEF LibTypeOK, LibEntries
  <2>3. by \in LibWriters BY <2>2, <1>1 DEF LibDefs, LibLocals, LibWriters
  <2> HIDE DEF by
  <2>4. [call EXCEPT !.pc = "download", !.by = by] \in LibLocals BY <1>1, <1>4, <2>3, LibLocalsSteps
  <2>5. LibCallSane([call EXCEPT !.pc = "download", !.by = by])
    BY <1>1, <1>3, <1>10 DEF LibCallSane, LibLocals, LibPackRow, LibSeeing, LibInstalls
  <2> QED BY <2>4, <2>5, <1>10, <1>5
<1>11. \/ LibGo(c, LibIdle)
       \/ call.queue = <<>> /\ call.op = "pack" /\ LibGo(c, [call EXCEPT !.pc = "packfile"])
       \/ call.queue = <<>> /\ call.op = "startup" /\ LibGo(c, [call EXCEPT !.pc = "park"])
       \/ call.queue # <<>> /\ call.op = "pack" /\ LibGo(c, [call EXCEPT !.queue = Tail(@)])
       \/ call.queue # <<>> /\ LibGo(c, [call EXCEPT !.pc = "download", !.by = by])
  <2>1. CASE call.queue = <<>> BY <2>1, <1>3 DEF LibTake
  <2>2. CASE call.queue # <<>> BY <2>2 DEF LibTake
  <2> QED BY <2>1, <2>2
<1> QED BY <1>6, <1>7, <1>8, <1>9, <1>10, <1>11

LEMMA LibFailedSane ==
  ASSUME NEW call \in LibLocals, LibCallSane(call), call.pc \in {"download", "persist"}
  PROVE  \E next \in LibLocals : next = LibFailed(call) /\ LibCallSane(next)
<1>1. call.queue # <<>> BY DEF LibCallSane
<1>2. LibFailed(call) \in LibLocals BY <1>1, LibFailedType
<1>3. CASE call.op \in {"all", "startup"}
  <2> DEFINE next == [call EXCEPT !.pc = "take", !.queue = Tail(@),
                                  !.kept = @ \cup {Head(call.queue).id}]
  <2>1. LibFailed(call) = next BY <1>3 DEF LibFailed
  <2>2. next.pc = "take" /\ next.op = call.op BY DEF LibLocals
  <2>3. LibCallSane(next) BY <1>3, <2>2 DEF LibCallSane, LibSeeing, LibInstalls
  <2> QED BY <2>1, <2>3, <1>2
<1>4. CASE call.op \notin {"all", "startup"}
  <2>1. LibFailed(call) = LibIdle BY <1>4 DEF LibFailed
  <2> QED BY <2>1, LibIdleSane, LibIdleType
<1> QED BY <1>3, <1>4

LEMMA LibDownloadTypes ==
  ASSUME LibTypeOK, LibSane, NEW c \in LibCallers, LibDownload(c)
  PROVE  LibTypeOK' /\ LibSane'
<1> DEFINE call == libCall[c]
           next == [call EXCEPT !.pc = "persist"]
<1>1. call \in LibLocals /\ LibCallSane(call) /\ call.pc = "download"
  BY DEF LibTypeOK, LibDownload, LibSane
<1>2. UNCHANGED <<libAt, libSource, libDisk, libMemory, libGhost>> BY DEF LibDownload
<1>3. "persist" \in LibPcs BY DEF LibPcs
<1>4. next \in LibLocals BY <1>1, <1>3, LibLocalsSteps
<1>5. LibCallSane(next) BY <1>1 DEF LibCallSane, LibLocals, LibPackRow, LibSeeing, LibInstalls
<1>6. LibGo(c, next) \/ LibGo(c, LibFailed(call)) BY DEF LibDownload
<1>7. PICK failed \in LibLocals : failed = LibFailed(call) /\ LibCallSane(failed)
  BY <1>1, LibFailedSane
<1>8. LibGo(c, next) \/ LibGo(c, failed) BY <1>6, <1>7 DEF LibGo
<1> QED BY <1>2, <1>4, <1>5, <1>7, <1>8, LibCallUpdate DEF LibTypeOK, libDisk, libMemory, libGhost

LEMMA LibPersistTypes ==
  ASSUME LibTypeOK, LibSane, NEW c \in LibCallers, LibPersist(c)
  PROVE  LibTypeOK' /\ LibSane'
<1> DEFINE call == libCall[c]
           key == Head(call.queue).to
           next == [call EXCEPT !.pc = "insert"]
<1>1. call \in LibLocals /\ LibCallSane(call) /\ call.pc = "persist" /\ call.queue # <<>>
  BY DEF LibTypeOK, LibPersist, LibSane, LibCallSane
<1>2. LibDef(call) \in LibDefs /\ key \in LibKeys BY <1>1, LibDefType
<1>3. "insert" \in LibPcs BY DEF LibPcs
<1>4. next \in LibLocals BY <1>1, <1>3, LibLocalsSteps
<1>5. LibCallSane(next) BY <1>1 DEF LibCallSane, LibLocals, LibPackRow, LibSeeing, LibInstalls
<1>6. /\ LibGo(c, next) /\ LibEnters(c, key) /\ libFiles' = [libFiles EXCEPT ![key] = LibDef(call)]
      /\ UNCHANGED <<libAt, libSource, libPackFiles, libMemory, libFrom, libExcused>>
      /\ libStray' \subseteq libStray BY DEF LibPersist
<1> HIDE DEF key, next
<1>7. libFiles' \in [LibKeys -> LibDefs \cup {LibNone}] BY <1>2, <1>6 DEF LibTypeOK
<1>8. libMixed' \subseteq LibThings BY <1>2, <1>6, LibEntersType DEF LibThings
<1>9. libCall' \in [LibCallers -> LibLocals] /\ LibSane' BY <1>4, <1>5, <1>6, LibCallUpdate
<1> QED BY <1>6, <1>7, <1>8, <1>9 DEF LibTypeOK, libMemory, LibThings

LEMMA LibInsertTypes ==
  ASSUME LibTypeOK, LibSane, NEW c \in LibCallers, LibInsert(c)
  PROVE  LibTypeOK' /\ LibSane'
<1> DEFINE call == libCall[c]
           key == Head(call.queue).to
           next == [call EXCEPT !.pc = "take", !.queue = Tail(@)]
<1>1. call \in LibLocals /\ LibCallSane(call) /\ call.pc = "insert" /\ call.queue # <<>>
  BY DEF LibTypeOK, LibInsert, LibSane, LibCallSane
<1>2. LibDef(call) \in LibDefs /\ key \in LibKeys BY <1>1, LibDefType
<1>3. "take" \in LibPcs BY DEF LibPcs
<1>4. /\ Tail(call.queue) \in Seq(LibEntries)
      /\ ToSet(Tail(call.queue)) \subseteq ToSet(call.queue) BY <1>1, LibQueue DEF LibLocals
<1>5. next \in LibLocals BY <1>1, <1>3, <1>4, LibLocalsSteps
<1>6. CASE call.op \in {"one", "yaml"} /\ LibGo(c, LibIdle)
  <2>1. libCall' \in [LibCallers -> LibLocals] /\ LibSane'
    BY <1>6, LibIdleType, LibIdleSane, LibCallUpdate DEF LibInsert
  <2> QED BY <2>1, <1>2 DEF LibInsert, LibTypeOK, libDisk, libGhost
<1>7. CASE call.op \notin {"one", "yaml"} /\ LibGo(c, next)
  <2>1. LibCallSane(next)
    BY <1>1, <1>4, <1>7 DEF LibCallSane, LibLocals, LibPackRow, LibSeeing, LibInstalls
  <2>2. libCall' \in [LibCallers -> LibLocals] /\ LibSane'
    BY <1>5, <1>7, <2>1, LibCallUpdate DEF LibInsert
  <2> QED BY <2>2, <1>2 DEF LibInsert, LibTypeOK, libDisk, libGhost
<1> QED BY <1>6, <1>7 DEF LibInsert

LEMMA LibErrorTypes ==
  ASSUME LibTypeOK, LibSane, NEW c \in LibCallers, LibError(c)
  PROVE  LibTypeOK' /\ LibSane'
<1> DEFINE call == libCall[c]
           next == [call EXCEPT !.pc = "park"]
<1>1. call \in LibLocals /\ LibCallSane(call) BY DEF LibTypeOK, LibSane
<1>2. UNCHANGED <<libAt, libSource, libDisk, libMemory, libGhost>> BY DEF LibError
<1>3. "park" \in LibPcs BY DEF LibPcs
<1>4. next \in LibLocals BY <1>1, <1>3, LibLocalsSteps
<1>5. \/ call.pc \in {"download", "persist"} /\ LibGo(c, LibFailed(call))
      \/ call.pc \in {"fetch", "manifest", "packfile"} /\ call.op = "startup" /\ LibGo(c, next)
      \/ LibGo(c, LibIdle) BY DEF LibError
<1>6. call.op = "startup" => LibCallSane(next)
  BY <1>1 DEF LibCallSane, LibLocals, LibSeeing, LibInstalls
<1>7. \E some \in LibLocals : LibCallSane(some) /\ LibGo(c, some)
  <2>1. CASE call.pc \in {"download", "persist"} /\ LibGo(c, LibFailed(call))
    <3>1. PICK failed \in LibLocals : failed = LibFailed(call) /\ LibCallSane(failed)
      BY <1>1, <2>1, LibFailedSane
    <3>2. LibGo(c, failed) BY <2>1, <3>1 DEF LibGo
    <3> QED BY <3>1, <3>2
  <2>2. CASE call.op = "startup" /\ LibGo(c, next) BY <2>2, <1>4, <1>6
  <2>3. CASE LibGo(c, LibIdle) BY <2>3, LibIdleType, LibIdleSane
  <2> QED BY <1>5, <2>1, <2>2, <2>3
<1> QED BY <1>2, <1>7, LibCallUpdate DEF LibTypeOK, libDisk, libMemory, libGhost

LEMMA LibPackFileTypes ==
  ASSUME LibTypeOK, LibSane, NEW c \in LibCallers, LibPackFile(c)
  PROVE  LibTypeOK' /\ LibSane'
<1> DEFINE call == libCall[c]
           next == [call EXCEPT !.pc = "upsert"]
<1>1. call \in LibLocals /\ LibCallSane(call) /\ call.pc = "packfile"
  BY DEF LibTypeOK, LibPackFile, LibSane
<1>2. call.op = "pack" /\ LibPackRow(call) BY <1>1 DEF LibCallSane
<1>3. call.pack \in LibPackIds /\ call.from \in 0..Len(LibShelf) /\ call.lost \in SUBSET LibIds
      /\ LibPackMeta(call) \in LibMetas /\ LibPackKey(call.pack) \in LibThings
  BY <1>1, <1>2, LibMetaType DEF LibPackRow, LibLocals, LibThings
<1>4. "upsert" \in LibPcs BY DEF LibPcs
<1>5. next \in LibLocals BY <1>1, <1>4, LibLocalsSteps
<1>6. LibCallSane(next) BY <1>1, <1>2 DEF LibCallSane, LibLocals, LibPackRow, LibSeeing, LibInstalls
<1>7. /\ LibGo(c, next) /\ LibEnters(c, LibPackKey(call.pack))
      /\ libPackFiles' = [libPackFiles EXCEPT ![call.pack] = LibPackMeta(call)]
      /\ libFrom' = [libFrom EXCEPT ![call.pack] = call.from]
      /\ libExcused' = {x \in libExcused : x[1] # call.pack} \cup (
           {call.pack} \X (call.lost \cup {p \in LibIds : <<p, "m">> \in libStray}))
      /\ libStray' \subseteq libStray
      /\ UNCHANGED <<libAt, libSource, libFiles, libMemory>> BY DEF LibPackFile
<1> HIDE DEF next
<1>8. libMixed' \subseteq LibThings BY <1>3, <1>7, LibEntersType
<1>9. libCall' \in [LibCallers -> LibLocals] /\ LibSane' BY <1>5, <1>6, <1>7, LibCallUpdate
<1>10. libExcused' \subseteq LibPackIds \X LibIds BY <1>3, <1>7 DEF LibTypeOK
<1>11. libPackFiles' \in [LibPackIds -> LibMetas \cup {LibNone}]
       /\ libFrom' \in [LibPackIds -> 0..Len(LibShelf)] BY <1>3, <1>7 DEF LibTypeOK
<1> QED BY <1>7, <1>8, <1>9, <1>10, <1>11 DEF LibTypeOK, libMemory, LibThings

LEMMA LibDoomedType ==
  ASSUME LibTypeOK
  PROVE  LibDoomed \in SUBSET LibIds
<1>1. \A d \in LibCallers : libCall[d].queue \in Seq(LibEntries) BY DEF LibTypeOK, LibLocals
<1>2. \A d \in LibCallers : ToSet(libCall[d].queue) \subseteq LibEntries BY <1>1, LibSeqElements
<1> QED BY <1>2 DEF LibDoomed, LibEntries

LEMMA LibUpsertTypes ==
  ASSUME LibTypeOK, LibSane, NEW c \in LibCallers, LibUpsertPack(c)
  PROVE  LibTypeOK' /\ LibSane'
<1> DEFINE call == libCall[c]
<1>1. call \in LibLocals /\ LibCallSane(call) /\ call.pc = "upsert"
  BY DEF LibTypeOK, LibUpsertPack, LibSane
<1>2. call.pack \in LibPackIds /\ LibPackMeta(call) \in LibMetas
  BY <1>1, LibMetaType DEF LibCallSane, LibPackRow
<1>3. /\ LibGo(c, LibIdle) /\ libPacks' = [libPacks EXCEPT ![call.pack] = LibPackMeta(call)]
      /\ libExcused' = libExcused \cup ({call.pack} \X LibDoomed)
      /\ UNCHANGED <<libAt, libSource, libDisk, libProcs, libMixed, libFrom, libStray>>
  BY DEF LibUpsertPack
<1>4. libCall' \in [LibCallers -> LibLocals] /\ LibSane'
  BY <1>3, LibIdleType, LibIdleSane, LibCallUpdate
<1>5. libExcused' \subseteq LibPackIds \X LibIds BY <1>2, <1>3, LibDoomedType DEF LibTypeOK
<1>6. libPacks' \in [LibPackIds -> LibMetas \cup {LibNone}] BY <1>2, <1>3 DEF LibTypeOK
<1> QED BY <1>3, <1>4, <1>5, <1>6 DEF LibTypeOK, libDisk

LEMMA LibParkTypes ==
  ASSUME LibTypeOK, LibSane, NEW c \in LibCallers, LibPark(c) \/ LibAnnounce(c)
  PROVE  LibTypeOK' /\ LibSane'
<1> DEFINE call == libCall[c]
           next == [call EXCEPT !.pc = "announce"]
<1>1. call \in LibLocals /\ LibCallSane(call) BY DEF LibTypeOK, LibSane
<1>2. UNCHANGED <<libAt, libSource, libDisk, libMemory, libGhost>> BY DEF LibPark, LibAnnounce
<1>3. "announce" \in LibPcs BY DEF LibPcs
<1>4. next \in LibLocals BY <1>1, <1>3, LibLocalsSteps
<1>5. call.pc = "park" => LibCallSane(next)
  BY <1>1 DEF LibCallSane, LibLocals, LibPackRow, LibSeeing, LibInstalls
<1>6. (call.pc = "park" /\ LibGo(c, next)) \/ LibGo(c, LibIdle) BY DEF LibPark, LibAnnounce
<1> QED BY <1>2, <1>4, <1>5, <1>6, LibIdleType, LibIdleSane, LibCallUpdate DEF LibTypeOK, libDisk,
     libMemory, libGhost

LEMMA LibOthersTypes ==
  ASSUME LibTypeOK, LibSane, NEW c \in LibCallers, LibOthers(c)
  PROVE  LibTypeOK' /\ LibSane'
<1> DEFINE call == libCall[c]
           rows == SetToSeq({LibEntry(p, 1) : p \in LibOrphans(call.pack, call.ids)})
           next == [call EXCEPT !.pc = "remove", !.queue = rows]
<1>1. call \in LibLocals /\ LibCallSane(call) /\ call.pc = "others"
  BY DEF LibTypeOK, LibOthers, LibSane
<1>2. call.op = "unpack" /\ call.ids \in Seq(LibIds) /\ 1 \in 1..Len(LibShelf)
  BY <1>1, LibAssumption DEF LibCallSane, LibLocals
<1>3. LibOrphans(call.pack, call.ids) \in SUBSET LibIds BY <1>2, LibSeqElements DEF LibOrphans
<1>4. rows \in Seq(LibEntries) /\ \A e \in ToSet(rows) : e.to = <<e.id, "m">> BY <1>2, <1>3, LibRows
<1>5. LibGo(c, next) /\ UNCHANGED <<libAt, libSource, libDisk, libMemory, libGhost>>
  BY DEF LibOthers
<1> HIDE DEF rows
<1>6. "remove" \in LibPcs BY DEF LibPcs
<1>7. next \in LibLocals BY <1>1, <1>4, <1>6, LibLocalsSteps
<1>8. LibCallSane(next)
  BY <1>1, <1>2, <1>4 DEF LibCallSane, LibLocals, LibPackRow, LibSeeing, LibInstalls
<1> QED BY <1>5, <1>7, <1>8, LibCallUpdate DEF LibTypeOK, libDisk, libMemory, libGhost

LEMMA LibRemoveTypes ==
  ASSUME LibTypeOK, LibSane, NEW c \in LibCallers, LibRemove(c)
  PROVE  LibTypeOK' /\ LibSane'
<1> DEFINE call == libCall[c]
           entry == Head(call.queue)
           installing == {libCall[d].pack : d \in {e \in LibCallers : libCall[e].op = "pack"}}
<1>1. call \in LibLocals /\ LibCallSane(call) /\ call.pc = "remove"
  BY DEF LibTypeOK, LibRemove, LibSane
<1>2. call.op = "unpack" /\ call.pack \in LibPackIds /\ LibPackKey(call.pack) \in LibThings
  BY <1>1 DEF LibCallSane, LibThings
<1>3. UNCHANGED <<libAt, libSource, libDisk, libFrom, libStray>> BY DEF LibRemove
<1>4. {"unfile", "delete"} \subseteq LibPcs BY DEF LibPcs
<1>5. CASE call.queue = <<>>
  <2> DEFINE next == [call EXCEPT !.pc = "unfile"]
  <2>1. /\ libPacks' = [libPacks EXCEPT ![call.pack] = LibNone]
        /\ LibGo(c, next) /\ LibEnters(c, LibPackKey(call.pack))
        /\ libExcused' = libExcused \cup ({call.pack} \X LibIds)
        /\ UNCHANGED libProcs BY <1>5 DEF LibRemove
  <2>2. next \in LibLocals BY <1>1, <1>4, LibLocalsSteps
  <2>3. LibCallSane(next)
    BY <1>1, <1>2 DEF LibCallSane, LibLocals, LibPackRow, LibSeeing, LibInstalls
  <2> HIDE DEF next
  <2>4. libCall' \in [LibCallers -> LibLocals] /\ LibSane' BY <1>3, <2>1, <2>2, <2>3, LibCallUpdate
  <2>5. libMixed' \subseteq LibThings BY <1>2, <2>1, LibEntersType
  <2>6. libExcused' \subseteq LibPackIds \X LibIds BY <1>2, <2>1 DEF LibTypeOK
  <2>7. libPacks' \in [LibPackIds -> LibMetas \cup {LibNone}] BY <2>1 DEF LibTypeOK
  <2> QED BY <1>3, <2>1, <2>4, <2>5, <2>6, <2>7 DEF LibTypeOK, libDisk, LibThings
<1>6. CASE call.queue # <<>>
  <2> DEFINE next == [call EXCEPT !.pc = "delete"]
  <2>1. /\ libProcs' = [libProcs EXCEPT ![entry.to] = LibNone]
        /\ LibTakesAway(c, next, entry.id) /\ LibEnters(c, entry.to)
        /\ UNCHANGED libPacks BY <1>6 DEF LibRemove
  <2>2. libExcused' = libExcused \cup (({call.pack} \cup installing) \X {entry.id})
    BY <1>6 DEF LibRemove
  <2>3. next \in LibLocals BY <1>1, <1>4, LibLocalsSteps
  <2>4. LibCallSane(next)
    BY <1>1, <1>2, <1>6 DEF LibCallSane, LibLocals, LibPackRow, LibSeeing, LibInstalls
  <2>5. entry \in LibEntries BY <1>1, <1>6, LibQueue DEF LibLocals
  <2>6. entry.id \in LibIds /\ entry.to \in LibThings BY <2>5 DEF LibEntries, LibThings
  <2>7. installing \subseteq LibPackIds BY DEF LibSane, LibCallSane, LibPackRow
  <2> HIDE DEF next, entry, installing
  <2>8. libCall' \in [LibCallers -> LibLocals] /\ LibSane'
    BY <1>3, <2>1, <2>3, <2>4, <2>6, LibTakesAwayUpdate
  <2>9. libMixed' \subseteq LibThings BY <2>1, <2>6, LibEntersType
  <2>10. libExcused' \subseteq LibPackIds \X LibIds BY <1>2, <2>2, <2>6, <2>7 DEF LibTypeOK
  <2>11. libProcs' \in [LibKeys -> LibDefs \cup {LibNone}] BY <2>1 DEF LibTypeOK
  <2> QED BY <1>3, <2>1, <2>9, <2>8, <2>10, <2>11 DEF LibTypeOK, libDisk, LibThings
<1> QED BY <1>5, <1>6

LEMMA LibDeletedType ==
  ASSUME NEW call \in LibLocals, LibCallSane(call), call.pc = "delete"
  PROVE  LET next == LibDeleted(call)
         IN  /\ next \in LibLocals /\ LibCallSane(next)
             /\ next.pc \in {"idle", "remove"} /\ next.op \in {"unpack", LibNone}
             /\ next.op = "unpack" => /\ call.op = "unpack" /\ next.pack = call.pack
                                      /\ ToSet(next.queue) \subseteq ToSet(call.queue)
<1> DEFINE next == [call EXCEPT !.pc = "remove", !.queue = Tail(@)]
<1>1. call.queue # <<>> BY DEF LibCallSane
<1>2. /\ Tail(call.queue) \in Seq(LibEntries)
      /\ ToSet(Tail(call.queue)) \subseteq ToSet(call.queue) BY <1>1, LibQueue DEF LibLocals
<1>3. "remove" \in LibPcs BY DEF LibPcs
<1>4. next \in LibLocals BY <1>2, <1>3, LibLocalsSteps
<1>5. /\ next.pc = "remove" /\ next.op = call.op /\ next.pack = call.pack
      /\ next.queue = Tail(call.queue) BY DEF LibLocals
<1>6. call.op = "unpack" => LibCallSane(next)
  BY <1>2 DEF LibCallSane, LibLocals, LibPackRow, LibSeeing, LibInstalls
<1>7. LibIdle.pc = "idle" /\ LibIdle.op = LibNone /\ LibNone # "unpack" BY LibAssumption DEF LibIdle
<1> QED BY <1>2, <1>4, <1>5, <1>6, <1>7, LibIdleType, LibIdleSane DEF LibDeleted

LEMMA LibDeleteTypes ==
  ASSUME LibTypeOK, LibSane, NEW c \in LibCallers, LibDelete(c) \/ LibUnfile(c) \/ LibLeaves(c)
  PROVE  LibTypeOK' /\ LibSane'
<1> DEFINE call == libCall[c]
           key == Head(call.queue).to
<1>1. call \in LibLocals /\ LibCallSane(call) BY DEF LibTypeOK, LibSane
<1>2. /\ UNCHANGED <<libAt, libSource, libProcs, libPacks, libMixed, libFrom, libExcused>>
      /\ \/ call.pc = "delete" /\ LibGo(c, LibDeleted(call))
         \/ call.pc = "unfile" /\ LibGo(c, LibIdle)
  BY DEF LibDelete, LibUnfile, LibLeaves, libMemory
<1>3. libCall' \in [LibCallers -> LibLocals] /\ LibSane'
  BY <1>1, <1>2, LibDeletedType, LibIdleType, LibIdleSane, LibCallUpdate
<1>4. /\ call.pc = "delete" => key \in LibThings
      /\ call.pc = "unfile" => LibPackKey(call.pack) \in LibThings
  BY <1>1, LibDefType DEF LibCallSane, LibThings
<1>5. libStray' \subseteq LibThings
  BY <1>4 DEF LibDelete, LibUnfile, LibLeaves, LibTypeOK, LibThings
<1>6. /\ libFiles' \in [LibKeys -> LibDefs \cup {LibNone}]
      /\ libPackFiles' \in [LibPackIds -> LibMetas \cup {LibNone}]
  BY DEF LibDelete, LibUnfile, LibLeaves, LibTypeOK, libDisk
<1> QED BY <1>2, <1>3, <1>5, <1>6 DEF LibTypeOK, LibThings

LEMMA LibCutTypes ==
  ASSUME LibTypeOK, LibSane, NEW c \in LibCallers, LibCut(c)
  PROVE  LibTypeOK' /\ LibSane'
<1> DEFINE call == libCall[c]
           key == Head(call.queue).to
<1>1. call \in LibLocals /\ LibCallSane(call) BY DEF LibTypeOK, LibSane
<1>2. /\ UNCHANGED <<libAt, libSource, libProcs, libPacks, libMixed, libFrom>>
      /\ \/ call.pc = "persist" /\ LibGo(c, LibFailed(call))
         \/ call.pc = "packfile" /\ LibGo(c, LibIdle) BY DEF LibCut, libMemory
<1>3. \E next \in LibLocals : LibCallSane(next) /\ LibGo(c, next)
  <2>1. CASE call.pc = "persist" /\ LibGo(c, LibFailed(call))
    <3>1. PICK failed \in LibLocals : failed = LibFailed(call) /\ LibCallSane(failed)
      BY <1>1, <2>1, LibFailedSane
    <3> QED BY <2>1, <3>1
  <2> QED BY <1>2, <2>1, LibIdleType, LibIdleSane
<1>4. libCall' \in [LibCallers -> LibLocals] /\ LibSane' BY <1>2, <1>3, LibCallUpdate
<1>5. /\ call.pc = "persist" => key \in LibThings
      /\ call.pc = "packfile" => LibPackKey(call.pack) \in LibThings
  BY <1>1, LibDefType DEF LibCallSane, LibPackRow, LibThings
<1>6. libStray' \subseteq LibThings /\ libExcused' \subseteq LibPackIds \X LibIds
  BY <1>5 DEF LibCut, LibTypeOK, LibThings
<1>7. /\ libFiles' \in [LibKeys -> LibDefs \cup {LibNone}]
      /\ libPackFiles' \in [LibPackIds -> LibMetas \cup {LibNone}] BY DEF LibCut, LibTypeOK
<1> QED BY <1>2, <1>4, <1>6, <1>7 DEF LibTypeOK, LibThings

LEMMA LibPublishTypes ==
  ASSUME LibTypeOK, LibSane, LibPublish
  PROVE  LibTypeOK' /\ LibSane'
<1>1. libAt \in Nat /\ libAt' = libAt + 1 /\ libAt' \in 1..Len(LibShelf)
  BY LibAssumption DEF LibPublish, LibTypeOK
<1>2. LibTypeOK' BY <1>1 DEF LibPublish, LibTypeOK, libDisk, libMemory, libGhost
<1>3. ASSUME NEW c \in LibCallers
      PROVE  LibCallSane(libCall[c])'
  <2>1. libCall'[c] = libCall[c] /\ LibCallSane(libCall[c]) /\ libCall[c] \in LibLocals
    BY DEF LibPublish, LibSane, LibTypeOK
  <2>2. LibPackRow(libCall[c]) => LibPackRow(libCall[c])' BY <1>1, <2>1 DEF LibPackRow
  <2>3. libCall[c].from \in Nat BY <2>1 DEF LibLocals
  <2>4. libCall[c].from..libAt \subseteq libCall[c].from..libAt' BY <1>1, <2>3
  <2>5. LibManifestOf(libCall[c].pack, libCall[c].manifest, libCall[c].from)
        => LibManifestOf(libCall[c].pack, libCall[c].manifest, libCall[c].from)'
    BY <2>1, <2>4 DEF LibManifestOf
  <2> QED BY <2>1, <2>2, <2>5 DEF LibCallSane
<1> QED BY <1>2, <1>3 DEF LibSane

LEMMA LibRestartTypes ==
  ASSUME LibTypeOK, LibSane, LibRestart
  PROVE  LibTypeOK' /\ LibSane'
<1>1. libCall' = [c \in LibCallers |-> LibIdle] /\ libAt' = libAt BY DEF LibRestart
<1>2. LibSane' BY <1>1, LibIdleSane DEF LibSane, LibCallSane, LibPackRow, LibManifestOf
<1> QED BY <1>1, <1>2, LibIdleType DEF LibRestart, LibTypeOK, libDisk, libGhost

\* What a step of anything but a call does to what the properties are
\* about: nothing.
LibAside == UNCHANGED <<libAt, libDisk, libMemory, libCall, libGhost>>
LEMMA LibAsideTypes ==
  ASSUME LibTypeOK, LibSane, LibAside, libSource' \in {LibNone, "manual", "auto"}
  PROVE  LibTypeOK' /\ LibSane'
<1>1. LibSane' BY DEF LibAside, LibSane, LibCallSane, LibPackRow, LibManifestOf
<1> QED BY <1>1 DEF LibAside, LibTypeOK, libDisk, libMemory, libGhost

LEMMA LibNextTypes ==
  ASSUME LibTypeOK, LibSane, [LibNext]_libVars
  PROVE  LibTypeOK' /\ LibSane'
<1>1. ASSUME NEW c \in LibCallers, LibStep(c)
      PROVE  LibTypeOK' /\ LibSane'
  BY <1>1, LibFetchTypes, LibManifestTypes, LibTakeTypes, LibDownloadTypes, LibPersistTypes,
    LibInsertTypes, LibErrorTypes, LibPackFileTypes, LibUpsertTypes, LibParkTypes, LibOthersTypes,
    LibRemoveTypes, LibDeleteTypes, LibCutTypes DEF LibStep
<1>2. ASSUME LibSeed \/ LibListen \/ UNCHANGED libVars
             \/ \E source \in {LibNone, "manual", "auto"} : LibEditSource(source)
      PROVE  LibTypeOK' /\ LibSane'
  <2>1. libSource' \in {LibNone, "manual", "auto"}
    BY <1>2 DEF LibSeed, LibListen, libVars, LibEditSource, LibTypeOK
  <2>2. LibAside
    BY <1>2 DEF LibSeed, LibListen, libVars, LibEditSource, LibAside, libDisk, libMemory, libGhost
  <2> QED BY <2>1, <2>2, LibAsideTypes
<1> QED BY <1>1, <1>2, LibInstallTypes, LibInstallYamlTypes, LibInstallPackTypes, LibUpdateAllTypes,
     LibStartupTypes, LibUninstallTypes, LibUninstallPackTypes, LibPublishTypes, LibRestartTypes DEF
     LibNext

LEMMA LibInitTypes ==
  ASSUME LibInit
  PROVE  LibTypeOK /\ LibSane
<1>1. PICK first \in BOOLEAN :
        LET shelf == LibShelf[1]
            installed(key) == ~first /\ key[2] = "m" /\ key[1] \in DOMAIN shelf.list
            packed(q) == ~first /\ q \in DOMAIN shelf.packs
                           /\ ToSet(shelf.packs[q].ids) \subseteq DOMAIN shelf.list
        IN
        /\ libAt = 1 /\ libSource = "auto"
        /\ libProcs = [key \in LibKeys |->
              IF installed(key) THEN [ver |-> shelf.file[key[1]], by |-> "ui"] ELSE LibNone]
        /\ libFiles = libProcs
        /\ libPacks = [q \in LibPackIds |->
              IF packed(q) THEN [ver |-> shelf.packs[q].ver, procs |-> shelf.manifests[q].procs]
              ELSE LibNone]
        /\ libPackFiles = libPacks /\ libCall = [c \in LibCallers |-> LibIdle]
        /\ libMixed = {} /\ libFrom = [q \in LibPackIds |-> IF packed(q) THEN 1 ELSE 0]
        /\ libExcused = {} /\ libStray = {} BY DEF LibInit
<1>2. 1 \in 1..Len(LibShelf) /\ 0 \in 0..Len(LibShelf) /\ 1 \in 0..Len(LibShelf) BY LibAssumption
<1>3. \A p \in DOMAIN LibShelf[1].list : [ver |-> LibShelf[1].file[p], by |-> "ui"] \in LibDefs
  BY <1>2, LibAssumption DEF LibDefs, LibWriters
<1>4. \A q \in DOMAIN LibShelf[1].packs :
        [ver |-> LibShelf[1].packs[q].ver, procs |-> LibShelf[1].manifests[q].procs] \in LibMetas
  BY <1>2, LibAssumption DEF LibMetas
<1>5. LibSane BY <1>1, LibIdleSane DEF LibSane
<1>6. libProcs \in [LibKeys -> LibDefs \cup {LibNone}] BY <1>1, <1>3
<1>7. libPacks \in [LibPackIds -> LibMetas \cup {LibNone}] BY <1>1, <1>4
<1> QED BY <1>1, <1>2, <1>5, <1>6, <1>7, LibIdleType DEF LibTypeOK

\* The variables keep their types, and every call has where it is what its
\* step reads.
THEOREM LibTypeCorrect == LibSpec => [](LibTypeOK /\ LibSane)
<1>1. LibInit => LibTypeOK /\ LibSane BY LibInitTypes
<1>2. LibTypeOK /\ LibSane /\ [LibNext]_libVars => (LibTypeOK /\ LibSane)' BY LibNextTypes
<1> QED BY <1>1, <1>2, PTL DEF LibSpec

----------------------------------------
\* Memory and disk.

\* What a call has for what it changes is not touched by the others.
LibSame(a, b) ==
    /\ a.pc = b.pc /\ a.op = b.op /\ a.queue = b.queue /\ a.by = b.by
    /\ a.pack = b.pack /\ a.manifest = b.manifest /\ a.ver = b.ver /\ a.ids = b.ids
LibHolding == {"insert", "delete", "upsert", "unfile"}

LEMMA LibSameSection ==
  ASSUME NEW a, NEW b, LibSame(a, b)
  PROVE  LibSection(a) = LibSection(b) /\ LibWrote(a) = LibWrote(b)
BY DEF LibSame, LibSection, LibWrote, LibDef, LibPackMeta

LEMMA LibGoOthers ==
  ASSUME LibTypeOK, NEW c \in LibCallers, NEW call, LibGo(c, call)
  PROVE  /\ libCall'[c] = call
         /\ \A d \in LibCallers \ {c} : libCall'[d] = libCall[d] /\ LibSame(libCall'[d], libCall[d])
BY DEF LibGo, LibTypeOK, LibSame

LEMMA LibTakesAwayOthers ==
  ASSUME LibTypeOK, NEW c \in LibCallers, NEW call, NEW p, LibTakesAway(c, call, p)
  PROVE  /\ libCall'[c] = call
         /\ \A d \in LibCallers \ {c} :
              /\ LibSame(libCall'[d], libCall[d]) /\ libCall[d].lost \subseteq libCall'[d].lost
              /\ libCall[d].op = "pack" => p \in libCall'[d].lost
<1>1. libCall'[c] = call BY DEF LibTakesAway
<1>2. ASSUME NEW d \in LibCallers \ {c}
      PROVE  /\ LibSame(libCall'[d], libCall[d]) /\ libCall[d].lost \subseteq libCall'[d].lost
             /\ libCall[d].op = "pack" => p \in libCall'[d].lost
  <2>1. libCall[d] \in LibLocals BY DEF LibTypeOK
  <2>2. libCall'[d] = IF libCall[d].op = "pack" THEN [libCall[d] EXCEPT !.lost = @ \cup {p}]
                      ELSE libCall[d] BY DEF LibTakesAway
  <2> QED BY <2>1, <2>2 DEF LibLocals, LibSame
<1> QED BY <1>1, <1>2

\* Nothing changes for x where no call enters it or leaves it, ...
LEMMA LibElsewhere ==
  ASSUME NEW c \in LibCallers, NEW x, LibAgreeAt(x),
         \A d \in LibCallers \ {c} : LibSame(libCall'[d], libCall[d]),
         x \notin LibSection(libCall[c]), x \notin LibSection(libCall'[c]),
         LibMem'[x] = LibMem[x],
         x \in libStray' \/ (LibDsk'[x] = LibDsk[x] /\ x \notin libStray)
  PROVE  LibAgreeAt(x)'
<1>1. \A d \in LibCallers : LibIn(d, x) <=> LibIn(d, x)' BY LibSameSection DEF LibIn
<1>2. \A d \in LibCallers : LibIn(d, x) =>
        libCall'[d].pc = libCall[d].pc /\ LibWrote(libCall'[d]) = LibWrote(libCall[d])
  BY LibSameSection DEF LibIn, LibSame
<1>3. LibAtRest(x) <=> LibAtRest(x)' BY <1>1 DEF LibAtRest, LibIn
<1> QED BY <1>1, <1>2, <1>3 DEF LibAgreeAt

\* ... where one enters it and changes one side, ...
LEMMA LibEntering ==
  ASSUME NEW c \in LibCallers, NEW x, LibEnters(c, x), x \notin libMixed',
         \A d \in LibCallers \ {c} : LibSame(libCall'[d], libCall[d]),
         LibSection(libCall'[c]) = {x},
         IF libCall'[c].pc \in {"insert", "upsert"} THEN LibDsk'[x] = LibWrote(libCall'[c])
         ELSE LibMem'[x] = LibNone
  PROVE  LibAgreeAt(x)'
<1>1. \A d \in LibCallers \ {c} : x \notin LibSection(libCall[d]) BY DEF LibEnters
<1>2. \A d \in LibCallers \ {c} : x \notin LibSection(libCall'[d]) BY <1>1, LibSameSection
<1> QED BY <1>2 DEF LibAgreeAt, LibIn, LibAtRest

\* ... and where the one that was in it leaves it with the two sides equal.
LEMMA LibLeaving ==
  ASSUME NEW c \in LibCallers, NEW x, LibAgreeAt(x), LibIn(c, x),
         \A d \in LibCallers \ {c} : LibSame(libCall'[d], libCall[d]),
         LibSection(libCall'[c]) = {}, LibMem'[x] = LibDsk'[x] \/ x \in libStray'
  PROVE  LibAgreeAt(x)'
<1>1. \A d \in LibCallers \ {c} : x \notin LibSection(libCall[d]) BY DEF LibAgreeAt, LibIn
<1>2. \A d \in LibCallers : x \notin LibSection(libCall'[d]) BY <1>1, LibSameSection
<1> QED BY <1>2 DEF LibAgreeAt, LibIn, LibAtRest

LEMMA LibThingsApart ==
  /\ \A q \in LibPackIds : LibPackKey(q) \in LibThings \ LibKeys /\ LibPackKey(q)[1] = q
  /\ \A key \in LibKeys : key \in LibThings
  /\ \A q, o \in LibPackIds : LibPackKey(q) = LibPackKey(o) => q = o
BY DEF LibThings, LibKeys, LibPackKey

LEMMA LibNoSection ==
  ASSUME NEW call, call.pc \notin LibHolding
  PROVE  LibSection(call) = {} BY DEF LibSection, LibHolding

LEMMA LibMemIs ==
  /\ \A key \in LibKeys : LibMem[key] = libProcs[key] /\ LibDsk[key] = libFiles[key]
  /\ \A q \in LibPackIds : /\ LibMem[LibPackKey(q)] = libPacks[q]
                           /\ LibDsk[LibPackKey(q)] = libPackFiles[q]
  /\ \A key \in LibKeys : LibMem'[key] = libProcs'[key] /\ LibDsk'[key] = libFiles'[key]
  /\ \A q \in LibPackIds : /\ LibMem'[LibPackKey(q)] = libPacks'[q]
                           /\ LibDsk'[LibPackKey(q)] = libPackFiles'[q]
BY LibThingsApart DEF LibMem, LibDsk

LEMMA LibMemChanges ==
  /\ UNCHANGED <<libDisk, libMemory>> => LibMem' = LibMem /\ LibDsk' = LibDsk
  /\ \A key \in LibKeys :
       (\A k \in LibKeys \ {key} : libProcs'[k] = libProcs[k] /\ libFiles'[k] = libFiles[k])
         /\ UNCHANGED <<libPacks, libPackFiles>>
       => \A x \in LibThings \ {key} : LibMem'[x] = LibMem[x] /\ LibDsk'[x] = LibDsk[x]
  /\ \A q \in LibPackIds :
       (\A o \in LibPackIds \ {q} : libPacks'[o] = libPacks[o] /\ libPackFiles'[o] = libPackFiles[o])
         /\ UNCHANGED <<libProcs, libFiles>>
       => \A x \in LibThings \ {LibPackKey(q)} : LibMem'[x] = LibMem[x] /\ LibDsk'[x] = LibDsk[x]
<1>1. UNCHANGED <<libDisk, libMemory>> => LibMem' = LibMem /\ LibDsk' = LibDsk
  BY DEF libDisk, libMemory, LibMem, LibDsk
<1>2. \A x \in LibThings : x \in LibKeys \/ \E q \in LibPackIds : x = LibPackKey(q) BY DEF LibThings
<1>3. \A key \in LibKeys, q \in LibPackIds : key # LibPackKey(q) BY LibThingsApart
<1> QED BY <1>1, <1>2, <1>3, LibMemIs

LEMMA LibQuietAgree ==
  ASSUME LibAgree, NEW c \in LibCallers,
         \A d \in LibCallers \ {c} : LibSame(libCall'[d], libCall[d]),
         libCall[c].pc \notin LibHolding, libCall'[c].pc \notin LibHolding,
         libMixed' = libMixed,
         \A x \in LibThings : /\ LibMem'[x] = LibMem[x]
                              /\ x \in libStray' \/ (LibDsk'[x] = LibDsk[x] /\ x \notin libStray)
  PROVE  LibAgree'
<1>1. LibSection(libCall[c]) = {} /\ LibSection(libCall'[c]) = {} BY LibNoSection
<1>3. ASSUME NEW x \in LibThings \ libMixed'
      PROVE  LibAgreeAt(x)'
  <2>1. LibAgreeAt(x) BY DEF LibAgree
  <2> QED BY <1>1, <2>1, LibElsewhere
<1> QED BY <1>3 DEF LibAgree

LEMMA LibEnterAgree ==
  ASSUME LibAgree, NEW c \in LibCallers, NEW x0 \in LibThings, LibEnters(c, x0),
         \A d \in LibCallers \ {c} : LibSame(libCall'[d], libCall[d]),
         libCall[c].pc \notin LibHolding, LibSection(libCall'[c]) = {x0},
         IF libCall'[c].pc \in {"insert", "upsert"} THEN LibDsk'[x0] = LibWrote(libCall'[c])
         ELSE LibMem'[x0] = LibNone,
         \A x \in LibThings \ {x0} : LibMem'[x] = LibMem[x] /\ LibDsk'[x] = LibDsk[x],
         \A x \in LibThings \ {x0} : x \in libStray' <=> x \in libStray
  PROVE  LibAgree'
<1>1. LibSection(libCall[c]) = {} BY LibNoSection
<1>2. libMixed \subseteq libMixed' BY DEF LibEnters
<1>3. ASSUME NEW x \in LibThings \ libMixed', x # x0
      PROVE  LibAgreeAt(x)'
  <2>1. LibAgreeAt(x) /\ LibMem'[x] = LibMem[x] /\ LibDsk'[x] = LibDsk[x] BY <1>2, <1>3 DEF LibAgree
  <2> QED BY <1>1, <1>3, <2>1, LibElsewhere
<1>4. x0 \notin libMixed' => LibAgreeAt(x0)' BY LibEntering
<1> QED BY <1>3, <1>4 DEF LibAgree

LEMMA LibLeaveAgree ==
  ASSUME LibAgree, NEW c \in LibCallers, NEW x0 \in LibThings, libMixed' = libMixed,
         \A d \in LibCallers \ {c} : LibSame(libCall'[d], libCall[d]),
         LibSection(libCall[c]) = {x0}, libCall'[c].pc \notin LibHolding,
         LibAgreeAt(x0) => LibMem'[x0] = LibDsk'[x0] \/ x0 \in libStray',
         \A x \in LibThings \ {x0} : LibMem'[x] = LibMem[x] /\ LibDsk'[x] = LibDsk[x],
         \A x \in LibThings \ {x0} : x \in libStray' <=> x \in libStray
  PROVE  LibAgree'
<1>1. LibSection(libCall'[c]) = {} BY LibNoSection
<1>2. ASSUME NEW x \in LibThings \ libMixed', x # x0
      PROVE  LibAgreeAt(x)'
  <2>1. LibAgreeAt(x) /\ LibMem'[x] = LibMem[x] /\ LibDsk'[x] = LibDsk[x] BY <1>2 DEF LibAgree
  <2> QED BY <1>1, <1>2, <2>1, LibElsewhere
<1>3. x0 \notin libMixed' => LibAgreeAt(x0)'
  <2> SUFFICES ASSUME x0 \notin libMixed PROVE LibAgreeAt(x0)' OBVIOUS
  <2>1. LibAgreeAt(x0) /\ LibIn(c, x0) BY DEF LibAgree, LibIn
  <2> QED BY <1>1, <2>1, LibLeaving
<1> QED BY <1>2, <1>3 DEF LibAgree

----------------------------------------
\* The steps that change neither memory nor disk.

LibQuiet(c) ==
    /\ \A d \in LibCallers \ {c} : libCall'[d] = libCall[d]
    /\ libCall[c].pc \notin LibHolding /\ libCall'[c].pc \notin LibHolding
    /\ UNCHANGED <<libAt, libDisk, libMemory, libMixed, libFrom, libStray>>
    /\ libExcused \subseteq libExcused' /\ LibHasSeen(libCall'[c])
    /\ libCall'[c].op = "unpack" =>
         \A e \in ToSet(libCall'[c].queue), q \in LibPackIds \ {libCall'[c].pack} :
           LibNotOf(q, e.id)

LEMMA LibQuietGo ==
  ASSUME LibTypeOK, NEW c \in LibCallers, NEW call, LibGo(c, call),
         libCall[c].pc \notin LibHolding, call.pc \notin LibHolding,
         UNCHANGED <<libAt, libDisk, libMemory, libGhost>>,
         LibHasSeen(call), call.op # "unpack"
  PROVE  LibQuiet(c)
<1>1. libCall'[c] = call /\ \A d \in LibCallers \ {c} : libCall'[d] = libCall[d] BY LibGoOthers
<1>2. UNCHANGED <<libAt, libDisk, libMemory, libMixed, libFrom, libExcused, libStray>>
  BY DEF libGhost
<1>3. LibHasSeen(libCall'[c]) BY <1>1
<1> QED BY <1>1, <1>2, <1>3 DEF LibQuiet

LEMMA LibIdleQuiet ==
  LibIdle.pc = "idle" /\ "idle" \notin LibHolding /\ LibHasSeen(LibIdle) /\ LibIdle.op # "unpack"
BY LibAssumption DEF LibIdle, LibHolding, LibHasSeen, LibSeeing

LEMMA LibBeginQuiet ==
  ASSUME LibTypeOK, NEW c \in LibCallers, NEW call, LibBegin(c, call),
         call.pc \in {"download", "persist", "fetch"}, call.op # "unpack",
         call.pc # "fetch" => call.op # "pack",
         UNCHANGED <<libMemory, libGhost>>
  PROVE  LibQuiet(c)
<1>1. LibGo(c, call) /\ UNCHANGED <<libAt, libDisk>> /\ libCall[c].pc = "idle"
  BY DEF LibBegin, LibCounted, LibBusy, libDisk
<1>2. LibHasSeen(call) BY DEF LibHasSeen, LibSeeing
<1>3. libCall[c].pc \notin LibHolding /\ call.pc \notin LibHolding BY <1>1 DEF LibHolding
<1> QED BY <1>1, <1>2, <1>3, LibQuietGo

LEMMA LibCallsQuiet ==
  ASSUME LibTypeOK, NEW c \in LibCallers
  PROVE  /\ \A p \in LibIds, k \in 1..libAt : LibInstall(c, p, k) => LibQuiet(c)
         /\ \A p \in LibYamlIds : LibInstallYaml(c, p) => LibQuiet(c)
         /\ \A q \in LibPackIds, k \in 1..libAt : LibInstallPack(c, q, k) => LibQuiet(c)
         /\ LibUpdateAll(c) \/ LibStartup(c) => LibQuiet(c)
<1>1. ASSUME NEW p \in LibIds, NEW k \in 1..libAt, LibInstall(c, p, k)
      PROVE  LibQuiet(c)
  <2> DEFINE call == [LibIdle EXCEPT !.pc = "download", !.op = "one", !.by = "ui",
                                     !.queue = <<LibEntry(p, k)>>]
  <2>1. call.pc = "download" /\ call.op = "one" BY DEF LibIdle
  <2>2. LibBegin(c, call) /\ UNCHANGED <<libMemory, libGhost>> BY <1>1 DEF LibInstall
  <2> QED BY <2>1, <2>2, LibBeginQuiet
<1>2. ASSUME NEW p \in LibYamlIds, LibInstallYaml(c, p)
      PROVE  LibQuiet(c)
  <2> DEFINE call == [LibIdle EXCEPT !.pc = "persist", !.op = "yaml", !.by = "agent",
                         !.queue = <<[LibEntry(p, 1) EXCEPT !.to = <<p, "yaml">>]>>]
  <2>1. call.pc = "persist" /\ call.op = "yaml" BY DEF LibIdle
  <2>2. LibBegin(c, call) /\ UNCHANGED <<libMemory, libGhost>> BY <1>2 DEF LibInstallYaml
  <2> QED BY <2>1, <2>2, LibBeginQuiet
<1>3. ASSUME NEW q \in LibPackIds, NEW k \in 1..libAt, LibInstallPack(c, q, k)
      PROVE  LibQuiet(c)
  <2> DEFINE call == [LibIdle EXCEPT !.pc = "fetch", !.op = "pack", !.by = "agent",
                       !.pack = q, !.ver = LibShelf[k].packs[q].ver,
                       !.ids = LibShelf[k].packs[q].ids, !.from = k]
  <2>1. call.pc = "fetch" /\ call.op = "pack" BY DEF LibIdle
  <2>2. LibBegin(c, call) /\ UNCHANGED <<libMemory, libGhost>> BY <1>3 DEF LibInstallPack
  <2> QED BY <2>1, <2>2, LibBeginQuiet
<1>4. ASSUME LibUpdateAll(c)
      PROVE  LibQuiet(c)
  <2> DEFINE call == [LibIdle EXCEPT !.pc = "fetch", !.op = "all", !.by = "ui"]
  <2>1. call.pc = "fetch" /\ call.op = "all" BY DEF LibIdle
  <2>2. LibBegin(c, call) /\ UNCHANGED <<libMemory, libGhost>> BY <1>4 DEF LibUpdateAll
  <2> QED BY <2>1, <2>2, LibBeginQuiet
<1>5. ASSUME LibStartup(c)
      PROVE  LibQuiet(c)
  <2> DEFINE call == [LibIdle EXCEPT !.pc = "fetch", !.op = "startup",
                       !.have = [procs |-> LibHave, packs |-> libPacks]]
  <2>1. call.pc = "fetch" /\ call.op = "startup" BY DEF LibIdle
  <2>2. LibBegin(c, call) /\ UNCHANGED <<libMemory, libGhost>> BY <1>5 DEF LibStartup
  <2> QED BY <2>1, <2>2, LibBeginQuiet
<1> QED BY <1>1, <1>2, <1>3, <1>4, <1>5

LEMMA LibUninstallPackQuiet ==
  ASSUME LibTypeOK, NEW c \in LibCallers, NEW q \in LibPackIds, LibUninstallPack(c, q, TRUE)
  PROVE  LibQuiet(c)
<1> DEFINE call == [LibIdle EXCEPT !.pc = "others", !.op = "unpack", !.pack = q,
                       !.ids = SetToSeq(libPacks[q].procs)]
<1>1. LibGo(c, call) /\ libCall[c].pc = "idle"
  BY DEF LibUninstallPack, LibBegin, LibCounted, LibBusy
<1>2. UNCHANGED <<libAt, libDisk, libMemory, libMixed, libFrom, libStray>> /\ libExcused \subseteq libExcused'
  BY DEF LibUninstallPack, LibBegin, LibCounted, libDisk, libMemory
<1>3. call.pc = "others" /\ call.op = "unpack" /\ call.queue = <<>> BY DEF LibIdle
<1> HIDE DEF call
<1>4. libCall'[c] = call /\ \A d \in LibCallers \ {c} : libCall'[d] = libCall[d]
  BY <1>1, LibGoOthers
<1>5. ToSet(call.queue) = {} BY <1>3 DEF ToSet
<1> QED BY <1>1, <1>2, <1>3, <1>4, <1>5 DEF LibQuiet, LibHolding, LibHasSeen, LibSeeing

LEMMA LibFetchQuiet ==
  ASSUME LibTypeOK, LibSane, NEW c \in LibCallers, LibFetch(c)
  PROVE  LibQuiet(c)
<1>1. libCall[c] \in LibLocals /\ LibCallSane(libCall[c]) /\ libCall[c].pc = "fetch"
  BY DEF LibTypeOK, LibFetch, LibSane
<1>2. libCall[c].op \in {"pack", "all", "startup"} BY <1>1 DEF LibCallSane
<1>3. PICK next : /\ LibGo(c, next) /\ next.op = libCall[c].op
                  /\ next.pc = IF next.op = "pack" THEN "manifest" ELSE "take"
  <2> DEFINE call == [libCall[c] EXCEPT !.index = libAt]
             updates == LibUpdates(call.have.procs, libAt)
             all == SetToSeq({LibEntry(p, libAt) : p \in LibUpdates(LibHave, libAt)})
             mine == IF libSource = "auto" THEN SetToSeq({LibEntry(p, libAt) : p \in updates})
                     ELSE <<>>
             kept == LibPackUpdates(call.have.packs, libAt)
                       \cup IF libSource = "auto" THEN {} ELSE updates
  <2>1. call \in LibLocals /\ call.op = libCall[c].op
    <3>1. libAt \in 0..Len(LibShelf) BY LibAssumption DEF LibTypeOK
    <3> QED BY <1>1, <3>1, LibLocalsSteps DEF LibLocals
  <2>2. LibGo(c, CASE call.op = "pack" -> [call EXCEPT !.pc = "manifest"]
                   [] call.op = "all" -> [call EXCEPT !.pc = "take", !.queue = all]
                   [] call.op = "startup" ->
                        [call EXCEPT !.pc = "take", !.queue = mine, !.kept = kept]) BY DEF LibFetch
  <2> HIDE DEF call, all, mine, kept
  <2>3. \/ call.op = "pack" /\ LibGo(c, [call EXCEPT !.pc = "manifest"])
        \/ call.op = "all" /\ LibGo(c, [call EXCEPT !.pc = "take", !.queue = all])
        \/ call.op = "startup"
             /\ LibGo(c, [call EXCEPT !.pc = "take", !.queue = mine, !.kept = kept])
    BY <2>1, <2>2, <1>2
  <2>4. /\ [call EXCEPT !.pc = "manifest"].pc = "manifest"
        /\ [call EXCEPT !.pc = "manifest"].op = call.op
        /\ [call EXCEPT !.pc = "take", !.queue = all].pc = "take"
        /\ [call EXCEPT !.pc = "take", !.queue = all].op = call.op
        /\ [call EXCEPT !.pc = "take", !.queue = mine, !.kept = kept].pc = "take"
        /\ [call EXCEPT !.pc = "take", !.queue = mine, !.kept = kept].op = call.op
    BY <2>1 DEF LibLocals
  <2>5. CASE call.op = "pack" /\ LibGo(c, [call EXCEPT !.pc = "manifest"])
    BY ZenonT(30), <2>1, <2>4, <2>5
  <2>6. CASE call.op = "all" /\ LibGo(c, [call EXCEPT !.pc = "take", !.queue = all])
    BY <2>1, <2>4, <2>6
  <2>7. CASE call.op = "startup"
             /\ LibGo(c, [call EXCEPT !.pc = "take", !.queue = mine, !.kept = kept])
    BY <2>1, <2>4, <2>7
  <2> QED BY <2>3, <2>5, <2>6, <2>7
<1>4. LibHasSeen(next) /\ next.pc \notin LibHolding /\ libCall[c].pc \notin LibHolding
      /\ next.op # "unpack" BY <1>1, <1>2, <1>3 DEF LibHasSeen, LibSeeing, LibHolding
<1>5. UNCHANGED <<libAt, libDisk, libMemory, libGhost>> BY DEF LibFetch
<1> QED BY <1>3, <1>4, <1>5, LibQuietGo

LEMMA LibManifestQuiet ==
  ASSUME LibTypeOK, LibSane, NEW c \in LibCallers, LibManifest(c)
  PROVE  LibQuiet(c)
<1> DEFINE call == libCall[c]
           procs == LibNow.manifests[call.pack].procs
           queue == [i \in DOMAIN call.ids |-> LibEntry(call.ids[i], call.index)]
           next == [call EXCEPT !.pc = "take", !.manifest = procs, !.queue = queue]
<1>1. call \in LibLocals /\ LibCallSane(call) /\ call.pc = "manifest"
  BY DEF LibTypeOK, LibManifest, LibSane
<1>2. UNCHANGED <<libAt, libDisk, libMemory, libGhost>> /\ call.pc \notin LibHolding
  BY DEF LibManifest, LibHolding
<1>3. LibGo(c, LibIdle) \/ LibGo(c, next) BY DEF LibManifest
<1>4. CASE LibGo(c, LibIdle) BY <1>2, <1>4, LibIdleQuiet, LibQuietGo
<1>5. CASE LibGo(c, next)
  <2>1. call.op = "pack" /\ call.ids \in Seq(LibIds) BY <1>1 DEF LibCallSane, LibLocals
  <2>2. DOMAIN queue = DOMAIN call.ids /\ \A i \in DOMAIN call.ids : queue[i].id = call.ids[i]
    BY DEF LibEntry
  <2> HIDE DEF queue
  <2>3. \A p \in ToSet(call.ids) : \E e \in ToSet(queue) : e.id = p BY <2>2 DEF ToSet
  <2>4. next.pc = "take" /\ next.op = "pack" /\ next.queue = queue /\ next.ids = call.ids
    BY <1>1, <2>1 DEF LibLocals
  <2> HIDE DEF next
  <2>5. LibHasSeen(next) /\ next.pc \notin LibHolding /\ next.op # "unpack"
    BY <2>3, <2>4 DEF LibHasSeen, LibHolding
  <2> QED BY <1>2, <1>5, <2>5, LibQuietGo
<1> QED BY <1>3, <1>4, <1>5

\* A call that goes on with the queue it had has seen what it had seen.
LEMMA LibGoesOn ==
  ASSUME NEW call \in LibLocals, LibHasSeen(call), call.op = "pack" => call.pc \in LibSeeing,
         NEW pc
  PROVE  LibHasSeen([call EXCEPT !.pc = pc])
<1> DEFINE next == [call EXCEPT !.pc = pc]
<1>1. next.op = call.op /\ next.ids = call.ids /\ next.queue = call.queue /\ next.lost = call.lost
  BY DEF LibLocals
<1> HIDE DEF next
<1>2. LibHasSeen(next) BY <1>1 DEF LibHasSeen
<1> QED BY <1>2 DEF next

LEMMA LibTakeQuiet ==
  ASSUME LibTypeOK, LibSane, LibMembersSeen, NEW c \in LibCallers, LibTake(c)
  PROVE  LibQuiet(c)
<1> DEFINE call == libCall[c]
           entry == Head(call.queue)
<1>1. call \in LibLocals /\ LibCallSane(call) /\ call.pc = "take" /\ LibHasSeen(call)
  BY DEF LibTypeOK, LibTake, LibSane, LibMembersSeen
<1>2. call.op \in {"pack", "all", "startup"} BY <1>1 DEF LibCallSane
<1>3. UNCHANGED <<libAt, libDisk, libMemory, libGhost>> /\ call.pc \notin LibHolding
  BY DEF LibTake, LibHolding
<1>4. ASSUME NEW next, LibGo(c, next), next.pc \notin LibHolding, next.op = call.op,
             LibHasSeen(next)
      PROVE  LibQuiet(c) BY <1>2, <1>3, <1>4, LibQuietGo
<1>5. \/ LibGo(c, LibIdle)
      \/ \E pc \in {"packfile", "park"} : LibGo(c, [call EXCEPT !.pc = pc])
      \/ call.queue # <<>> /\ call.op = "pack" /\ LibCurrent(entry)
           /\ LibGo(c, [call EXCEPT !.queue = Tail(@)])
      \/ \E by : LibGo(c, [call EXCEPT !.pc = "download", !.by = by])
  <2>1. CASE call.queue = <<>> BY <2>1, <1>2 DEF LibTake
  <2>2. CASE call.queue # <<>> BY <2>2 DEF LibTake
  <2> QED BY <2>1, <2>2
<1>6. CASE LibGo(c, LibIdle) BY <1>3, <1>6, LibIdleQuiet, LibQuietGo
<1>7. ASSUME NEW pc \in {"packfile", "park"}, LibGo(c, [call EXCEPT !.pc = pc])
      PROVE  LibQuiet(c)
  <2>1. LibHasSeen([call EXCEPT !.pc = pc]) BY <1>1, LibGoesOn DEF LibSeeing
  <2>2. [call EXCEPT !.pc = pc].pc = pc /\ [call EXCEPT !.pc = pc].op = call.op
    BY <1>1 DEF LibLocals
  <2> QED BY <1>4, <1>7, <2>1, <2>2 DEF LibHolding
<1>8. ASSUME call.queue # <<>>, call.op = "pack", LibCurrent(entry),
             LibGo(c, [call EXCEPT !.queue = Tail(@)])
      PROVE  LibQuiet(c)
  <2> DEFINE next == [call EXCEPT !.queue = Tail(@)]
  <2>1. next.pc = "take" /\ next.op = call.op /\ next.queue = Tail(call.queue)
        /\ next.ids = call.ids /\ next.lost = call.lost BY <1>1 DEF LibLocals
  <2>2. /\ \A e \in ToSet(call.queue) : e = entry \/ e \in ToSet(Tail(call.queue))
        /\ entry \in ToSet(call.queue) BY <1>1, <1>8, LibQueue DEF LibLocals
  <2>3. LibThere(entry.id) BY <1>1, <1>8, <2>2 DEF LibCallSane, LibCurrent, LibThere
  <2> HIDE DEF next
  <2>4. LibHasSeen(next) BY <1>1, <1>8, <2>1, <2>2, <2>3 DEF LibHasSeen, LibSeeing
  <2>5. LibGo(c, next) BY <1>8 DEF next
  <2> QED BY <1>4, <2>1, <2>4, <2>5 DEF LibHolding
<1>9. ASSUME NEW by, LibGo(c, [call EXCEPT !.pc = "download", !.by = by])
      PROVE  LibQuiet(c)
  <2> DEFINE next == [call EXCEPT !.pc = "download", !.by = by]
  <2>1. next.pc = "download" /\ next.op = call.op /\ next.queue = call.queue
        /\ next.ids = call.ids /\ next.lost = call.lost BY <1>1 DEF LibLocals
  <2> HIDE DEF next
  <2>2. LibHasSeen(next) BY <1>1, <2>1 DEF LibHasSeen, LibSeeing
  <2>3. LibGo(c, next) BY <1>9 DEF next
  <2> QED BY <1>4, <2>1, <2>2, <2>3 DEF LibHolding
<1> QED BY <1>5, <1>6, <1>7, <1>8, <1>9

\* What a call is when its processor could not be installed.
LEMMA LibFailedQuiet ==
  ASSUME NEW call \in LibLocals
  PROVE  LET next == LibFailed(call)
         IN  next.pc \notin LibHolding /\ LibHasSeen(next) /\ next.op # "unpack"
<1>1. CASE call.op \in {"all", "startup"}
  <2> DEFINE next == [call EXCEPT !.pc = "take", !.queue = Tail(@),
                                  !.kept = @ \cup {Head(call.queue).id}]
  <2>1. LibFailed(call) = next BY <1>1 DEF LibFailed
  <2>2. next.pc = "take" /\ next.op = call.op BY DEF LibLocals
  <2>3. next.pc \notin LibHolding /\ LibHasSeen(next) /\ next.op # "unpack"
    BY <1>1, <2>2 DEF LibHolding, LibHasSeen
  <2> QED BY <2>1, <2>3
<1>2. CASE call.op \notin {"all", "startup"}
  <2>1. LibFailed(call) = LibIdle BY <1>2 DEF LibFailed
  <2> QED BY <2>1, LibIdleQuiet
<1> QED BY <1>1, <1>2

LEMMA LibDownloadQuiet ==
  ASSUME LibTypeOK, LibSane, LibMembersSeen, NEW c \in LibCallers,
         LibDownload(c) \/ LibError(c)
  PROVE  LibQuiet(c)
<1> DEFINE call == libCall[c]
<1>1. call \in LibLocals /\ LibCallSane(call) /\ LibHasSeen(call)
      /\ call.pc \in {"download", "persist", "fetch", "manifest", "packfile"}
  BY DEF LibTypeOK, LibDownload, LibError, LibSane, LibMembersSeen
<1>2. UNCHANGED <<libAt, libDisk, libMemory, libGhost>> /\ call.pc \notin LibHolding
  BY <1>1 DEF LibDownload, LibError, LibHolding
<1>3. \/ LibGo(c, LibIdle)
      \/ \E failed : failed = LibFailed(call) /\ LibGo(c, failed)
      \/ call.op = "startup" /\ LibGo(c, [call EXCEPT !.pc = "park"])
      \/ call.pc = "download" /\ LibGo(c, [call EXCEPT !.pc = "persist"])
  BY DEF LibDownload, LibError
<1>4. CASE LibGo(c, LibIdle) BY <1>2, <1>4, LibIdleQuiet, LibQuietGo
<1>5. ASSUME NEW failed, failed = LibFailed(call), LibGo(c, failed)
      PROVE  LibQuiet(c)
  <2>1. failed.pc \notin LibHolding /\ LibHasSeen(failed) /\ failed.op # "unpack"
    BY <1>1, <1>5, LibFailedQuiet
  <2> QED BY <1>2, <1>5, <2>1, LibQuietGo
<1>6. CASE call.op = "startup" /\ LibGo(c, [call EXCEPT !.pc = "park"])
  <2> DEFINE next == [call EXCEPT !.pc = "park"]
  <2>1. next.pc = "park" /\ next.op = call.op BY <1>1 DEF LibLocals
  <2>2. next.pc \notin LibHolding /\ LibHasSeen(next) /\ next.op # "unpack" /\ LibGo(c, next)
    BY <1>6, <2>1 DEF LibHolding, LibHasSeen
  <2> HIDE DEF next
  <2> QED BY <1>2, <2>2, LibQuietGo
<1>7. CASE call.pc = "download" /\ LibGo(c, [call EXCEPT !.pc = "persist"])
  <2> DEFINE next == [call EXCEPT !.pc = "persist"]
  <2>1. next.pc = "persist" /\ next.op = call.op BY <1>1 DEF LibLocals
  <2>2. LibHasSeen(next) BY <1>1, <1>7, LibGoesOn DEF LibSeeing
  <2>3. next.pc \notin LibHolding /\ next.op # "unpack" /\ LibGo(c, next)
    BY <1>1, <1>7, <2>1 DEF LibHolding, LibCallSane, LibInstalls
  <2> HIDE DEF next
  <2> QED BY <1>2, <2>2, <2>3, LibQuietGo
<1> QED BY <1>3, <1>4, <1>5, <1>6, <1>7

LEMMA LibParkQuiet ==
  ASSUME LibTypeOK, LibSane, NEW c \in LibCallers, LibPark(c) \/ LibAnnounce(c)
  PROVE  LibQuiet(c)
<1> DEFINE call == libCall[c]
           next == [call EXCEPT !.pc = "announce"]
<1>1. call \in LibLocals /\ LibCallSane(call) /\ call.pc \in {"park", "announce"}
  BY DEF LibTypeOK, LibSane, LibPark, LibAnnounce
<1>2. call.op = "startup" /\ call.pc \notin LibHolding BY <1>1 DEF LibCallSane, LibHolding
<1>3. UNCHANGED <<libAt, libDisk, libMemory, libGhost>> /\ (LibGo(c, next) \/ LibGo(c, LibIdle))
  BY DEF LibPark, LibAnnounce
<1>4. next.pc = "announce" /\ next.op = "startup" BY <1>1, <1>2 DEF LibLocals
<1> HIDE DEF next
<1>5. next.pc \notin LibHolding /\ LibHasSeen(next) /\ next.op # "unpack"
  BY <1>4 DEF LibHolding, LibHasSeen
<1> QED BY <1>2, <1>3, <1>5, LibIdleQuiet, LibQuietGo

LEMMA LibOthersQuiet ==
  ASSUME LibTypeOK, LibSane, NEW c \in LibCallers, LibOthers(c)
  PROVE  LibQuiet(c)
<1> DEFINE call == libCall[c]
           rows == SetToSeq({LibEntry(p, 1) : p \in LibOrphans(call.pack, call.ids)})
           next == [call EXCEPT !.pc = "remove", !.queue = rows]
<1>1. call \in LibLocals /\ LibCallSane(call) /\ call.pc = "others"
  BY DEF LibTypeOK, LibOthers, LibSane
<1>2. call.op = "unpack" /\ call.ids \in Seq(LibIds) /\ 1 \in 1..Len(LibShelf)
      /\ call.pc \notin LibHolding BY <1>1, LibAssumption DEF LibCallSane, LibLocals, LibHolding
<1>3. LibOrphans(call.pack, call.ids) \in SUBSET LibIds BY <1>2, LibSeqElements DEF LibOrphans
<1>4. \A e \in ToSet(rows) : e.id \in LibOrphans(call.pack, call.ids) BY <1>2, <1>3, LibRows
<1>5. LibGo(c, next) /\ UNCHANGED <<libAt, libDisk, libMemory, libGhost>> BY DEF LibOthers
<1> HIDE DEF rows
<1>6. next.pc = "remove" /\ next.op = "unpack" /\ next.queue = rows /\ next.pack = call.pack
  BY <1>1, <1>2 DEF LibLocals
<1> HIDE DEF next
<1>7. libCall'[c] = next /\ \A d \in LibCallers \ {c} : libCall'[d] = libCall[d]
  BY <1>5, LibGoOthers
<1>8. \A e \in ToSet(next.queue), q \in LibPackIds \ {next.pack} : LibNotOf(q, e.id)
  BY <1>4, <1>6 DEF LibOrphans, LibNotOf
<1>9. next.pc \notin LibHolding /\ LibHasSeen(next) BY <1>6 DEF LibHolding, LibHasSeen
<1> QED BY <1>2, <1>5, <1>7, <1>8, <1>9 DEF LibQuiet, libGhost

----------------------------------------
\* Memory and disk agree: the steps that change one of them.

LEMMA LibPersistAgree ==
  ASSUME LibTypeOK, LibSane, LibAgree, NEW c \in LibCallers, LibPersist(c)
  PROVE  LibAgree'
<1> DEFINE call == libCall[c]
           key == Head(call.queue).to
           next == [call EXCEPT !.pc = "insert"]
<1>1. call \in LibLocals /\ call.pc = "persist" /\ call.queue # <<>>
  BY DEF LibTypeOK, LibPersist, LibSane, LibCallSane
<1>2. key \in LibKeys BY <1>1, LibDefType
<1>3. /\ LibGo(c, next) /\ LibEnters(c, key) /\ libFiles' = [libFiles EXCEPT ![key] = LibDef(call)]
      /\ UNCHANGED <<libPacks, libPackFiles, libProcs>> /\ libStray' = libStray \ {key}
  BY DEF LibPersist, libMemory
<1>4. next.pc = "insert" /\ next.queue = call.queue /\ next.by = call.by BY <1>1 DEF LibLocals
<1> HIDE DEF next
<1>5. libCall'[c] = next /\ \A d \in LibCallers \ {c} : LibSame(libCall'[d], libCall[d])
  BY <1>3, LibGoOthers
<1>6. LibSection(next) = {key} /\ LibWrote(next) = LibDef(call)
  BY <1>4 DEF LibSection, LibWrote, LibDef
<1> HIDE DEF key
<1>7. libFiles'[key] = LibDef(call) /\ \A k \in LibKeys \ {key} : libFiles'[k] = libFiles[k]
  BY <1>2, <1>3 DEF LibTypeOK
<1>8. LibDsk'[key] = LibWrote(next) BY <1>2, <1>6, <1>7, LibMemIs
<1>9. \A x \in LibThings \ {key} : LibMem'[x] = LibMem[x] /\ LibDsk'[x] = LibDsk[x]
  BY <1>2, <1>3, <1>7, LibMemChanges
<1>10. key \in LibThings /\ call.pc \notin LibHolding BY <1>1, <1>2 DEF LibThings, LibHolding
<1> QED BY <1>3, <1>4, <1>5, <1>6, <1>8, <1>9, <1>10, LibEnterAgree

LEMMA LibInsertAgree ==
  ASSUME LibTypeOK, LibSane, LibAgree, NEW c \in LibCallers, LibInsert(c)
  PROVE  LibAgree'
<1> DEFINE call == libCall[c]
           key == Head(call.queue).to
           next == IF call.op \in {"one", "yaml"} THEN LibIdle
                   ELSE [call EXCEPT !.pc = "take", !.queue = Tail(@)]
<1>1. call \in LibLocals /\ call.pc = "insert" /\ call.queue # <<>>
  BY DEF LibTypeOK, LibInsert, LibSane, LibCallSane
<1>2. key \in LibKeys /\ LibSection(call) = {key} /\ LibWrote(call) = LibDef(call)
  BY <1>1, LibDefType DEF LibSection, LibWrote
<1>3. /\ LibGo(c, next) /\ libProcs' = [libProcs EXCEPT ![key] = LibDef(call)]
      /\ UNCHANGED <<libPacks, libPackFiles, libFiles, libMixed, libStray>>
  BY DEF LibInsert, libDisk, libGhost
<1>4. next.pc \in {"idle", "take"} BY <1>1 DEF LibLocals, LibIdle
<1> HIDE DEF next
<1>5. libCall'[c] = next /\ \A d \in LibCallers \ {c} : LibSame(libCall'[d], libCall[d])
  BY <1>3, LibGoOthers
<1> HIDE DEF key
<1>6. libProcs'[key] = LibDef(call) /\ \A k \in LibKeys \ {key} : libProcs'[k] = libProcs[k]
  BY <1>2, <1>3 DEF LibTypeOK
<1>7. LibAgreeAt(key) => LibMem'[key] = LibDsk'[key] \/ key \in libStray'
  <2> SUFFICES ASSUME LibAgreeAt(key), key \notin libStray PROVE LibMem'[key] = LibDsk'[key] BY <1>3
  <2>1. LibDsk[key] = LibDef(call) BY <1>1, <1>2 DEF LibAgreeAt, LibIn
  <2> QED BY <2>1, <1>2, <1>3, <1>6, LibMemIs
<1>8. \A x \in LibThings \ {key} : LibMem'[x] = LibMem[x] /\ LibDsk'[x] = LibDsk[x]
  BY <1>2, <1>3, <1>6, LibMemChanges
<1>9. key \in LibThings /\ next.pc \notin LibHolding BY <1>2, <1>4 DEF LibThings, LibHolding
<1> QED BY <1>2, <1>3, <1>5, <1>7, <1>8, <1>9, LibLeaveAgree

LEMMA LibPackFileAgree ==
  ASSUME LibTypeOK, LibSane, LibAgree, NEW c \in LibCallers, LibPackFile(c)
  PROVE  LibAgree'
<1> DEFINE call == libCall[c]
           q == call.pack
           next == [call EXCEPT !.pc = "upsert"]
<1>1. call \in LibLocals /\ call.pc = "packfile" /\ q \in LibPackIds
  BY DEF LibTypeOK, LibPackFile, LibSane, LibCallSane, LibPackRow
<1>2. /\ LibGo(c, next) /\ LibEnters(c, LibPackKey(q))
      /\ libPackFiles' = [libPackFiles EXCEPT ![q] = LibPackMeta(call)]
      /\ UNCHANGED <<libPacks, libProcs, libFiles>> /\ libStray' = libStray \ {LibPackKey(q)}
  BY DEF LibPackFile, libMemory
<1>3. next.pc = "upsert" /\ next.pack = q /\ next.ver = call.ver /\ next.manifest = call.manifest
  BY <1>1 DEF LibLocals
<1> HIDE DEF next
<1>4. libCall'[c] = next /\ \A d \in LibCallers \ {c} : LibSame(libCall'[d], libCall[d])
  BY <1>2, LibGoOthers
<1>5. LibSection(next) = {LibPackKey(q)} /\ LibWrote(next) = LibPackMeta(call)
  BY <1>3 DEF LibSection, LibWrote, LibPackMeta
<1> HIDE DEF q
<1>6. /\ libPackFiles'[q] = LibPackMeta(call)
      /\ \A o \in LibPackIds \ {q} : libPackFiles'[o] = libPackFiles[o] BY <1>1, <1>2 DEF LibTypeOK
<1>7. LibDsk'[LibPackKey(q)] = LibWrote(next) BY <1>1, <1>5, <1>6, LibMemIs
<1>8. \A x \in LibThings \ {LibPackKey(q)} : LibMem'[x] = LibMem[x] /\ LibDsk'[x] = LibDsk[x]
  BY <1>1, <1>2, <1>6, LibMemChanges
<1>9. LibPackKey(q) \in LibThings /\ call.pc \notin LibHolding BY <1>1 DEF LibThings, LibHolding
<1> QED BY <1>2, <1>3, <1>4, <1>5, <1>7, <1>8, <1>9, LibEnterAgree

LEMMA LibUpsertAgree ==
  ASSUME LibTypeOK, LibSane, LibAgree, NEW c \in LibCallers, LibUpsertPack(c)
  PROVE  LibAgree'
<1> DEFINE call == libCall[c]
           q == call.pack
<1>1. call \in LibLocals /\ call.pc = "upsert" /\ q \in LibPackIds
  BY DEF LibTypeOK, LibUpsertPack, LibSane, LibCallSane, LibPackRow
<1>2. LibSection(call) = {LibPackKey(q)} /\ LibWrote(call) = LibPackMeta(call)
  BY <1>1 DEF LibSection, LibWrote
<1>3. /\ LibGo(c, LibIdle) /\ libPacks' = [libPacks EXCEPT ![q] = LibPackMeta(call)]
      /\ UNCHANGED <<libPackFiles, libProcs, libFiles, libMixed, libStray>>
  BY DEF LibUpsertPack, libDisk
<1>4. libCall'[c] = LibIdle /\ \A d \in LibCallers \ {c} : LibSame(libCall'[d], libCall[d])
  BY <1>3, LibGoOthers
<1> HIDE DEF q
<1>5. /\ libPacks'[q] = LibPackMeta(call)
      /\ \A o \in LibPackIds \ {q} : libPacks'[o] = libPacks[o] BY <1>1, <1>3 DEF LibTypeOK
<1>6. LibAgreeAt(LibPackKey(q)) =>
        LibMem'[LibPackKey(q)] = LibDsk'[LibPackKey(q)] \/ LibPackKey(q) \in libStray'
  <2> SUFFICES ASSUME LibAgreeAt(LibPackKey(q)), LibPackKey(q) \notin libStray
               PROVE  LibMem'[LibPackKey(q)] = LibDsk'[LibPackKey(q)] BY <1>3
  <2>1. LibDsk[LibPackKey(q)] = LibPackMeta(call) BY <1>1, <1>2 DEF LibAgreeAt, LibIn
  <2> QED BY <2>1, <1>1, <1>3, <1>5, LibMemIs
<1>7. \A x \in LibThings \ {LibPackKey(q)} : LibMem'[x] = LibMem[x] /\ LibDsk'[x] = LibDsk[x]
  BY <1>1, <1>3, <1>5, LibMemChanges
<1>8. LibPackKey(q) \in LibThings BY <1>1 DEF LibThings
<1> QED BY <1>2, <1>3, <1>4, <1>6, <1>7, <1>8, LibIdleQuiet, LibLeaveAgree

\* A processor leaves the memory, and then the disk.
LEMMA LibTakenAgree ==
  ASSUME LibTypeOK, LibAgree, NEW c \in LibCallers, NEW key \in LibKeys, LibEnters(c, key),
         \A d \in LibCallers \ {c} : LibSame(libCall'[d], libCall[d]),
         libCall[c].pc \notin LibHolding, libCall'[c].pc = "delete",
         Head(libCall'[c].queue).to = key,
         libProcs' = [libProcs EXCEPT ![key] = LibNone],
         UNCHANGED <<libFiles, libPacks, libPackFiles, libStray>>
  PROVE  LibAgree'
<1>1. LibSection(libCall'[c]) = {key} BY DEF LibSection
<1>2. libProcs'[key] = LibNone /\ \A k \in LibKeys \ {key} : libProcs'[k] = libProcs[k]
  BY DEF LibTypeOK
<1>3. LibMem'[key] = LibNone BY <1>2, LibMemIs
<1>4. \A x \in LibThings \ {key} : LibMem'[x] = LibMem[x] /\ LibDsk'[x] = LibDsk[x]
  BY <1>2, LibMemChanges
<1>5. key \in LibThings BY DEF LibThings
<1> QED BY <1>1, <1>3, <1>4, <1>5, LibEnterAgree

LEMMA LibUninstallAgree ==
  ASSUME LibTypeOK, LibAgree, NEW c \in LibCallers, NEW key \in LibKeys, LibUninstall(c, key)
  PROVE  LibAgree'
<1> DEFINE entry == [LibEntry(key[1], 1) EXCEPT !.to = key]
           call == [LibIdle EXCEPT !.pc = "delete", !.op = "uninstall", !.queue = <<entry>>]
<1>1. /\ libCall[c].pc = "idle" /\ LibEnters(c, key) /\ libProcs' = [libProcs EXCEPT ![key] = LibNone]
      /\ UNCHANGED <<libFiles, libPacks, libPackFiles, libStray>>
      /\ LibTakesAway(c, call, key[1]) \/ LibGo(c, call) BY DEF LibUninstall, LibCounted, LibBusy
<1>2. entry.to = key BY DEF LibEntry
<1> HIDE DEF entry
<1>3. call.pc = "delete" /\ Head(call.queue) = entry BY DEF LibIdle
<1> HIDE DEF call
<1>4. libCall'[c] = call /\ \A d \in LibCallers \ {c} : LibSame(libCall'[d], libCall[d])
  BY <1>1, LibGoOthers, LibTakesAwayOthers
<1> QED BY <1>1, <1>2, <1>3, <1>4, LibTakenAgree DEF LibHolding

LEMMA LibDeleteAgree ==
  ASSUME LibTypeOK, LibSane, LibAgree, NEW c \in LibCallers,
         LibDelete(c) \/ (LibLeaves(c) /\ libCall[c].pc = "delete")
  PROVE  LibAgree'
<1> DEFINE call == libCall[c]
           key == Head(call.queue).to
           next == LibDeleted(call)
<1>1. call \in LibLocals /\ LibCallSane(call) /\ call.pc = "delete" /\ call.queue # <<>>
  BY DEF LibTypeOK, LibDelete, LibSane, LibCallSane
<1>2. key \in LibKeys /\ LibSection(call) = {key} BY <1>1, LibDefType DEF LibSection
<1>3. /\ LibGo(c, next) /\ UNCHANGED <<libPacks, libPackFiles, libProcs, libMixed>>
      /\ \/ libFiles' = [libFiles EXCEPT ![key] = LibNone] /\ libStray' = libStray \ {key}
         \/ libFiles' = libFiles /\ libStray' = libStray \cup {key}
  BY <1>1 DEF LibDelete, LibLeaves, libMemory, libDisk
<1>4. next.pc \in {"idle", "remove"} BY <1>1, LibDeletedType
<1> HIDE DEF next
<1>5. libCall'[c] = next /\ \A d \in LibCallers \ {c} : LibSame(libCall'[d], libCall[d])
  BY <1>3, LibGoOthers
<1> HIDE DEF key
<1>6. (libFiles'[key] = LibNone \/ key \in libStray') /\ \A k \in LibKeys \ {key} : libFiles'[k] = libFiles[k]
  BY <1>2, <1>3 DEF LibTypeOK
<1>7. LibAgreeAt(key) => LibMem'[key] = LibDsk'[key] \/ key \in libStray'
  <2> SUFFICES ASSUME LibAgreeAt(key), key \notin libStray' PROVE LibMem'[key] = LibDsk'[key]
    OBVIOUS
  <2>1. LibMem[key] = LibNone BY <1>1, <1>2 DEF LibAgreeAt, LibIn
  <2> QED BY <2>1, <1>2, <1>3, <1>6, LibMemIs
<1>8. \A x \in LibThings \ {key} : LibMem'[x] = LibMem[x] /\ LibDsk'[x] = LibDsk[x]
  BY <1>2, <1>3, <1>6, LibMemChanges
<1>9. key \in LibThings /\ next.pc \notin LibHolding BY <1>2, <1>4 DEF LibThings, LibHolding
<1> QED BY <1>2, <1>3, <1>5, <1>7, <1>8, <1>9, LibLeaveAgree

\* So does a pack.
LEMMA LibUnlistedAgree ==
  ASSUME LibTypeOK, LibAgree, NEW c \in LibCallers, NEW q \in LibPackIds,
         LibEnters(c, LibPackKey(q)), NEW call, LibGo(c, call),
         libCall[c].pc \notin LibHolding, call.pc = "unfile", call.pack = q,
         libPacks' = [libPacks EXCEPT ![q] = LibNone],
         UNCHANGED <<libFiles, libProcs, libPackFiles, libStray>>
  PROVE  LibAgree'
<1>1. libCall'[c] = call /\ \A d \in LibCallers \ {c} : LibSame(libCall'[d], libCall[d])
  BY LibGoOthers
<1>2. LibSection(libCall'[c]) = {LibPackKey(q)} BY <1>1 DEF LibSection
<1>3. libPacks'[q] = LibNone /\ \A o \in LibPackIds \ {q} : libPacks'[o] = libPacks[o]
  BY DEF LibTypeOK
<1>4. LibMem'[LibPackKey(q)] = LibNone BY <1>3, LibMemIs
<1>5. \A x \in LibThings \ {LibPackKey(q)} : LibMem'[x] = LibMem[x] /\ LibDsk'[x] = LibDsk[x]
  BY <1>3, LibMemChanges
<1>6. LibPackKey(q) \in LibThings BY DEF LibThings
<1> QED BY <1>1, <1>2, <1>4, <1>5, <1>6, LibEnterAgree

LEMMA LibUninstallPackAgree ==
  ASSUME LibTypeOK, LibAgree, NEW c \in LibCallers, NEW q \in LibPackIds,
         LibUninstallPack(c, q, FALSE)
  PROVE  LibAgree'
<1> DEFINE call == [LibIdle EXCEPT !.pc = "unfile", !.op = "unpack", !.pack = q,
                       !.ids = SetToSeq(libPacks[q].procs)]
<1>1. /\ libCall[c].pc = "idle" /\ LibEnters(c, LibPackKey(q)) /\ LibGo(c, call)
      /\ libPacks' = [libPacks EXCEPT ![q] = LibNone]
      /\ UNCHANGED <<libFiles, libProcs, libPackFiles, libStray>>
  BY DEF LibUninstallPack, LibBegin, LibCounted, LibBusy
<1>2. call.pc = "unfile" /\ call.pack = q BY DEF LibIdle
<1> HIDE DEF call
<1> QED BY <1>1, <1>2, LibUnlistedAgree DEF LibHolding

LEMMA LibRemoveAgree ==
  ASSUME LibTypeOK, LibSane, LibAgree, NEW c \in LibCallers, LibRemove(c)
  PROVE  LibAgree'
<1> DEFINE call == libCall[c]
           entry == Head(call.queue)
<1>1. call \in LibLocals /\ call.pc = "remove" /\ call.pack \in LibPackIds
  BY DEF LibTypeOK, LibRemove, LibSane, LibCallSane
<1>2. call.pc \notin LibHolding BY <1>1 DEF LibHolding
<1>3. CASE call.queue = <<>>
  <2> DEFINE next == [call EXCEPT !.pc = "unfile"]
  <2>1. /\ LibGo(c, next) /\ LibEnters(c, LibPackKey(call.pack))
        /\ libPacks' = [libPacks EXCEPT ![call.pack] = LibNone]
        /\ UNCHANGED <<libFiles, libProcs, libPackFiles, libStray>> BY <1>3 DEF LibRemove, libDisk
  <2>2. next.pc = "unfile" /\ next.pack = call.pack BY <1>1 DEF LibLocals
  <2> HIDE DEF next
  <2> QED BY <1>1, <1>2, <2>1, <2>2, LibUnlistedAgree
<1>4. CASE call.queue # <<>>
  <2> DEFINE next == [call EXCEPT !.pc = "delete"]
  <2>1. /\ LibTakesAway(c, next, entry.id) /\ LibEnters(c, entry.to)
        /\ libProcs' = [libProcs EXCEPT ![entry.to] = LibNone]
        /\ UNCHANGED <<libFiles, libPacks, libPackFiles, libStray>> BY <1>4 DEF LibRemove, libDisk
  <2>2. next.pc = "delete" /\ next.queue = call.queue BY <1>1 DEF LibLocals
  <2> HIDE DEF next
  <2>3. libCall'[c] = next /\ \A d \in LibCallers \ {c} : LibSame(libCall'[d], libCall[d])
    BY <2>1, LibTakesAwayOthers
  <2>4. entry.to \in LibKeys BY <1>1, <1>4, LibDefType
  <2> QED BY <1>2, <2>1, <2>2, <2>3, <2>4, LibTakenAgree
<1> QED BY <1>3, <1>4

LEMMA LibUnfileAgree ==
  ASSUME LibTypeOK, LibSane, LibAgree, NEW c \in LibCallers,
         LibUnfile(c) \/ (LibLeaves(c) /\ libCall[c].pc = "unfile")
  PROVE  LibAgree'
<1> DEFINE call == libCall[c]
           q == call.pack
<1>1. call.pc = "unfile" /\ q \in LibPackIds BY DEF LibUnfile, LibSane, LibCallSane
<1>2. LibSection(call) = {LibPackKey(q)} BY <1>1 DEF LibSection
<1>3. /\ LibGo(c, LibIdle) /\ UNCHANGED <<libPacks, libProcs, libFiles, libMixed>>
      /\ \/ libPackFiles' = [libPackFiles EXCEPT ![q] = LibNone]
           /\ libStray' = libStray \ {LibPackKey(q)}
         \/ libPackFiles' = libPackFiles /\ libStray' = libStray \cup {LibPackKey(q)}
  BY <1>1 DEF LibUnfile, LibLeaves, libMemory, libDisk
<1>4. libCall'[c] = LibIdle /\ \A d \in LibCallers \ {c} : LibSame(libCall'[d], libCall[d])
  BY <1>3, LibGoOthers
<1> HIDE DEF q
<1>5. /\ libPackFiles'[q] = LibNone \/ LibPackKey(q) \in libStray'
      /\ \A o \in LibPackIds \ {q} : libPackFiles'[o] = libPackFiles[o] BY <1>1, <1>3 DEF LibTypeOK
<1>6. LibAgreeAt(LibPackKey(q)) =>
        LibMem'[LibPackKey(q)] = LibDsk'[LibPackKey(q)] \/ LibPackKey(q) \in libStray'
  <2> SUFFICES ASSUME LibAgreeAt(LibPackKey(q)), LibPackKey(q) \notin libStray'
               PROVE  LibMem'[LibPackKey(q)] = LibDsk'[LibPackKey(q)]
    OBVIOUS
  <2>1. LibMem[LibPackKey(q)] = LibNone BY <1>1, <1>2 DEF LibAgreeAt, LibIn
  <2> QED BY <2>1, <1>1, <1>3, <1>5, LibMemIs
<1>7. \A x \in LibThings \ {LibPackKey(q)} : LibMem'[x] = LibMem[x] /\ LibDsk'[x] = LibDsk[x]
  BY <1>1, <1>3, <1>5, LibMemChanges
<1>8. LibPackKey(q) \in LibThings BY <1>1 DEF LibThings
<1> QED BY <1>2, <1>3, <1>4, <1>6, <1>7, <1>8, LibIdleQuiet, LibLeaveAgree

LEMMA LibCutAgree ==
  ASSUME LibTypeOK, LibSane, LibAgree, NEW c \in LibCallers, LibCut(c)
  PROVE  LibAgree'
<1> DEFINE call == libCall[c]
           key == Head(call.queue).to
<1>1. call \in LibLocals /\ LibCallSane(call) /\ call.pc \in {"persist", "packfile"}
  BY DEF LibTypeOK, LibSane, LibCut
<1>2. PICK next : LibGo(c, next) /\ next.pc \notin LibHolding
  BY <1>1, LibFailedQuiet, LibIdleQuiet DEF LibCut
<1>3. libCall'[c] = next /\ \A d \in LibCallers \ {c} : LibSame(libCall'[d], libCall[d])
  BY <1>2, LibGoOthers
<1>4. UNCHANGED <<libProcs, libPacks, libMixed>> BY DEF LibCut, libMemory
<1>5. ASSUME NEW x \in LibThings
      PROVE  LibMem'[x] = LibMem[x] /\ (x \in libStray' \/ (LibDsk'[x] = LibDsk[x] /\ x \notin libStray))
  <2>1. LibMem'[x] = LibMem[x] BY <1>4 DEF LibMem
  <2>2. CASE call.pc = "persist"
    <3>1. key \in LibKeys BY <1>1, <2>2, LibDefType DEF LibCallSane
    <3>2. /\ libFiles' = [libFiles EXCEPT ![key] = LibNone] /\ libPackFiles' = libPackFiles
          /\ libStray' = libStray \cup {key} BY <2>2 DEF LibCut
    <3> HIDE DEF key
    <3>3. \A k \in LibKeys \ {key} : libFiles'[k] = libFiles[k] BY <3>2 DEF LibTypeOK
    <3>4. x # key => LibDsk'[x] = LibDsk[x] BY <1>4, <3>1, <3>2, <3>3, LibMemChanges
    <3> QED BY <2>1, <3>2, <3>4
  <2>3. CASE call.pc = "packfile"
    <3> DEFINE q == call.pack
    <3>1. q \in LibPackIds BY <1>1, <2>3 DEF LibCallSane, LibPackRow
    <3>2. /\ libPackFiles' = [libPackFiles EXCEPT ![q] = LibNone] /\ libFiles' = libFiles
          /\ libStray' = libStray \cup {LibPackKey(q)} BY <2>3 DEF LibCut
    <3> HIDE DEF q
    <3>3. \A o \in LibPackIds \ {q} : libPackFiles'[o] = libPackFiles[o] BY <3>2 DEF LibTypeOK
    <3>4. x # LibPackKey(q) => LibDsk'[x] = LibDsk[x] BY <1>4, <3>1, <3>2, <3>3, LibMemChanges
    <3> QED BY <2>1, <3>2, <3>4
  <2> QED BY <1>1, <2>2, <2>3
<1>6. call.pc \notin LibHolding BY <1>1 DEF LibHolding
<1> QED BY <1>2, <1>3, <1>4, <1>5, <1>6, LibQuietAgree

LEMMA LibRestartAgree ==
  ASSUME LibRestart
  PROVE  LibAgree'
<1>1. LibMem' = LibDsk' BY DEF LibRestart, LibMem, LibDsk, libDisk
<1>2. \A c \in LibCallers : LibSection(libCall'[c]) = {}
  BY LibIdleQuiet, LibNoSection DEF LibRestart
<1> QED BY <1>1, <1>2 DEF LibAgree, LibAgreeAt, LibIn, LibAtRest

----------------------------------------
\* The members of packs: what a step keeps.

LibThereStill == \A p \in LibIds : LibThere(p) => libProcs'[<<p, "m">>] # LibNone

LEMMA LibSeenKept ==
  ASSUME LibTypeOK, LibMembersSeen, NEW c \in LibCallers,
         \A d \in LibCallers \ {c} :
           LibSame(libCall'[d], libCall[d]) /\ libCall[d].lost \subseteq libCall'[d].lost,
         \A d \in LibCallers \ {c}, p \in LibIds :
           LibThere(p) /\ libCall[d].op = "pack" =>
             libProcs'[<<p, "m">>] # LibNone \/ p \in libCall'[d].lost,
         LibHasSeen(libCall[c])'
  PROVE  LibMembersSeen'
<1>1. ASSUME NEW d \in LibCallers \ {c}
      PROVE  LibHasSeen(libCall[d])'
  <2>1. LibHasSeen(libCall[d]) /\ libCall[d].ids \in Seq(LibIds)
    BY DEF LibMembersSeen, LibTypeOK, LibLocals
  <2>2. ToSet(libCall[d].ids) \subseteq LibIds BY <2>1, LibSeqElements
  <2> QED BY <2>1, <2>2 DEF LibHasSeen, LibSame, LibThere
<1> QED BY <1>1 DEF LibMembersSeen

LEMMA LibFilesKept ==
  ASSUME LibTypeOK, LibFilesComplete, UNCHANGED <<libPackFiles, libFrom>>,
         libMixed \subseteq libMixed', libExcused \subseteq libExcused', LibThereStill
  PROVE  LibFilesComplete'
<1>1. \A q \in LibPackIds : libPackFiles[q] # LibNone => libPackFiles[q].procs \subseteq LibIds
  BY DEF LibTypeOK, LibMetas
<1>2. \A q \in LibPackIds : LibNamed(q)' = LibNamed(q) BY DEF LibNamed
<1> QED BY <1>1, <1>2 DEF LibFilesComplete, LibThereStill, LibThere

LEMMA LibUnfiledKept ==
  ASSUME LibUnfiledExcused, NEW c \in LibCallers,
         \A d \in LibCallers \ {c} : LibSame(libCall'[d], libCall[d]),
         libMixed \subseteq libMixed', libExcused \subseteq libExcused',
         libCall'[c].pc # "unfile"
  PROVE  LibUnfiledExcused' BY DEF LibUnfiledExcused, LibSame

LEMMA LibDoomedKept ==
  ASSUME LibDoomedAlone, NEW c \in LibCallers,
         \A d \in LibCallers \ {c} : LibSame(libCall'[d], libCall[d]),
         libExcused \subseteq libExcused', libCall[c].pc # "upsert",
         \A q \in LibPackIds : libPacks'[q] = libPacks[q] \/ libPacks'[q] = LibNone,
         \/ libCall'[c].op # "unpack"
         \/ /\ libCall[c].op = "unpack" /\ libCall'[c].pack = libCall[c].pack
            /\ ToSet(libCall'[c].queue) \subseteq ToSet(libCall[c].queue)
         \/ \A e \in ToSet(libCall'[c].queue), q \in LibPackIds \ {libCall'[c].pack} :
              LibNotOf(q, e.id)
  PROVE  LibDoomedAlone'
<1>1. \A q \in LibPackIds : LibUpserting(q) => LibUpserting(q)' BY DEF LibUpserting, LibSame
<1>2. \A q \in LibPackIds : \A p : LibNotOf(q, p) =>
        (libPacks'[q] = LibNone \/ p \notin libPacks'[q].procs) BY DEF LibNotOf
<1>3. ASSUME NEW d \in LibCallers, libCall'[d].op = "unpack",
             NEW e \in ToSet(libCall'[d].queue), NEW q \in LibPackIds \ {libCall'[d].pack}
      PROVE  \/ libPacks'[q] = LibNone \/ e.id \notin libPacks'[q].procs
             \/ <<q, e.id>> \in libExcused' \/ LibUpserting(q)'
  <2>1. CASE /\ libCall[d].op = "unpack" /\ libCall'[d].pack = libCall[d].pack
             /\ ToSet(libCall'[d].queue) \subseteq ToSet(libCall[d].queue)
    <3>1. LibNotOf(q, e.id) \/ <<q, e.id>> \in libExcused \/ LibUpserting(q)
      BY <1>3, <2>1 DEF LibDoomedAlone
    <3> QED BY <3>1, <1>1, <1>2
  <2>2. CASE LibNotOf(q, e.id) BY <2>2, <1>2
  <2>3. d # c => /\ libCall[d].op = "unpack" /\ libCall'[d].pack = libCall[d].pack
                 /\ ToSet(libCall'[d].queue) \subseteq ToSet(libCall[d].queue) BY <1>3 DEF LibSame
  <2> QED BY <1>3, <2>1, <2>2, <2>3
<1> QED BY <1>3 DEF LibDoomedAlone, LibNotOf

LEMMA LibStrayKept ==
  ASSUME LibStrayExcused, libMixed \subseteq libMixed', libExcused \subseteq libExcused',
         \A p \in LibIds : <<p, "m">> \in libStray' /\ libFiles'[<<p, "m">>] = LibNone =>
           \/ <<p, "m">> \in libStray /\ libFiles[<<p, "m">>] = LibNone
           \/ LibPackIds \X {p} \subseteq libExcused',
         \A q \in LibPackIds :
           LibPackKey(q) \in libStray' \ libMixed' /\ libPackFiles'[q] # LibNone =>
             \/ LibPackKey(q) \in libStray /\ libPackFiles[q] # LibNone
             \/ {q} \X LibIds \subseteq libExcused'
  PROVE  LibStrayExcused'
<1>1. ASSUME NEW p \in LibIds, <<p, "m">> \in libStray', libFiles'[<<p, "m">>] = LibNone
      PROVE  LibPackIds \X {p} \subseteq libExcused' BY <1>1 DEF LibStrayExcused
<1>2. ASSUME NEW q \in LibPackIds, LibPackKey(q) \in libStray' \ libMixed',
             libPackFiles'[q] # LibNone
      PROVE  {q} \X LibIds \subseteq libExcused' BY <1>2 DEF LibStrayExcused
<1> QED BY <1>1, <1>2 DEF LibStrayExcused

LEMMA LibStraySame ==
  ASSUME LibStrayExcused, libMixed \subseteq libMixed', libExcused \subseteq libExcused',
         UNCHANGED <<libFiles, libPackFiles, libStray>>
  PROVE  LibStrayExcused' BY LibStrayKept

LEMMA LibQuietMembers ==
  ASSUME LibTypeOK, LibMembersInv, NEW c \in LibCallers, LibQuiet(c)
  PROVE  LibMembersInv'
<1>1. \A d \in LibCallers \ {c} :
        LibSame(libCall'[d], libCall[d]) /\ libCall[d].lost \subseteq libCall'[d].lost
  BY DEF LibQuiet, LibSame
<1>2. /\ UNCHANGED <<libProcs, libPacks, libFiles, libPackFiles, libMixed, libFrom, libStray>>
      /\ libExcused \subseteq libExcused' BY DEF LibQuiet, libDisk, libMemory
<1>3. LibHasSeen(libCall[c])' BY <1>2 DEF LibQuiet, LibHasSeen, LibThere
<1>4. LibMembersSeen' BY <1>1, <1>2, <1>3, LibSeenKept DEF LibMembersInv, LibThere
<1>5. LibFilesComplete' BY <1>2, LibFilesKept DEF LibMembersInv, LibThereStill, LibThere
<1>6. LibUnfiledExcused' BY <1>1, <1>2, LibUnfiledKept DEF LibMembersInv, LibQuiet, LibHolding
<1>7. LibDoomedAlone' BY <1>1, <1>2, LibDoomedKept DEF LibMembersInv, LibQuiet, LibHolding
<1>s. LibStrayExcused' BY <1>2, LibStraySame DEF LibMembersInv
<1> QED BY <1>4, <1>5, <1>6, <1>7, <1>s DEF LibMembersInv

LEMMA LibPersistMembers ==
  ASSUME LibTypeOK, LibSane, LibMembersInv, NEW c \in LibCallers, LibPersist(c)
  PROVE  LibMembersInv'
<1> DEFINE call == libCall[c]
           next == [call EXCEPT !.pc = "insert"]
<1>1. call \in LibLocals /\ call.pc = "persist" /\ call.op \in LibInstalls /\ LibHasSeen(call)
  BY DEF LibTypeOK, LibPersist, LibSane, LibCallSane, LibMembersInv, LibMembersSeen
<1>0. LibStrayExcused'
  <2> DEFINE key == Head(call.queue).to
  <2>1. /\ libFiles' = [libFiles EXCEPT ![key] = LibDef(call)] /\ libStray' = libStray \ {key}
        /\ libMixed \subseteq libMixed' /\ UNCHANGED <<libPackFiles, libExcused>>
    BY DEF LibPersist, LibEnters
  <2> HIDE DEF key
  <2>2. \A k \in LibKeys \ {key} : libFiles'[k] = libFiles[k] BY <2>1 DEF LibTypeOK
  <2>3. \A p \in LibIds : <<p, "m">> \in LibKeys BY DEF LibKeys
  <2> QED BY <2>1, <2>2, <2>3, LibStrayKept DEF LibMembersInv
<1>2. /\ LibGo(c, next) /\ libMixed \subseteq libMixed'
      /\ UNCHANGED <<libPacks, libPackFiles, libProcs, libFrom, libExcused>>
  BY DEF LibPersist, libMemory, LibEnters
<1>3. next.pc = "insert" /\ next.op = call.op /\ LibHasSeen(next)
  BY <1>1, LibGoesOn DEF LibLocals, LibSeeing
<1> HIDE DEF next
<1>4. libCall'[c] = next /\ \A d \in LibCallers \ {c} :
        LibSame(libCall'[d], libCall[d]) /\ libCall[d].lost \subseteq libCall'[d].lost
  BY <1>2, LibGoOthers
<1>5. LibHasSeen(libCall[c])' BY <1>2, <1>3, <1>4 DEF LibHasSeen, LibThere
<1>6. LibMembersSeen' BY <1>2, <1>4, <1>5, LibSeenKept DEF LibMembersInv, LibThere
<1>7. LibFilesComplete' BY <1>2, LibFilesKept DEF LibMembersInv, LibThereStill, LibThere
<1>8. LibUnfiledExcused' BY <1>2, <1>3, <1>4, LibUnfiledKept DEF LibMembersInv
<1>9. LibDoomedAlone' BY <1>1, <1>2, <1>3, <1>4, LibDoomedKept DEF LibMembersInv, LibInstalls
<1> QED BY <1>0, <1>6, <1>7, <1>8, <1>9 DEF LibMembersInv

LEMMA LibInsertMembers ==
  ASSUME LibTypeOK, LibSane, LibMembersInv, NEW c \in LibCallers, LibInsert(c)
  PROVE  LibMembersInv'
<1> DEFINE call == libCall[c]
           entry == Head(call.queue)
           next == IF call.op \in {"one", "yaml"} THEN LibIdle
                   ELSE [call EXCEPT !.pc = "take", !.queue = Tail(@)]
<1>1. call \in LibLocals /\ call.pc = "insert" /\ call.op \in LibInstalls /\ LibHasSeen(call)
      /\ call.queue # <<>> /\ LibCallSane(call)
  BY DEF LibTypeOK, LibInsert, LibSane, LibCallSane, LibMembersInv, LibMembersSeen
<1>2. /\ LibGo(c, next) /\ libProcs' = [libProcs EXCEPT ![entry.to] = LibDef(call)]
      /\ UNCHANGED <<libPacks, libPackFiles, libMixed, libFrom, libExcused, libFiles, libStray>>
  BY DEF LibInsert, libDisk, libGhost
<1>3. LibDef(call) # LibNone /\ entry.to \in LibKeys BY <1>1, LibDefType
<1>4. libProcs'[entry.to] # LibNone /\ \A key \in LibKeys \ {entry.to} : libProcs'[key] = libProcs[key]
  BY <1>2, <1>3 DEF LibTypeOK
<1>5. LibThereStill BY <1>4 DEF LibThereStill, LibThere, LibKeys
<1>6. /\ \A e \in ToSet(call.queue) : e = entry \/ e \in ToSet(Tail(call.queue))
      /\ entry \in ToSet(call.queue) BY <1>1, LibQueue DEF LibLocals
<1>7. /\ next.op # "unpack" /\ next.pc \in {"idle", "take"}
      /\ next.op = "pack" => /\ next.op = call.op /\ next.ids = call.ids /\ next.lost = call.lost
                             /\ next.queue = Tail(call.queue)
  BY <1>1, LibIdleQuiet, LibAssumption DEF LibLocals, LibInstalls, LibIdle
<1> HIDE DEF next
<1>8. libCall'[c] = next /\ \A d \in LibCallers \ {c} :
        LibSame(libCall'[d], libCall[d]) /\ libCall[d].lost \subseteq libCall'[d].lost
  BY <1>2, LibGoOthers
<1>9. call.ids \in Seq(LibIds) BY <1>1 DEF LibLocals
<1>10. ToSet(call.ids) \subseteq LibIds BY <1>9, LibSeqElements
<1>11. ASSUME next.op = "pack", NEW p \in ToSet(next.ids)
       PROVE  (\E e \in ToSet(next.queue) : e.id = p) \/ libProcs'[<<p, "m">>] # LibNone
                \/ p \in next.lost
  <2>1. (\E e \in ToSet(call.queue) : e.id = p) \/ LibThere(p) \/ p \in call.lost
    BY <1>1, <1>7, <1>11 DEF LibHasSeen, LibSeeing
  <2>2. entry.to = <<entry.id, "m">> BY <1>1, <1>6, <1>7, <1>11 DEF LibCallSane
  <2> QED BY <2>1, <2>2, <1>4, <1>5, <1>6, <1>7, <1>10, <1>11 DEF LibThereStill
<1>12. LibHasSeen(libCall[c])' BY <1>8, <1>11 DEF LibHasSeen, LibThere
<1>13. LibMembersSeen' BY <1>5, <1>8, <1>12, LibSeenKept DEF LibMembersInv, LibThereStill
<1>14. LibFilesComplete' BY <1>2, <1>5, LibFilesKept DEF LibMembersInv
<1>15. LibUnfiledExcused' BY <1>2, <1>7, <1>8, LibUnfiledKept DEF LibMembersInv
<1>16. LibDoomedAlone' BY <1>1, <1>2, <1>7, <1>8, LibDoomedKept DEF LibMembersInv, LibInstalls
<1>s. LibStrayExcused' BY <1>2, LibStraySame DEF LibMembersInv
<1> QED BY <1>13, <1>14, <1>15, <1>16, <1>s DEF LibMembersInv

LEMMA LibPackFileMembers ==
  ASSUME LibTypeOK, LibSane, LibMembersInv, NEW c \in LibCallers, LibPackFile(c)
  PROVE  LibMembersInv'
<1> DEFINE call == libCall[c]
           q == call.pack
           next == [call EXCEPT !.pc = "upsert"]
<1>1. call \in LibLocals /\ call.pc = "packfile" /\ call.op = "pack" /\ LibHasSeen(call)
      /\ call.queue = <<>> /\ LibPackRow(call)
  BY DEF LibTypeOK, LibPackFile, LibSane, LibCallSane, LibMembersInv, LibMembersSeen
<1>2. /\ LibGo(c, next) /\ LibEnters(c, LibPackKey(q))
      /\ libPackFiles' = [libPackFiles EXCEPT ![q] = LibPackMeta(call)]
      /\ libFrom' = [libFrom EXCEPT ![q] = call.from]
      /\ libExcused' = {x \in libExcused : x[1] # q} \cup (
           {q} \X (call.lost \cup {p \in LibIds : <<p, "m">> \in libStray}))
      /\ UNCHANGED <<libPacks, libProcs, libFiles>> /\ libStray' = libStray \ {LibPackKey(q)}
  BY DEF LibPackFile, libMemory
<1>3. next.pc = "upsert" /\ next.op = "pack" /\ next.pack = q BY <1>1 DEF LibLocals
<1> HIDE DEF next
<1>4. libCall'[c] = next /\ \A d \in LibCallers \ {c} :
        libCall'[d] = libCall[d]
          /\ LibSame(libCall'[d], libCall[d]) /\ libCall[d].lost \subseteq libCall'[d].lost
  BY <1>2, LibGoOthers
<1>5. libMixed \subseteq libMixed' /\ q \in LibPackIds BY <1>1, <1>2 DEF LibEnters, LibPackRow
<1>6. LibMembersSeen'
  <2>1. LibHasSeen(libCall[c])' BY <1>3, <1>4 DEF LibHasSeen, LibSeeing
  <2> QED BY <1>2, <1>4, <2>1, LibSeenKept DEF LibMembersInv, LibThere
<1>7. LibFilesComplete'
  <2> SUFFICES ASSUME NEW o \in LibPackIds, libPackFiles'[o] # LibNone,
                      LibPackKey(o) \notin libMixed',
                      NEW p \in libPackFiles'[o].procs, p \in LibNamed(o)'
               PROVE  libProcs[<<p, "m">>] # LibNone \/ <<o, p>> \in libExcused'
                        \/ <<p, "m">> \in libMixed' BY <1>2 DEF LibFilesComplete, LibThere
  <2>1. CASE o = q
    <3>1. libFrom'[q] = call.from BY <1>2, <1>5 DEF LibTypeOK
    <3>2. p \in ToSet(call.ids) BY <1>1, <2>1, <3>1 DEF LibNamed, LibPackRow
    <3>3. ToSet(call.queue) = {} BY <1>1 DEF ToSet
    <3>4. LibThere(p) \/ p \in call.lost BY <1>1, <3>2, <3>3 DEF LibHasSeen, LibSeeing
    <3> QED BY <1>2, <2>1, <3>4 DEF LibThere
  <2>2. CASE o # q
    <3>1. libPackFiles'[o] = libPackFiles[o] /\ libFrom'[o] = libFrom[o] BY <1>2, <2>2 DEF LibTypeOK
    <3>2. p \in LibNamed(o) BY <3>1 DEF LibNamed
    <3>3. LibThere(p) \/ <<o, p>> \in libExcused \/ <<p, "m">> \in libMixed
      BY <3>1, <3>2, <1>5 DEF LibMembersInv, LibFilesComplete
    <3>4. <<o, p>> \in libExcused => <<o, p>> \in libExcused' BY <1>2, <2>2
    <3> QED BY <3>3, <3>4, <1>5 DEF LibThere
  <2> QED BY <2>1, <2>2
<1>8. LibUnfiledExcused'
  <2> SUFFICES ASSUME NEW d \in LibCallers, libCall'[d].pc = "unfile",
                      LibPackKey(libCall'[d].pack) \notin libMixed', NEW p \in LibIds
               PROVE  <<libCall'[d].pack, p>> \in libExcused' BY DEF LibUnfiledExcused
  <2>1. d # c /\ libCall'[d] = libCall[d] BY <1>3, <1>4
  <2>2. <<libCall[d].pack, p>> \in libExcused BY <1>5, <2>1 DEF LibMembersInv, LibUnfiledExcused
  <2>3. LibSection(libCall[d]) = {LibPackKey(libCall[d].pack)} BY <2>1 DEF LibSection
  <2>4. libCall[d].pack # q BY <1>2, <2>1, <2>3 DEF LibEnters
  <2> QED BY <1>2, <2>1, <2>2, <2>4
<1>9. LibDoomedAlone'
  <2> SUFFICES ASSUME NEW d \in LibCallers, libCall'[d].op = "unpack",
                      NEW e \in ToSet(libCall'[d].queue), NEW o \in LibPackIds \ {libCall'[d].pack}
               PROVE  LibNotOf(o, e.id)' \/ <<o, e.id>> \in libExcused' \/ LibUpserting(o)'
    BY DEF LibDoomedAlone
  <2>1. d # c /\ libCall'[d] = libCall[d] BY <1>3, <1>4
  <2>2. LibNotOf(o, e.id) \/ <<o, e.id>> \in libExcused \/ LibUpserting(o)
    BY <2>1 DEF LibMembersInv, LibDoomedAlone
  <2>3. LibUpserting(o) => LibUpserting(o)' BY <1>1, <1>4 DEF LibUpserting, LibSame
  <2>4. o = q => LibUpserting(o)' BY <1>3, <1>4 DEF LibUpserting
  <2>5. o # q => (<<o, e.id>> \in libExcused => <<o, e.id>> \in libExcused') BY <1>2
  <2> QED BY <1>2, <2>2, <2>3, <2>4, <2>5 DEF LibNotOf
<1>10. LibStrayExcused'
  <2>1. ASSUME NEW p \in LibIds, <<p, "m">> \in libStray', libFiles'[<<p, "m">>] = LibNone,
               NEW o \in LibPackIds
        PROVE  <<o, p>> \in libExcused'
    <3>1. <<o, p>> \in libExcused /\ <<p, "m">> \in libStray
      BY <1>2, <2>1 DEF LibMembersInv, LibStrayExcused
    <3> QED BY <1>2, <3>1
  <2>2. ASSUME NEW o \in LibPackIds, LibPackKey(o) \in libStray' \ libMixed',
               libPackFiles'[o] # LibNone, NEW p \in LibIds
        PROVE  <<o, p>> \in libExcused'
    <3>1. o # q /\ LibPackKey(o) \in libStray \ libMixed BY <1>2, <1>5, <2>2
    <3>2. libPackFiles[o] # LibNone BY <1>2, <2>2, <3>1 DEF LibTypeOK
    <3>3. <<o, p>> \in libExcused BY <3>1, <3>2 DEF LibMembersInv, LibStrayExcused
    <3> QED BY <1>2, <3>1, <3>3
  <2> QED BY <2>1, <2>2 DEF LibStrayExcused
<1> QED BY <1>6, <1>7, <1>8, <1>9, <1>10 DEF LibMembersInv

LEMMA LibUpsertMembers ==
  ASSUME LibTypeOK, LibSane, LibMembersInv, NEW c \in LibCallers, LibUpsertPack(c)
  PROVE  LibMembersInv'
<1> DEFINE call == libCall[c]
           q == call.pack
<1>1. call \in LibLocals /\ call.pc = "upsert" /\ q \in LibPackIds /\ call.op = "pack"
  BY DEF LibTypeOK, LibUpsertPack, LibSane, LibCallSane, LibPackRow
<1>2. /\ LibGo(c, LibIdle) /\ libPacks' = [libPacks EXCEPT ![q] = LibPackMeta(call)]
      /\ libExcused' = libExcused \cup ({q} \X LibDoomed)
      /\ UNCHANGED <<libPackFiles, libFiles, libStray, libProcs, libMixed, libFrom>>
  BY DEF LibUpsertPack, libDisk
<1>3. libCall'[c] = LibIdle /\ \A d \in LibCallers \ {c} :
        LibSame(libCall'[d], libCall[d]) /\ libCall[d].lost \subseteq libCall'[d].lost
  BY <1>2, LibGoOthers
<1>4. LibMembersSeen'
  <2>1. LibHasSeen(libCall[c])' BY <1>3, LibIdleQuiet DEF LibHasSeen, LibSeeing
  <2> QED BY <1>2, <1>3, <2>1, LibSeenKept DEF LibMembersInv, LibThere
<1>5. LibFilesComplete' BY <1>2, LibFilesKept DEF LibMembersInv, LibThereStill, LibThere
<1>6. LibUnfiledExcused' BY <1>2, <1>3, LibIdleQuiet, LibUnfiledKept DEF LibMembersInv
<1>7. LibDoomedAlone'
  <2> SUFFICES ASSUME NEW d \in LibCallers, libCall'[d].op = "unpack",
                      NEW e \in ToSet(libCall'[d].queue), NEW o \in LibPackIds \ {libCall'[d].pack}
               PROVE  LibNotOf(o, e.id)' \/ <<o, e.id>> \in libExcused' \/ LibUpserting(o)'
    BY DEF LibDoomedAlone
  <2>1. d # c /\ libCall[d].op = "unpack" /\ libCall[d].queue = libCall'[d].queue
        /\ libCall[d].pack = libCall'[d].pack BY <1>3, LibIdleQuiet DEF LibSame
  <2>2. LibNotOf(o, e.id) \/ <<o, e.id>> \in libExcused \/ LibUpserting(o)
    BY <2>1 DEF LibMembersInv, LibDoomedAlone
  <2>3. e.id \in LibDoomed BY <2>1 DEF LibDoomed
  <2>4. o = q => <<o, e.id>> \in libExcused' BY <1>2, <2>3
  <2>5. o # q => /\ LibUpserting(o) => LibUpserting(o)'
                 /\ libPacks'[o] = libPacks[o]
    BY <1>1, <1>2, <1>3 DEF LibUpserting, LibSame, LibTypeOK
  <2> QED BY <1>2, <2>2, <2>4, <2>5 DEF LibNotOf
<1>s. LibStrayExcused' BY <1>2, LibStraySame DEF LibMembersInv
<1> QED BY <1>4, <1>5, <1>6, <1>7, <1>s DEF LibMembersInv

LEMMA LibDeleteMembers ==
  ASSUME LibTypeOK, LibSane, LibMembersInv, NEW c \in LibCallers,
         LibDelete(c) \/ (LibLeaves(c) /\ libCall[c].pc = "delete")
  PROVE  LibMembersInv'
<1> DEFINE call == libCall[c]
           next == LibDeleted(call)
<1>1. call \in LibLocals /\ LibCallSane(call) /\ call.pc = "delete" /\ call.queue # <<>>
  BY DEF LibTypeOK, LibDelete, LibSane, LibCallSane
<1>2. LibGo(c, next) /\ UNCHANGED <<libPacks, libPackFiles, libProcs, libMixed, libFrom, libExcused>>
  BY <1>1 DEF LibDelete, LibLeaves, libMemory, libDisk
<1>4. /\ next.op \in {"unpack", LibNone} /\ next.pc \in {"idle", "remove"}
      /\ next.op = "unpack" => /\ call.op = "unpack" /\ next.pack = call.pack
                               /\ ToSet(next.queue) \subseteq ToSet(call.queue)
  BY <1>1, LibDeletedType
<1>3. LibNone # "pack" BY LibAssumption
<1> HIDE DEF next
<1>5. libCall'[c] = next /\ \A d \in LibCallers \ {c} :
        LibSame(libCall'[d], libCall[d]) /\ libCall[d].lost \subseteq libCall'[d].lost
  BY <1>2, LibGoOthers
<1>6. LibHasSeen(libCall[c])' BY <1>3, <1>4, <1>5 DEF LibHasSeen, LibSeeing
<1>7. LibMembersSeen' BY <1>2, <1>5, <1>6, LibSeenKept DEF LibMembersInv, LibThere
<1>8. LibFilesComplete' BY <1>2, LibFilesKept DEF LibMembersInv, LibThereStill, LibThere
<1>9. LibUnfiledExcused' BY <1>2, <1>4, <1>5, LibUnfiledKept DEF LibMembersInv
<1>10. LibDoomedAlone' BY <1>1, <1>2, <1>3, <1>4, <1>5, LibDoomedKept DEF LibMembersInv
<1>11. LibStrayExcused'
  <2> DEFINE key == Head(call.queue).to
  <2>1. /\ UNCHANGED <<libMixed, libExcused, libPackFiles>> /\ key \in LibKeys
        /\ \A q \in LibPackIds : LibPackKey(q) # key BY <1>1, <1>2, LibDefType, LibThingsApart
  <2>2. \/ libFiles' = [libFiles EXCEPT ![key] = LibNone] /\ libStray' = libStray \ {key}
        \/ libFiles[key] # LibNone /\ libFiles' = libFiles /\ libStray' = libStray \cup {key}
    BY <1>1 DEF LibDelete, LibLeaves, libDisk
  <2> HIDE DEF key
  <2>3. \A k \in LibKeys \ {key} : libFiles'[k] = libFiles[k] BY <2>2 DEF LibTypeOK
  <2>4. \A p \in LibIds : <<p, "m">> \in LibKeys BY DEF LibKeys
  <2> QED BY <2>1, <2>2, <2>3, <2>4, LibStrayKept DEF LibMembersInv
<1> QED BY <1>7, <1>8, <1>9, <1>10, <1>11 DEF LibMembersInv

LEMMA LibUnfileMembers ==
  ASSUME LibTypeOK, LibSane, LibMembersInv, NEW c \in LibCallers,
         LibUnfile(c) \/ (LibLeaves(c) /\ libCall[c].pc = "unfile")
  PROVE  LibMembersInv'
<1> DEFINE q == libCall[c].pack
<1>1. libCall[c].pc = "unfile" /\ LibGo(c, LibIdle)
      /\ \/ libPackFiles' = [libPackFiles EXCEPT ![q] = LibNone]
           /\ libStray' = libStray \ {LibPackKey(q)}
         \/ libPackFiles' = libPackFiles /\ libStray' = libStray \cup {LibPackKey(q)}
      /\ UNCHANGED <<libPacks, libFiles, libProcs, libMixed, libFrom, libExcused>>
  BY DEF LibUnfile, LibLeaves, libMemory, libDisk
<1>2. libCall'[c] = LibIdle /\ \A d \in LibCallers \ {c} :
        LibSame(libCall'[d], libCall[d]) /\ libCall[d].lost \subseteq libCall'[d].lost
  BY <1>1, LibGoOthers
<1>3. LibHasSeen(libCall[c])' BY <1>2, LibIdleQuiet DEF LibHasSeen, LibSeeing
<1>4. LibMembersSeen' BY <1>1, <1>2, <1>3, LibSeenKept DEF LibMembersInv, LibThere
<1>5. LibFilesComplete'
  <2>1. \A o \in LibPackIds : libPackFiles'[o] = LibNone \/ libPackFiles'[o] = libPackFiles[o]
    BY <1>1 DEF LibTypeOK
  <2>2. \A o \in LibPackIds : LibNamed(o)' = LibNamed(o) BY <1>1 DEF LibNamed
  <2> QED BY <1>1, <2>1, <2>2 DEF LibMembersInv, LibFilesComplete, LibThere
<1>6. LibUnfiledExcused' BY <1>1, <1>2, LibIdleQuiet, LibUnfiledKept DEF LibMembersInv
<1>7. LibDoomedAlone' BY <1>1, <1>2, LibIdleQuiet, LibDoomedKept DEF LibMembersInv
<1>8. LibStrayExcused'
  <2>1. q \in LibPackIds BY <1>1 DEF LibSane, LibCallSane
  <2>2. LibPackKey(q) \notin libMixed => {q} \X LibIds \subseteq libExcused
    BY <1>1 DEF LibMembersInv, LibUnfiledExcused
  <2> HIDE DEF q
  <2>3. \A o \in LibPackIds \ {q} : /\ libPackFiles'[o] = libPackFiles[o]
                                   /\ LibPackKey(o) # LibPackKey(q)
    BY <1>1, <2>1, LibThingsApart DEF LibTypeOK
  <2>4. \A p \in LibIds : <<p, "m">> # LibPackKey(q) BY <2>1, LibThingsApart DEF LibKeys
  <2>5. libPackFiles'[q] = LibNone \/ {q} \X LibIds \subseteq libExcused \/ LibPackKey(q) \in libMixed
    BY <1>1, <2>1, <2>2 DEF LibTypeOK
  <2> QED BY <1>1, <2>3, <2>4, <2>5, LibStrayKept DEF LibMembersInv
<1> QED BY <1>4, <1>5, <1>6, <1>7, <1>8 DEF LibMembersInv

LEMMA LibCutMembers ==
  ASSUME LibTypeOK, LibSane, LibMembersInv, NEW c \in LibCallers, LibCut(c)
  PROVE  LibMembersInv'
<1> DEFINE call == libCall[c]
           key == Head(call.queue).to
           q == call.pack
<1>1. call \in LibLocals /\ LibCallSane(call) /\ call.pc \in {"persist", "packfile"}
  BY DEF LibTypeOK, LibSane, LibCut
<1>2. /\ UNCHANGED <<libProcs, libPacks, libMixed, libFrom>>
      /\ \/ /\ call.pc = "persist" /\ libFiles' = [libFiles EXCEPT ![key] = LibNone]
            /\ libStray' = libStray \cup {key} /\ libPackFiles' = libPackFiles
            /\ libExcused' = libExcused \cup {x \in LibPackIds \X LibIds : key = <<x[2], "m">>}
         \/ /\ call.pc = "packfile" /\ libPackFiles' = [libPackFiles EXCEPT ![q] = LibNone]
            /\ libStray' = libStray \cup {LibPackKey(q)} /\ UNCHANGED <<libFiles, libExcused>>
  BY DEF LibCut, libMemory
<1>3. PICK next : /\ LibGo(c, next) /\ next.pc \notin LibHolding /\ LibHasSeen(next)
                  /\ next.op # "unpack" BY <1>1, LibFailedQuiet, LibIdleQuiet DEF LibCut
<1>4. /\ call.pc = "persist" => key \in LibKeys
      /\ call.pc = "packfile" => q \in LibPackIds BY <1>1, LibDefType DEF LibCallSane, LibPackRow
<1>5. libCall'[c] = next /\ \A d \in LibCallers \ {c} :
        LibSame(libCall'[d], libCall[d]) /\ libCall[d].lost \subseteq libCall'[d].lost
  BY <1>3, LibGoOthers
<1>6. LibHasSeen(libCall[c])' BY <1>2, <1>3, <1>5 DEF LibHasSeen, LibThere
<1>7. LibMembersSeen' BY <1>2, <1>5, <1>6, LibSeenKept DEF LibMembersInv, LibThere
<1> HIDE DEF key, q
<1>8. libExcused \subseteq libExcused' BY <1>2
<1>9. LibFilesComplete'
  <2>1. \A o \in LibPackIds : libPackFiles'[o] = LibNone \/ libPackFiles'[o] = libPackFiles[o]
    BY <1>2 DEF LibTypeOK
  <2>2. \A o \in LibPackIds : LibNamed(o)' = LibNamed(o) BY <1>2 DEF LibNamed
  <2> QED BY <1>2, <1>8, <2>1, <2>2 DEF LibMembersInv, LibFilesComplete, LibThere
<1>10. LibUnfiledExcused' BY <1>2, <1>3, <1>5, <1>8, LibUnfiledKept DEF LibMembersInv, LibHolding
<1>11. LibDoomedAlone' BY <1>1, <1>2, <1>3, <1>5, <1>8, LibDoomedKept DEF LibMembersInv
<1>12. LibStrayExcused'
  <2>1. CASE call.pc = "persist"
    <3>1. \A k \in LibKeys \ {key} : libFiles'[k] = libFiles[k] BY <1>2, <2>1 DEF LibTypeOK
    <3>2. \A p \in LibIds : <<p, "m">> \in LibKeys BY DEF LibKeys
    <3>3. \A o \in LibPackIds : LibPackKey(o) # key BY <1>4, <2>1, LibThingsApart
    <3>4. \A p \in LibIds : key = <<p, "m">> => LibPackIds \X {p} \subseteq libExcused'
      BY <1>2, <2>1
    <3>5. \A p \in LibIds : <<p, "m">> \in libStray' /\ libFiles'[<<p, "m">>] = LibNone =>
            \/ <<p, "m">> \in libStray /\ libFiles[<<p, "m">>] = LibNone
            \/ LibPackIds \X {p} \subseteq libExcused' BY <1>2, <2>1, <3>1, <3>2, <3>4
    <3> QED BY <1>2, <1>8, <2>1, <3>3, <3>5, LibStrayKept DEF LibMembersInv
  <2>2. CASE call.pc = "packfile"
    <3>1. \A o \in LibPackIds \ {q} : /\ libPackFiles'[o] = libPackFiles[o]
                                     /\ LibPackKey(o) # LibPackKey(q)
      BY <1>2, <1>4, <2>2, LibThingsApart DEF LibTypeOK
    <3>2. libPackFiles'[q] = LibNone BY <1>2, <1>4, <2>2 DEF LibTypeOK
    <3>3. \A p \in LibIds : <<p, "m">> # LibPackKey(q) BY <1>4, <2>2, LibThingsApart DEF LibKeys
    <3> QED BY <1>2, <2>2, <3>1, <3>2, <3>3, LibStrayKept DEF LibMembersInv
  <2> QED BY <1>1, <2>1, <2>2
<1> QED BY <1>7, <1>9, <1>10, <1>11, <1>12 DEF LibMembersInv

LEMMA LibUninstallPackMembers ==
  ASSUME LibTypeOK, LibSane, LibMembersInv, NEW c \in LibCallers, NEW q \in LibPackIds,
         LibUninstallPack(c, q, FALSE)
  PROVE  LibMembersInv'
<1> DEFINE call == [LibIdle EXCEPT !.pc = "unfile", !.op = "unpack", !.pack = q,
                       !.ids = SetToSeq(libPacks[q].procs)]
<1>1. /\ libCall[c].pc = "idle" /\ libMixed \subseteq libMixed' /\ LibGo(c, call)
      /\ libPacks' = [libPacks EXCEPT ![q] = LibNone]
      /\ libExcused' = libExcused \cup ({q} \X LibIds)
      /\ UNCHANGED <<libProcs, libFiles, libPackFiles, libFrom, libStray>>
  BY DEF LibUninstallPack, LibBegin, LibCounted, LibBusy, LibEnters
<1>2. call.pc = "unfile" /\ call.op = "unpack" /\ call.pack = q /\ call.queue = <<>> BY DEF LibIdle
<1> HIDE DEF call
<1>3. libCall'[c] = call /\ \A d \in LibCallers \ {c} :
        LibSame(libCall'[d], libCall[d]) /\ libCall[d].lost \subseteq libCall'[d].lost
  BY <1>1, LibGoOthers
<1>4. LibHasSeen(libCall[c])' BY <1>2, <1>3 DEF LibHasSeen, LibSeeing
<1>5. LibMembersSeen' BY <1>1, <1>3, <1>4, LibSeenKept DEF LibMembersInv, LibThere
<1>6. LibFilesComplete' BY <1>1, LibFilesKept DEF LibMembersInv, LibThereStill, LibThere
<1>7. LibUnfiledExcused' BY <1>1, <1>2, <1>3 DEF LibMembersInv, LibUnfiledExcused, LibSame
<1>8. LibDoomedAlone'
  <2>1. ToSet(call.queue) = {} BY <1>2 DEF ToSet
  <2>2. \A o \in LibPackIds : libPacks'[o] = libPacks[o] \/ libPacks'[o] = LibNone
    BY <1>1 DEF LibTypeOK
  <2> QED BY <1>1, <1>3, <2>1, <2>2, LibDoomedKept DEF LibMembersInv
<1>s. LibStrayExcused' BY <1>1, LibStraySame DEF LibMembersInv
<1> QED BY <1>5, <1>6, <1>7, <1>8, <1>s DEF LibMembersInv

LEMMA LibUninstallMembers ==
  ASSUME LibTypeOK, LibSane, LibMembersInv, NEW c \in LibCallers, NEW key \in LibKeys,
         LibUninstall(c, key)
  PROVE  LibMembersInv'
<1> DEFINE entry == [LibEntry(key[1], 1) EXCEPT !.to = key]
           call == [LibIdle EXCEPT !.pc = "delete", !.op = "uninstall", !.queue = <<entry>>]
           p0 == key[1]
<1>1. /\ libCall[c].pc = "idle" /\ libMixed \subseteq libMixed'
      /\ libProcs' = [libProcs EXCEPT ![key] = LibNone]
      /\ UNCHANGED <<libFiles, libPacks, libPackFiles, libFrom, libStray>>
  BY DEF LibUninstall, LibCounted, LibBusy, LibEnters
<1>2. \/ key = <<p0, "m">> /\ LibTakesAway(c, call, p0)
           /\ libExcused' = libExcused \cup (LibPackIds \X {p0})
      \/ key[2] = "yaml" /\ LibGo(c, call) /\ libExcused' = libExcused BY DEF LibUninstall, LibKeys
<1>3. call.pc = "delete" /\ call.op = "uninstall" BY DEF LibIdle
<1> HIDE DEF call, p0
<1>4. libCall'[c] = call /\ \A d \in LibCallers \ {c} :
        LibSame(libCall'[d], libCall[d]) /\ libCall[d].lost \subseteq libCall'[d].lost
  BY <1>2, LibGoOthers, LibTakesAwayOthers
<1>5. \A d \in LibCallers \ {c} : key = <<p0, "m">> /\ libCall[d].op = "pack" => p0 \in libCall'[d].lost
  <2>1. key = <<p0, "m">> => LibTakesAway(c, call, p0) BY <1>2
  <2> QED BY <2>1, LibTakesAwayOthers
<1>6. \A p \in LibIds : LibThere(p) =>
        libProcs'[<<p, "m">>] # LibNone \/ (key = <<p0, "m">> /\ p = p0)
  <2>1. \A k \in LibKeys \ {key} : libProcs'[k] = libProcs[k] BY <1>1 DEF LibTypeOK
  <2>2. \A p \in LibIds : <<p, "m">> \in LibKeys BY DEF LibKeys
  <2>3. \A p \in LibIds : <<p, "m">> = key => key = <<p0, "m">> /\ p = p0 BY DEF p0
  <2> QED BY <2>1, <2>2, <2>3 DEF LibThere
<1>7. LibHasSeen(libCall[c])' BY <1>3, <1>4 DEF LibHasSeen, LibSeeing
<1>8. LibMembersSeen' BY <1>4, <1>5, <1>6, <1>7, LibSeenKept DEF LibMembersInv
<1>9. libExcused \subseteq libExcused' BY <1>2
<1>10. LibFilesComplete'
  <2> SUFFICES ASSUME NEW q \in LibPackIds, libPackFiles[q] # LibNone,
                      LibPackKey(q) \notin libMixed',
                      NEW p \in libPackFiles[q].procs, p \in LibNamed(q)
               PROVE  libProcs'[<<p, "m">>] # LibNone \/ <<q, p>> \in libExcused'
                        \/ <<p, "m">> \in libMixed' BY <1>1 DEF LibFilesComplete, LibThere, LibNamed
  <2>1. LibThere(p) \/ <<q, p>> \in libExcused \/ <<p, "m">> \in libMixed
    BY <1>1 DEF LibMembersInv, LibFilesComplete
  <2>2. p \in LibIds BY DEF LibTypeOK, LibMetas
  <2>3. key = <<p0, "m">> /\ p = p0 => <<q, p>> \in libExcused'
    <3> SUFFICES ASSUME key = <<p0, "m">>, p = p0 PROVE <<q, p>> \in libExcused' OBVIOUS
    <3>1. key[2] = "m" OBVIOUS
    <3> QED BY <3>1, <1>2
  <2> QED BY <2>1, <2>2, <2>3, <1>1, <1>6, <1>9
<1>11. LibUnfiledExcused' BY <1>1, <1>3, <1>4, <1>9, LibUnfiledKept DEF LibMembersInv
<1>12. LibDoomedAlone' BY <1>1, <1>3, <1>4, <1>9, LibDoomedKept DEF LibMembersInv
<1>s. LibStrayExcused' BY <1>1, <1>9, LibStraySame DEF LibMembersInv
<1> QED BY <1>8, <1>10, <1>11, <1>12, <1>s DEF LibMembersInv

\* A pack whose file is there and that no call is installing: what is not
\* its member in memory is none of its file either, or is excused.
LEMMA LibDoomedOfFiles ==
  ASSUME LibTypeOK, LibSane, LibAgree, LibMembersInv, NEW c \in LibCallers,
         libCall[c].op = "unpack", NEW e \in ToSet(libCall[c].queue),
         NEW q \in LibPackIds, libPackFiles[q] # LibNone, LibPackKey(q) \notin libMixed,
         e.id \in libPackFiles[q].procs, e.id \in LibIds
  PROVE  \/ q = libCall[c].pack \/ <<q, e.id>> \in libExcused
         \/ \E d \in LibCallers : libCall[d].op = "pack" /\ libCall[d].pack = q
<1> SUFFICES ASSUME q # libCall[c].pack, <<q, e.id>> \notin libExcused,
                    ~\E d \in LibCallers : libCall[d].op = "pack" /\ libCall[d].pack = q
             PROVE  FALSE
  OBVIOUS
<1>1. LibNotOf(q, e.id) \/ LibUpserting(q) BY DEF LibMembersInv, LibDoomedAlone
<1>2. \A d \in LibCallers : libCall[d].pc = "upsert" => libCall[d].op = "pack"
  BY DEF LibSane, LibCallSane
<1>3. LibNotOf(q, e.id) BY <1>1, <1>2 DEF LibUpserting
<1>4. LibPackKey(q) \in LibThings /\ LibAgreeAt(LibPackKey(q)) BY LibThingsApart DEF LibAgree
<1>5. ~LibAtRest(LibPackKey(q))
  <2> SUFFICES ASSUME LibAtRest(LibPackKey(q)) PROVE FALSE OBVIOUS
  <2>1. libPacks[q] = libPackFiles[q] \/ LibPackKey(q) \in libStray BY <1>4, LibMemIs DEF LibAgreeAt
  <2>2. LibPackKey(q) \in libStray => <<q, e.id>> \in libExcused
    BY DEF LibMembersInv, LibStrayExcused
  <2> QED BY <2>1, <2>2, <1>3 DEF LibNotOf
<1>6. PICK d \in LibCallers : LibPackKey(q) \in LibSection(libCall[d]) BY <1>5 DEF LibAtRest
<1>7. CASE libCall[d].pc \in {"insert", "delete"}
  <2>1. libCall[d].queue # <<>> /\ libCall[d] \in LibLocals
    BY <1>7 DEF LibSane, LibCallSane, LibTypeOK
  <2>2. LibSection(libCall[d]) = {Head(libCall[d].queue).to} BY <1>7 DEF LibSection
  <2> QED BY <2>1, <2>2, <1>6, LibDefType, LibThingsApart
<1>8. CASE libCall[d].pc \in {"upsert", "unfile"}
  <2>1. LibSection(libCall[d]) = {LibPackKey(libCall[d].pack)} BY <1>8 DEF LibSection
  <2>2. libCall[d].pack = q
    <3>1. LibPackKey(libCall[d].pack) = LibPackKey(q) BY <2>1, <1>6
    <3> QED BY <3>1 DEF LibPackKey
  <2>3. CASE libCall[d].pc = "upsert" BY <2>2, <2>3, <1>2
  <2>4. CASE libCall[d].pc = "unfile" BY <2>2, <2>4 DEF LibMembersInv, LibUnfiledExcused
  <2> QED BY <1>8, <2>3, <2>4
<1> QED BY <1>6, <1>7, <1>8, LibNoSection DEF LibHolding

LEMMA LibRemoveMembers ==
  ASSUME LibTypeOK, LibSane, LibAgree, LibMembersInv, NEW c \in LibCallers, LibRemove(c)
  PROVE  LibMembersInv'
<1> DEFINE call == libCall[c]
           entry == Head(call.queue)
           installing == {libCall[d].pack : d \in {e \in LibCallers : libCall[e].op = "pack"}}
<1>1. call \in LibLocals /\ call.pc = "remove" /\ call.pack \in LibPackIds /\ call.op = "unpack"
      /\ LibCallSane(call) BY DEF LibTypeOK, LibRemove, LibSane, LibCallSane
<1>2. CASE call.queue = <<>>
  <2> DEFINE next == [call EXCEPT !.pc = "unfile"]
  <2>1. /\ LibGo(c, next) /\ libMixed \subseteq libMixed'
        /\ libPacks' = [libPacks EXCEPT ![call.pack] = LibNone]
        /\ libExcused' = libExcused \cup ({call.pack} \X LibIds)
        /\ UNCHANGED <<libProcs, libFiles, libPackFiles, libFrom, libStray>>
    BY <1>2 DEF LibRemove, libDisk, LibEnters
  <2>2. next.pc = "unfile" /\ next.op = "unpack" /\ next.pack = call.pack /\ next.queue = <<>>
    BY <1>1, <1>2 DEF LibLocals
  <2> HIDE DEF next
  <2>3. libCall'[c] = next /\ \A d \in LibCallers \ {c} :
          LibSame(libCall'[d], libCall[d]) /\ libCall[d].lost \subseteq libCall'[d].lost
    BY <2>1, LibGoOthers
  <2>4. LibHasSeen(libCall[c])' BY <2>2, <2>3 DEF LibHasSeen, LibSeeing
  <2>5. LibMembersSeen' BY <2>1, <2>3, <2>4, LibSeenKept DEF LibMembersInv, LibThere
  <2>6. LibFilesComplete' BY <2>1, LibFilesKept DEF LibMembersInv, LibThereStill, LibThere
  <2>7. LibUnfiledExcused' BY <2>1, <2>2, <2>3 DEF LibMembersInv, LibUnfiledExcused, LibSame
  <2>8. LibDoomedAlone'
    <3>1. ToSet(next.queue) = {} BY <2>2 DEF ToSet
    <3>2. \A o \in LibPackIds : libPacks'[o] = libPacks[o] \/ libPacks'[o] = LibNone
      BY <2>1 DEF LibTypeOK
    <3> QED BY <1>1, <2>1, <2>3, <3>1, <3>2, LibDoomedKept DEF LibMembersInv
  <2>9. LibStrayExcused' BY <2>1, LibStraySame DEF LibMembersInv
  <2> QED BY <2>5, <2>6, <2>7, <2>8, <2>9 DEF LibMembersInv
<1>3. CASE call.queue # <<>>
  <2> DEFINE next == [call EXCEPT !.pc = "delete"]
  <2>1. /\ libProcs' = [libProcs EXCEPT ![entry.to] = LibNone]
        /\ LibTakesAway(c, next, entry.id) /\ libMixed \subseteq libMixed'
        /\ UNCHANGED <<libPacks, libFiles, libPackFiles, libFrom, libStray>>
    BY <1>3 DEF LibRemove, libDisk, LibEnters
  <2>2. libExcused' = libExcused \cup (({call.pack} \cup installing) \X {entry.id})
    BY <1>3 DEF LibRemove
  <2>3. next.pc = "delete" /\ next.op = "unpack" /\ next.pack = call.pack
        /\ next.queue = call.queue BY <1>1 DEF LibLocals
  <2>4. entry \in LibEntries /\ entry \in ToSet(call.queue) BY <1>1, <1>3, LibQueue DEF LibLocals
  <2>5. entry.to = <<entry.id, "m">> /\ entry.id \in LibIds
    BY <1>1, <2>4 DEF LibCallSane, LibEntries
  <2> HIDE DEF next, entry
  <2>6. libCall'[c] = next /\ \A d \in LibCallers \ {c} :
          LibSame(libCall'[d], libCall[d]) /\ libCall[d].lost \subseteq libCall'[d].lost
    BY <2>1, LibTakesAwayOthers
  <2>7. \A d \in LibCallers \ {c} : libCall[d].op = "pack" => entry.id \in libCall'[d].lost
    BY <2>1, LibTakesAwayOthers
  <2>8. \A p \in LibIds : LibThere(p) => libProcs'[<<p, "m">>] # LibNone \/ p = entry.id
    <3>1. \A k \in LibKeys \ {entry.to} : libProcs'[k] = libProcs[k] BY <2>1 DEF LibTypeOK
    <3>2. \A p \in LibIds : <<p, "m">> \in LibKeys BY DEF LibKeys
    <3> QED BY <3>1, <3>2, <2>5 DEF LibThere
  <2>9. LibHasSeen(libCall[c])' BY <2>3, <2>6 DEF LibHasSeen, LibSeeing
  <2>10. LibMembersSeen' BY <2>6, <2>7, <2>8, <2>9, LibSeenKept DEF LibMembersInv
  <2>11. libExcused \subseteq libExcused' BY <2>2
  <2>12. LibFilesComplete'
    <3> SUFFICES ASSUME NEW q \in LibPackIds, libPackFiles[q] # LibNone,
                        LibPackKey(q) \notin libMixed',
                        NEW p \in libPackFiles[q].procs, p \in LibNamed(q)
                 PROVE  libProcs'[<<p, "m">>] # LibNone \/ <<q, p>> \in libExcused'
                          \/ <<p, "m">> \in libMixed'
      BY <2>1 DEF LibFilesComplete, LibThere, LibNamed
    <3>1. LibThere(p) \/ <<q, p>> \in libExcused \/ <<p, "m">> \in libMixed
      BY <2>1 DEF LibMembersInv, LibFilesComplete
    <3>2. p \in LibIds /\ LibPackKey(q) \notin libMixed BY <2>1 DEF LibTypeOK, LibMetas
    <3>3. p = entry.id => <<q, p>> \in libExcused'
      <4> SUFFICES ASSUME p = entry.id PROVE <<q, p>> \in libExcused' OBVIOUS
      <4>1. \/ q = call.pack \/ <<q, p>> \in libExcused
            \/ \E d \in LibCallers : libCall[d].op = "pack" /\ libCall[d].pack = q
        BY <1>1, <2>4, <3>2, LibDoomedOfFiles
      <4>2. q \in {call.pack} \cup installing \/ <<q, p>> \in libExcused BY <4>1
      <4> HIDE DEF installing
      <4> QED BY <4>2, <2>2
    <3> QED BY <3>1, <3>2, <3>3, <2>1, <2>8, <2>11
  <2>13. LibUnfiledExcused' BY <2>1, <2>3, <2>6, <2>11, LibUnfiledKept DEF LibMembersInv
  <2>14. LibDoomedAlone' BY <1>1, <2>1, <2>3, <2>6, <2>11, LibDoomedKept DEF LibMembersInv
  <2>15. LibStrayExcused' BY <2>1, <2>11, LibStraySame DEF LibMembersInv
  <2> QED BY <2>10, <2>12, <2>13, <2>14, <2>15 DEF LibMembersInv
<1> QED BY <1>2, <1>3

\* What was there, and no two calls were changing at once, has a file.
LEMMA LibRestartMembers ==
  ASSUME LibTypeOK, LibSane, LibAgree, LibMembersInv, LibRestart
  PROVE  LibMembersInv'
<1>1. /\ libProcs' = libFiles /\ libCall' = [c \in LibCallers |-> LibIdle]
      /\ UNCHANGED <<libPackFiles, libMixed, libFrom, libExcused>> /\ libStray' = {}
  BY DEF LibRestart, libDisk
<1>2. \A c \in LibCallers : libCall'[c] = LibIdle BY <1>1
<1>3. LibMembersSeen' BY <1>2, LibIdleQuiet DEF LibMembersSeen, LibHasSeen, LibSeeing
<1>4. ASSUME NEW p \in LibIds, LibThere(p), <<p, "m">> \notin libMixed
      PROVE  libFiles[<<p, "m">>] # LibNone \/ LibPackIds \X {p} \subseteq libExcused
  <2> SUFFICES ASSUME <<p, "m">> \notin libStray PROVE libFiles[<<p, "m">>] # LibNone
    BY DEF LibMembersInv, LibStrayExcused
  <2> DEFINE key == <<p, "m">>
  <2>1. key \in LibKeys /\ key \in LibThings /\ key \notin libStray BY DEF LibKeys, LibThings
  <2> HIDE DEF key
  <2>2. LibAgreeAt(key) /\ LibMem[key] # LibNone /\ LibDsk[key] = libFiles[key]
    BY <1>4, <2>1, LibMemIs DEF LibAgree, LibThere, key
  <2>3. CASE LibAtRest(key) BY <2>2, <2>3 DEF LibAgreeAt, key
  <2>4. CASE ~LibAtRest(key)
    <3>1. PICK c \in LibCallers : LibIn(c, key) BY <2>4 DEF LibAtRest, LibIn
    <3>2. libCall[c].pc \in {"insert", "upsert"} /\ LibDsk[key] = LibWrote(libCall[c])
      BY <2>1, <2>2, <3>1 DEF LibAgreeAt
    <3>3. libCall[c] \in LibLocals /\ (libCall[c].pc = "insert" => libCall[c].queue # <<>>)
      BY DEF LibTypeOK, LibSane, LibCallSane
    <3>4. LibWrote(libCall[c]) # LibNone BY <3>2, <3>3, LibDefType, LibMetaType DEF LibWrote
    <3> QED BY <2>2, <3>2, <3>4 DEF key
  <2> QED BY <2>3, <2>4
<1>5. LibFilesComplete'
  <2>1. \A q \in LibPackIds : LibNamed(q)' = LibNamed(q) BY <1>1 DEF LibNamed
  <2>2. \A q \in LibPackIds : libPackFiles[q] # LibNone => libPackFiles[q].procs \subseteq LibIds
    BY DEF LibTypeOK, LibMetas
  <2> QED BY <1>1, <1>4, <2>1, <2>2 DEF LibMembersInv, LibFilesComplete, LibThere
<1>6. LibUnfiledExcused' BY <1>2, LibIdleQuiet DEF LibUnfiledExcused
<1>7. LibDoomedAlone' BY <1>2, LibIdleQuiet DEF LibDoomedAlone
<1>8. LibStrayExcused' BY <1>1 DEF LibStrayExcused
<1> QED BY <1>3, <1>5, <1>6, <1>7, <1>8 DEF LibMembersInv

----------------------------------------
\* The rows packs were installed from, and all of it together.

LEMMA LibPackFileFromRow ==
  ASSUME LibTypeOK, LibSane, LibFromRow, NEW c \in LibCallers, LibPackFile(c)
  PROVE  LibFromRow'
<1> DEFINE call == libCall[c]
           q == call.pack
<1>1. /\ call.pc = "packfile" /\ libAt' = libAt /\ q \in LibPackIds
      /\ libPackFiles' = [libPackFiles EXCEPT ![q] = LibPackMeta(call)]
      /\ libFrom' = [libFrom EXCEPT ![q] = call.from]
  BY DEF LibPackFile, LibSane, LibCallSane, LibPackRow
<1>2. LibPackRow(call) /\ LibManifestOf(q, call.manifest, call.from)
  BY <1>1 DEF LibSane, LibCallSane, LibSeeing
<1>3. LibPackMeta(call).ver = call.ver /\ LibPackMeta(call).procs = call.manifest BY DEF LibPackMeta
<1>4. /\ libPackFiles'[q] = LibPackMeta(call) /\ libFrom'[q] = call.from
      /\ \A o \in LibPackIds \ {q} : libPackFiles'[o] = libPackFiles[o] /\ libFrom'[o] = libFrom[o]
  BY <1>1 DEF LibTypeOK
<1> SUFFICES ASSUME NEW o \in LibPackIds, libPackFiles'[o] # LibNone
             PROVE  /\ libFrom'[o] \in 1..libAt' /\ o \in DOMAIN LibShelf[libFrom'[o]].packs
                    /\ libPackFiles'[o].ver = LibShelf[libFrom'[o]].packs[o].ver
                    /\ LibManifestOf(o, libPackFiles[o].procs, libFrom[o])' BY DEF LibFromRow
<1>5. CASE o = q
  <2>1. libPackFiles'[o].procs = call.manifest /\ libFrom'[o] = call.from
        /\ libPackFiles'[o].ver = call.ver BY <1>3, <1>4, <1>5
  <2> QED BY <1>1, <1>2, <1>5, <2>1 DEF LibPackRow, LibManifestOf
<1>6. CASE o # q BY <1>1, <1>4, <1>6 DEF LibFromRow, LibManifestOf
<1> QED BY <1>5, <1>6

LEMMA LibUnfileFromRow ==
  ASSUME LibTypeOK, LibFromRow, NEW c \in LibCallers, LibUnfile(c) \/ LibCut(c)
  PROVE  LibFromRow'
<1>1. /\ UNCHANGED <<libAt, libFrom>>
      /\ \/ libPackFiles' = [libPackFiles EXCEPT ![libCall[c].pack] = LibNone]
         \/ libPackFiles' = libPackFiles BY DEF LibUnfile, LibCut
<1>2. \A o \in LibPackIds : libPackFiles'[o] = LibNone \/ libPackFiles'[o] = libPackFiles[o]
  BY <1>1 DEF LibTypeOK
<1> QED BY <1>1, <1>2 DEF LibFromRow, LibManifestOf

LEMMA LibSameFromRow ==
  ASSUME LibTypeOK, LibFromRow, UNCHANGED <<libPackFiles, libFrom>>,
         libAt' = libAt \/ libAt' = libAt + 1
  PROVE  LibFromRow'
<1>1. libAt \in Nat BY LibAssumption DEF LibTypeOK
<1>2. ASSUME NEW q \in LibPackIds, libPackFiles[q] # LibNone
      PROVE  libFrom[q] \in 1..libAt' /\ libFrom[q]..libAt \subseteq libFrom[q]..libAt'
  BY <1>1, <1>2 DEF LibFromRow
<1> QED BY <1>2 DEF LibFromRow, LibManifestOf

LEMMA LibQuietInv ==
  ASSUME LibInv, NEW c \in LibCallers, LibQuiet(c), LibTypeOK', LibSane'
  PROVE  LibInv'
<1>1. LibAgree'
  <2>1. /\ UNCHANGED <<libDisk, libMemory, libMixed, libStray>>
        /\ \A d \in LibCallers \ {c} : LibSame(libCall'[d], libCall[d])
        /\ libCall[c].pc \notin LibHolding /\ libCall'[c].pc \notin LibHolding
    BY DEF LibQuiet, LibSame
  <2>2. LibMem' = LibMem /\ LibDsk' = LibDsk BY <2>1, LibMemChanges
  <2> QED BY <2>1, <2>2, LibQuietAgree DEF LibInv
<1>2. LibMembersInv' BY LibQuietMembers DEF LibInv
<1>3. LibFromRow' BY LibSameFromRow DEF LibInv, LibQuiet, libDisk
<1> QED BY <1>1, <1>2, <1>3 DEF LibInv

LEMMA LibStepInv ==
  ASSUME LibInv, NEW c \in LibCallers, LibStep(c), LibTypeOK', LibSane'
  PROVE  LibInv'
<1> USE DEF LibInv
<1>1. CASE \/ LibFetch(c) \/ LibManifest(c) \/ LibTake(c) \/ LibDownload(c) \/ LibError(c)
           \/ LibPark(c) \/ LibAnnounce(c) \/ LibOthers(c)
  <2>1. LibMembersSeen BY DEF LibMembersInv
  <2>2. LibQuiet(c)
    BY <1>1, <2>1, LibFetchQuiet, LibManifestQuiet, LibTakeQuiet, LibDownloadQuiet, LibParkQuiet,
      LibOthersQuiet
  <2> QED BY <2>2, LibQuietInv
<1>2. CASE LibPersist(c)
  <2>1. LibFromRow' BY <1>2, LibSameFromRow DEF LibPersist
  <2> QED BY <1>2, <2>1, LibPersistAgree, LibPersistMembers
<1>3. CASE LibInsert(c)
  <2>1. LibFromRow' BY <1>3, LibSameFromRow DEF LibInsert, libDisk, libGhost
  <2> QED BY <1>3, <2>1, LibInsertAgree, LibInsertMembers
<1>4. CASE LibPackFile(c) BY <1>4, LibPackFileAgree, LibPackFileMembers, LibPackFileFromRow
<1>5. CASE LibUpsertPack(c)
  <2>1. LibFromRow' BY <1>5, LibSameFromRow DEF LibUpsertPack, libDisk
  <2> QED BY <1>5, <2>1, LibUpsertAgree, LibUpsertMembers
<1>6. CASE LibRemove(c)
  <2>1. LibFromRow' BY <1>6, LibSameFromRow DEF LibRemove, libDisk
  <2> QED BY <1>6, <2>1, LibRemoveAgree, LibRemoveMembers
<1>7. CASE LibDelete(c) \/ LibLeaves(c)
  <2>1. LibFromRow' BY <1>7, LibSameFromRow DEF LibDelete, LibLeaves, libDisk
  <2>2. LibLeaves(c) => libCall[c].pc \in {"delete", "unfile"} BY DEF LibLeaves
  <2> QED BY <1>7, <2>1, <2>2, LibDeleteAgree, LibDeleteMembers, LibUnfileAgree, LibUnfileMembers
<1>8. CASE LibUnfile(c) BY <1>8, LibUnfileAgree, LibUnfileMembers, LibUnfileFromRow
<1>9. CASE LibCut(c) BY <1>9, LibCutAgree, LibCutMembers, LibUnfileFromRow
<1> QED BY <1>9, <1>1, <1>2, <1>3, <1>4, <1>5, <1>6, <1>7, <1>8 DEF LibStep

LEMMA LibCallInv ==
  ASSUME LibInv, NEW c \in LibCallers, LibTypeOK', LibSane'
  PROVE  /\ \A p \in LibIds, k \in 1..libAt : LibInstall(c, p, k) => LibInv'
         /\ \A p \in LibYamlIds : LibInstallYaml(c, p) => LibInv'
         /\ \A q \in LibPackIds, k \in 1..libAt : LibInstallPack(c, q, k) => LibInv'
         /\ LibUpdateAll(c) \/ LibStartup(c) => LibInv'
         /\ \A key \in LibKeys : LibUninstall(c, key) => LibInv'
         /\ \A q \in LibPackIds, members \in BOOLEAN : LibUninstallPack(c, q, members) => LibInv'
<1>1. LibTypeOK BY DEF LibInv
<1>2. /\ \A p \in LibIds, k \in 1..libAt : LibInstall(c, p, k) => LibInv'
      /\ \A p \in LibYamlIds : LibInstallYaml(c, p) => LibInv'
      /\ \A q \in LibPackIds, k \in 1..libAt : LibInstallPack(c, q, k) => LibInv'
      /\ LibUpdateAll(c) \/ LibStartup(c) => LibInv' BY <1>1, LibCallsQuiet, LibQuietInv
<1>3. ASSUME NEW key \in LibKeys, LibUninstall(c, key)
      PROVE  LibInv'
  <2>1. UNCHANGED <<libAt, libPackFiles, libFrom>> BY <1>3 DEF LibUninstall, LibCounted
  <2>2. LibAgree' /\ LibMembersInv' BY <1>3, LibUninstallAgree, LibUninstallMembers DEF LibInv
  <2>3. LibFromRow' BY <2>1, LibSameFromRow DEF LibInv
  <2> QED BY <2>2, <2>3 DEF LibInv
<1>4. ASSUME NEW q \in LibPackIds, NEW members \in BOOLEAN, LibUninstallPack(c, q, members)
      PROVE  LibInv'
  <2>1. CASE members = TRUE
    <3>1. LibQuiet(c) BY <1>1, <1>4, <2>1, LibUninstallPackQuiet
    <3> QED BY <3>1, LibQuietInv
  <2>2. CASE members = FALSE
    <3>1. LibUninstallPack(c, q, FALSE) BY <1>4, <2>2
    <3>2. UNCHANGED <<libAt, libPackFiles, libFrom>>
      BY <3>1 DEF LibUninstallPack, LibBegin, LibCounted
    <3>3. LibAgree' /\ LibMembersInv'
      BY <3>1, LibUninstallPackAgree, LibUninstallPackMembers DEF LibInv
    <3>4. LibFromRow' BY <3>2, LibSameFromRow DEF LibInv
    <3> QED BY <3>3, <3>4 DEF LibInv
  <2> QED BY <2>1, <2>2
<1> QED BY <1>2, <1>3, <1>4

LEMMA LibAsideInv ==
  ASSUME LibInv, UNCHANGED <<libDisk, libMemory, libCall, libGhost>>,
         libAt' = libAt \/ libAt' = libAt + 1, LibTypeOK', LibSane'
  PROVE  LibInv'
<1>1. UNCHANGED <<libProcs, libFiles, libPacks, libPackFiles, libCall, libMixed, libFrom, libExcused,
                libStray>> BY DEF libDisk, libMemory, libGhost
<1>2. LibAgree' BY <1>1 DEF LibInv, LibAgree, LibAgreeAt, LibAtRest, LibIn, LibMem, LibDsk
<1>3. LibMembersInv'
  BY <1>1 DEF LibInv, LibMembersInv, LibMembersSeen, LibHasSeen, LibThere, LibFilesComplete,
    LibNamed, LibUnfiledExcused, LibDoomedAlone, LibNotOf, LibUpserting, LibStrayExcused
<1>4. LibFromRow' BY <1>1, LibSameFromRow DEF LibInv
<1> QED BY <1>2, <1>3, <1>4 DEF LibInv

LEMMA LibNextInv ==
  ASSUME LibInv, [LibNext]_libVars
  PROVE  LibInv'
<1>1. LibTypeOK' /\ LibSane' BY LibNextTypes DEF LibInv
<1>2. ASSUME LibRestart
      PROVE  LibInv'
  <2>1. UNCHANGED <<libAt, libPackFiles, libFrom>> BY <1>2 DEF LibRestart, libDisk
  <2>2. LibAgree' /\ LibMembersInv' BY <1>2, LibRestartAgree, LibRestartMembers DEF LibInv
  <2>3. LibFromRow' BY <2>1, LibSameFromRow DEF LibInv
  <2> QED BY <1>1, <2>2, <2>3 DEF LibInv
<1>3. ASSUME LibPublish \/ LibSeed \/ LibListen \/ UNCHANGED libVars
             \/ \E source \in {LibNone, "manual", "auto"} : LibEditSource(source)
      PROVE  LibInv'
  <2>1. UNCHANGED <<libDisk, libMemory, libCall, libGhost>> /\ (libAt' = libAt \/ libAt' = libAt + 1)
    BY <1>3 DEF LibPublish, LibSeed, LibListen, libVars, LibEditSource, libDisk, libMemory, libGhost
  <2> QED BY <1>1, <2>1, LibAsideInv
<1> QED BY <1>1, <1>2, <1>3, LibStepInv, LibCallInv DEF LibNext

LEMMA LibInitInv ==
  ASSUME LibInit
  PROVE  LibInv
<1>1. LibTypeOK /\ LibSane BY LibInitTypes
<1>2. PICK first \in BOOLEAN :
        LET shelf == LibShelf[1]
            installed(key) == ~first /\ key[2] = "m" /\ key[1] \in DOMAIN shelf.list
            packed(q) == ~first /\ q \in DOMAIN shelf.packs
                           /\ ToSet(shelf.packs[q].ids) \subseteq DOMAIN shelf.list
        IN
        /\ libAt = 1
        /\ libProcs = [key \in LibKeys |->
              IF installed(key) THEN [ver |-> shelf.file[key[1]], by |-> "ui"] ELSE LibNone]
        /\ libFiles = libProcs
        /\ libPacks = [q \in LibPackIds |->
              IF packed(q) THEN [ver |-> shelf.packs[q].ver, procs |-> shelf.manifests[q].procs]
              ELSE LibNone]
        /\ libPackFiles = libPacks /\ libCall = [c \in LibCallers |-> LibIdle]
        /\ libFrom = [q \in LibPackIds |-> IF packed(q) THEN 1 ELSE 0] /\ libStray = {}
  BY DEF LibInit
<1>3. \A c \in LibCallers : libCall[c] = LibIdle BY <1>2
<1>4. LibAgree
  <2>1. \A c \in LibCallers : LibSection(libCall[c]) = {} BY <1>3, LibIdleQuiet, LibNoSection
  <2>2. LibMem = LibDsk BY <1>2 DEF LibMem, LibDsk
  <2> QED BY <2>1, <2>2 DEF LibAgree, LibAgreeAt, LibIn, LibAtRest
<1>5. 1 \in 1..Len(LibShelf) BY LibAssumption
<1>6. ASSUME NEW q \in LibPackIds, libPackFiles[q] # LibNone
      PROVE  /\ ~first /\ q \in DOMAIN LibShelf[1].packs /\ libFrom[q] = 1
             /\ ToSet(LibShelf[1].packs[q].ids) \subseteq DOMAIN LibShelf[1].list
             /\ libPackFiles[q] = [ver |-> LibShelf[1].packs[q].ver,
                                   procs |-> LibShelf[1].manifests[q].procs] BY <1>2, <1>6
<1>7. LibFilesComplete
  <2> SUFFICES ASSUME NEW q \in LibPackIds, libPackFiles[q] # LibNone, NEW p \in LibNamed(q)
               PROVE  LibThere(p) BY DEF LibFilesComplete
  <2>1. p \in DOMAIN LibShelf[1].list /\ ~first BY <1>6 DEF LibNamed
  <2>2. p \in LibIds /\ LibShelf[1].file[p] \in Nat BY <1>5, <2>1, LibAssumption
  <2>3. <<p, "m">> \in LibKeys BY <2>2 DEF LibKeys
  <2>4. libProcs[<<p, "m">>] = [ver |-> LibShelf[1].file[p], by |-> "ui"] BY <1>2, <2>1, <2>3
  <2>5. [ver |-> LibShelf[1].file[p], by |-> "ui"] \in LibDefs BY <2>2 DEF LibDefs, LibWriters
  <2> QED BY <2>4, <2>5, LibAssumption DEF LibThere
<1>8. LibMembersInv BY <1>2, <1>3, <1>7, LibIdleQuiet DEF LibMembersInv, LibMembersSeen,
     LibUnfiledExcused, LibDoomedAlone, LibHasSeen, LibSeeing, LibStrayExcused
<1>9. LibFromRow
  <2> SUFFICES ASSUME NEW q \in LibPackIds, libPackFiles[q] # LibNone
               PROVE  /\ libFrom[q] \in 1..libAt /\ q \in DOMAIN LibShelf[libFrom[q]].packs
                      /\ libPackFiles[q].ver = LibShelf[libFrom[q]].packs[q].ver
                      /\ LibManifestOf(q, libPackFiles[q].procs, libFrom[q]) BY DEF LibFromRow
  <2>1. libAt = 1 /\ 1 \in 1..1 BY <1>2
  <2>2. q \in DOMAIN LibShelf[1].manifests BY <1>5, <1>6, LibAssumption
  <2>3. libFrom[q] = 1 /\ q \in DOMAIN LibShelf[1].packs
        /\ libPackFiles[q].ver = LibShelf[1].packs[q].ver
        /\ libPackFiles[q].procs = LibShelf[1].manifests[q].procs
    <3>1. libPackFiles[q] = [ver |-> LibShelf[1].packs[q].ver,
                             procs |-> LibShelf[1].manifests[q].procs] BY <1>6
    <3> QED BY <1>6, <3>1
  <2>4. \E m \in libFrom[q]..libAt : q \in DOMAIN LibShelf[m].manifests
          /\ libPackFiles[q].procs = LibShelf[m].manifests[q].procs BY <2>1, <2>2, <2>3
  <2> QED BY <2>1, <2>3, <2>4 DEF LibManifestOf
<1> QED BY <1>1, <1>4, <1>8, <1>9 DEF LibInv

LEMMA LibInvSound ==
  ASSUME LibInv
  PROVE  LibrarySound
<1>1. ASSUME NEW x \in LibThings \ (libMixed \cup libStray), LibAtRest(x)
      PROVE  LibMem[x] = LibDsk[x] BY <1>1 DEF LibInv, LibAgree, LibAgreeAt
<1>2. ASSUME NEW q \in LibPackIds, LibAlone(q)
      PROVE  libPacks[q] = libPackFiles[q] /\ LibPackKey(q) \notin libMixed
  BY <1>1, <1>2, LibMemIs, LibThingsApart DEF LibAlone
<1>3. LibSurvivesRestart BY <1>1, <1>2, LibMemIs, LibThingsApart DEF LibSurvivesRestart
<1>4. LibPacksComplete
  BY <1>2 DEF LibPacksComplete, LibInv, LibMembersInv, LibFilesComplete, LibThere
<1>5. LibPackUpdateSettles
  <2> SUFFICES ASSUME NEW q \in LibPackIds, q \in DOMAIN LibNow.packs,
                      libFrom[q] = libAt, LibAlone(q), libPacks[q] # LibNone,
                      ToSet(LibNow.packs[q].ids) \subseteq LibNow.manifests[q].procs
               PROVE  /\ ~LibNewer(libPacks[q].ver, LibNow.packs[q].ver)
                      /\ ToSet(LibNow.packs[q].ids) \subseteq libPacks[q].procs
    BY DEF LibPackUpdateSettles, LibPackUpdates, LibNow
  <2>1. libPackFiles[q] = libPacks[q] BY <1>2
  <2>2. libPacks[q].ver = LibNow.packs[q].ver /\ LibManifestOf(q, libPacks[q].procs, libAt)
    BY <2>1 DEF LibInv, LibFromRow, LibNow
  <2>3. libAt \in 1..Len(LibShelf) /\ libAt \in Nat BY LibAssumption DEF LibInv, LibTypeOK
  <2>4. libPacks[q].procs = LibNow.manifests[q].procs BY <2>2, <2>3 DEF LibManifestOf, LibNow
  <2>5. LibNow.packs[q].ver \in Nat BY <2>3, LibAssumption DEF LibNow
  <2> QED BY <2>2, <2>4, <2>5 DEF LibNewer
<1> QED BY <1>3, <1>4, <1>5 DEF LibrarySound

\* What is installed is what the next launch will load; a pack that is
\* listed has the members it was installed with; a pack that is current is
\* not offered again.
THEOREM LibraryHolds == LibSpec => []LibrarySound
<1>1. LibInit => LibInv BY LibInitInv
<1>2. LibInv /\ [LibNext]_libVars => LibInv' BY LibNextInv
<1>3. LibInv => LibrarySound BY LibInvSound
<1> QED BY <1>1, <1>2, <1>3, PTL DEF LibSpec
=============================================================================
