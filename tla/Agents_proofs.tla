---------------------------- MODULE Agents_proofs ----------------------------
\* Proofs about what the agents are served by.  The ring of events, for
\* any agents and any capacity: it stays contiguous, no event is lost
\* silently, and it implements EventFeed.  The bridge and the supervised
\* sidecar, for any callers, ports, attempts, supervisors and processes.
EXTENDS AgentRing, Sidecar, FiniteSetTheorems, SequenceTheorems, TLAPS

----------------------------------------
\* The ring and its feed.

RingInv == TypeOK /\ RingContiguous /\ EveryEventAccountedFor

LEMMA RingInit == Init => RingInv
  <1> SUFFICES ASSUME Init PROVE RingInv OBVIOUS
  <1>1. TypeOK
    <2>1. buf \in Seq(Nat \ {0}) BY DEF Init
    <2>2. /\ noted \in [Agents -> Nat \cup {NoPoll}] /\ cursor \in [Agents -> Nat]
          /\ got \in [Agents -> SUBSET Nat]
          /\ lost \in [Agents -> SUBSET Nat] BY DEF Init
    <2> QED BY <2>1, <2>2 DEF Init, TypeOK
  <1>2. Len(buf) = 0 BY DEF Init
  <1>3. RingContiguous BY <1>2, RingAssumption DEF Init, RingContiguous, Inserted
  <1>4. \A a \in Agents : cursor[a] = 0 /\ got[a] = {} /\ lost[a] = {} BY DEF Init
  <1>5. EveryEventAccountedFor BY <1>4 DEF Init, EveryEventAccountedFor, Inserted
  <1> QED BY <1>1, <1>3, <1>5 DEF RingInv

----------------------------------------
\* The positions drain_since returns, and those the limit leaves, are an
\* interval that ends at the end of the ring.
Start(a) == IF cursor[a] > Inserted - Len(buf)
            THEN cursor[a] - Inserted + Len(buf) + 1 ELSE 1
Stop(a, limit) == IF Start(a) + limit - 1 < Len(buf) THEN Start(a) + limit - 1
                                                     ELSE Len(buf)

LEMMA InsertedType == ASSUME RingInv PROVE Inserted \in Nat
  BY DEF RingInv, TypeOK, RingContiguous, Inserted, NoPush

LEMMA DrainedShape ==
  ASSUME RingInv, NEW a \in Agents
  PROVE  /\ Drained(a) = Start(a)..Len(buf) /\ Start(a) \in 1..(Len(buf) + 1)
         /\ \A i \in 1..Len(buf) : buf[i] = Inserted - Len(buf) + i
         /\ cursor[a] \in Nat /\ cursor[a] <= Inserted /\ Len(buf) \in Nat
  <1>1. Inserted \in Nat BY InsertedType
  <1>2. cursor[a] \in Nat /\ cursor[a] <= Inserted BY DEF RingInv, TypeOK, EveryEventAccountedFor
  <1>3. \A i \in 1..Len(buf) : buf[i] = Inserted - Len(buf) + i BY DEF RingInv, RingContiguous
  <1>4. Len(buf) \in Nat /\ Len(buf) <= Inserted BY DEF RingInv, TypeOK, RingContiguous
  <1>5. Start(a) \in 1..(Len(buf) + 1) BY <1>1, <1>2, <1>4 DEF Start
  <1>6. Drained(a) = Start(a)..Len(buf) BY <1>1, <1>2, <1>3, <1>4, <1>5 DEF Drained, Start
  <1> QED BY <1>2, <1>3, <1>4, <1>5, <1>6

LEMMA PageShape ==
  ASSUME RingInv, NEW a \in Agents, NEW limit \in 1..Cap
  PROVE  Page(a, limit) = Start(a)..Stop(a, limit)
  <1>1. /\ Drained(a) = Start(a)..Len(buf) /\ Start(a) \in 1..(Len(buf) + 1)
        /\ Len(buf) \in Nat BY DrainedShape
  <1>2. limit \in Nat BY RingAssumption
  <1>3. ASSUME NEW i \in Start(a)..Len(buf)
        PROVE  Cardinality({j \in Drained(a) : j <= i}) = i - Start(a) + 1
    <2>1. {j \in Drained(a) : j <= i} = Start(a)..i BY <1>1
    <2>2. Start(a) \in Int /\ i \in Int /\ Start(a) <= i BY <1>1
    <2>3. Cardinality(Start(a)..i) = i - Start(a) + 1 BY <2>2, FS_Interval
    <2> QED BY <2>1, <2>3
  <1> QED BY <1>1, <1>2, <1>3 DEF Page, Stop

\* What a page delivers: the numbers from the oldest drained one to the
\* new cursor; and what it reports as missed: those between the old cursor
\* and that oldest one.
LEMMA PageContents ==
  ASSUME RingInv, NEW a \in Agents, NEW limit \in 1..Cap
  PROVE  \/ /\ Drained(a) = {}
            /\ Page(a, limit) = {} /\ NextSince(a, limit) = cursor[a] /\ ~Gap(a)
         \/ \E first, last \in (cursor[a] + 1)..Inserted :
               /\ first <= last /\ NextSince(a, limit) = last
               /\ {buf[i] : i \in Page(a, limit)} = first..last
               /\ Gap(a) <=> first # cursor[a] + 1
               /\ Drained(a) # {} /\ buf[Oldest(Drained(a))] = first
               /\ first # cursor[a] + 1 => first <= Inserted - Cap + 1
  <1>1. /\ Drained(a) = Start(a)..Len(buf) /\ Start(a) \in 1..(Len(buf) + 1)
        /\ \A i \in 1..Len(buf) : buf[i] = Inserted - Len(buf) + i
        /\ cursor[a] \in Nat /\ cursor[a] <= Inserted
        /\ Len(buf) \in Nat BY DrainedShape
  <1>2. Page(a, limit) = Start(a)..Stop(a, limit) BY PageShape
  <1>3. limit \in Nat /\ limit >= 1 /\ Inserted \in Nat BY RingAssumption, InsertedType
  <1>4. CASE Start(a) > Len(buf)
    <2>1. Drained(a) = {} /\ Page(a, limit) = {} BY <1>1, <1>2, <1>3, <1>4 DEF Stop
    <2> QED BY <2>1 DEF NextSince, Gap
  <1>5. CASE Start(a) <= Len(buf)
    <2> DEFINE first == buf[Start(a)]
               last  == buf[Stop(a, limit)]
    <2>1. /\ Stop(a, limit) \in Start(a)..Len(buf)
          /\ Start(a) \in 1..Len(buf) BY <1>1, <1>3, <1>5 DEF Stop
    <2>2. /\ first = Inserted - Len(buf) + Start(a)
          /\ last = Inserted - Len(buf) + Stop(a, limit) BY <1>1, <2>1
    <2>3. Oldest(Drained(a)) = Start(a) /\ Drained(a) # {}
      <3>1. Start(a) \in Drained(a) /\ \A j \in Drained(a) : Start(a) <= j BY <1>1, <2>1
      <3>2. \A i \in Drained(a) : (\A j \in Drained(a) : i <= j) => i = Start(a) BY <1>1, <3>1
      <3> QED BY <3>1, <3>2 DEF Oldest
    <2>4. Newest(Page(a, limit)) = Stop(a, limit) /\ Page(a, limit) # {}
      <3>1. /\ Stop(a, limit) \in Page(a, limit)
            /\ \A j \in Page(a, limit) : j <= Stop(a, limit) BY <1>1, <1>2, <2>1
      <3>2. \A i \in Page(a, limit) :
              (\A j \in Page(a, limit) : j <= i) => i = Stop(a, limit) BY <1>1, <1>2, <2>1, <3>1
      <3> QED BY <3>1, <3>2 DEF Newest
    <2>5. /\ first \in (cursor[a] + 1)..Inserted /\ last \in (cursor[a] + 1)..Inserted
          /\ first <= last
      <3>1. Inserted - Len(buf) + Start(a) > cursor[a] BY <1>1, <1>3 DEF Start
      <3> HIDE DEF first, last
      <3> QED BY <1>1, <1>3, <2>1, <2>2, <3>1
    <2>6. NextSince(a, limit) = last BY <2>4 DEF NextSince
    <2>7. {buf[i] : i \in Page(a, limit)} = first..last
      <3>1. \A i \in Page(a, limit) : buf[i] = Inserted - Len(buf) + i BY <1>1, <1>2, <2>1
      <3>2. ASSUME NEW n \in first..last
            PROVE  \E i \in Page(a, limit) : buf[i] = n
        <4>1. n - Inserted + Len(buf) \in Page(a, limit) BY <1>1, <1>2, <1>3, <2>1, <2>2, <2>5
        <4>2. n \in Int BY <1>1, <1>3, <2>5
        <4> QED BY <3>1, <4>1, <4>2, <1>1, <1>3
      <3>3. \A i \in Page(a, limit) : buf[i] \in first..last BY <3>1, <1>1, <1>2, <1>3, <2>1, <2>2
      <3> QED BY <3>2, <3>3
    <2>8. Gap(a) <=> first # cursor[a] + 1 BY <2>3, <2>5, <1>1, <1>3 DEF Gap
    <2>9. first # cursor[a] + 1 => first <= Inserted - Cap + 1
      <3> SUFFICES ASSUME first # cursor[a] + 1 PROVE first <= Inserted - Cap + 1 OBVIOUS
      <3>1. Start(a) = 1 /\ Inserted - Len(buf) # 0
        BY SMTT(30), <1>1, <1>3, <2>1, <2>2, <2>5 DEF Start
      <3>2. Len(buf) = Cap BY <1>1, <1>3, <3>1, RingAssumption DEF RingInv, RingContiguous
      <3> QED BY <1>3, <2>2, <3>1, <3>2, RingAssumption
    <2> QED BY <2>3, <2>5, <2>6, <2>7, <2>8, <2>9
  <1> QED BY SMTT(30), <1>1, <1>4, <1>5

----------------------------------------
\* Every step keeps the invariant.
LEMMA QuietStep ==
  ASSUME RingInv, TypeOK', UNCHANGED <<seq, pending, buf, cursor, got, lost>>
  PROVE  RingInv' BY DEF RingInv, RingContiguous, EveryEventAccountedFor, Inserted

LEMMA TakeNumberStep ==
  ASSUME RingInv, TakeNumber
  PROVE  RingInv' /\ Inserted' = Inserted
  <1>1. /\ seq \in Nat /\ pending = NoPush /\ seq' = seq + 1 /\ pending' = seq + 1
        /\ UNCHANGED <<buf, registered, noted, cursor, got, lost>>
    BY DEF RingInv, TypeOK, TakeNumber, Number
  <1>2. TypeOK' BY <1>1 DEF RingInv, TypeOK
  <1>3. Inserted' = Inserted BY <1>1 DEF Inserted, NoPush
  <1>4. RingContiguous' BY <1>1, <1>3 DEF RingInv, RingContiguous
  <1>5. EveryEventAccountedFor' BY <1>1, <1>3 DEF RingInv, EveryEventAccountedFor
  <1> QED BY <1>2, <1>3, <1>4, <1>5 DEF RingInv

LEMMA InsertStep ==
  ASSUME RingInv, Insert
  PROVE  RingInv'
  <1>1. /\ seq \in Nat /\ pending = seq /\ seq >= 1 /\ pending' = NoPush
        /\ UNCHANGED <<seq, registered, noted, cursor, got, lost>>
        /\ buf \in Seq(Nat \ {0}) BY DEF RingInv, TypeOK, RingContiguous, Insert, NoPush
  <1>2. Inserted = seq - 1 /\ Inserted' = seq BY <1>1 DEF Inserted, NoPush
  <1>3. /\ Len(buf) \in Nat /\ Len(buf) <= Cap /\ Len(buf) <= seq - 1
        /\ Len(buf) < Cap => Len(buf) = seq - 1
        /\ \A i \in 1..Len(buf) : buf[i] = seq - 1 - Len(buf) + i
    BY <1>1, <1>2 DEF RingInv, RingContiguous
  <1> DEFINE room == MakeRoom
  <1>4. /\ room \in Seq(Nat \ {0})
        /\ Len(room) = IF Len(buf) = Cap THEN Len(buf) - 1 ELSE Len(buf)
        /\ \A i \in 1..Len(room) : room[i] = seq - 1 - Len(room) + i
    <2>1. CASE Len(buf) = Cap
      <3>1. room = Tail(buf) /\ buf # <<>> BY <2>1, <1>1, <1>3, RingAssumption DEF MakeRoom
      <3>2. /\ Tail(buf) \in Seq(Nat \ {0}) /\ Len(Tail(buf)) = Len(buf) - 1
            /\ \A i \in 1..Len(Tail(buf)) : Tail(buf)[i] = buf[i + 1]
        BY <3>1, <1>1, HeadTailProperties
      <3>3. \A i \in 1..Len(room) : room[i] = seq - 1 - Len(room) + i BY <3>1, <3>2, <1>1, <1>3
      <3> QED BY <2>1, <3>1, <3>2, <3>3
    <2>2. CASE Len(buf) # Cap
      <3>1. room = buf BY <2>2, <1>3, RingAssumption DEF MakeRoom
      <3> QED BY <2>2, <3>1, <1>1, <1>3
    <2> QED BY <2>1, <2>2
  <1>5. buf' = Append(room, seq) BY <1>1 DEF Insert
  <1> HIDE DEF room
  <1>6. /\ buf' \in Seq(Nat \ {0}) /\ Len(buf') = Len(room) + 1
        /\ \A i \in 1..Len(buf') : buf'[i] = seq - Len(buf') + i
    <2>1. Len(room) \in Nat BY <1>4
    <2>2. /\ buf' \in Seq(Nat \ {0}) /\ Len(buf') = Len(room) + 1
          /\ \A i \in 1..Len(room) : buf'[i] = room[i]
          /\ buf'[Len(room) + 1] = seq BY <1>1, <1>4, <1>5, AppendProperties
    <2>3. ASSUME NEW i \in 1..Len(buf') PROVE buf'[i] = seq - Len(buf') + i
      <3>1. CASE i = Len(room) + 1 BY <1>1, <2>1, <2>2, <3>1
      <3>2. CASE i \in 1..Len(room)
        <4>1. buf'[i] = room[i] BY <2>2, <3>2
        <4>2. room[i] = seq - 1 - Len(room) + i BY <1>4, <3>2
        <4> QED BY <1>1, <2>1, <2>2, <3>2, <4>1, <4>2
      <3> QED BY <2>1, <2>2, <3>1, <3>2
    <2> QED BY <2>2, <2>3
  <1>7. TypeOK' BY <1>1, <1>6 DEF RingInv, TypeOK
  <1>8. RingContiguous'
    <2>1. /\ Len(buf') \in Nat /\ Len(buf') <= Cap /\ Len(buf') <= seq
          /\ Len(buf') < Cap => Len(buf') = seq BY <1>1, <1>3, <1>4, <1>6, RingAssumption
    <2> QED BY <1>1, <1>2, <1>6, <2>1 DEF RingContiguous
  <1>9. EveryEventAccountedFor' BY <1>1, <1>2 DEF RingInv, TypeOK, EveryEventAccountedFor
  <1> QED BY <1>7, <1>8, <1>9 DEF RingInv

LEMMA DrainStep ==
  ASSUME RingInv, NEW a \in Agents, NEW limit \in 1..Cap, Drain(a, limit)
  PROVE  /\ RingInv'
         /\ Feed!Deliver(a) \/ UNCHANGED <<seq, cursor, got, lost>>
  <1>1. /\ cursor[a] \in Nat /\ Inserted \in Nat /\ seq \in Nat /\ Inserted <= seq
        /\ noted \in [Agents -> Nat \cup {NoPoll}] /\ noted[a] \in Nat /\ cursor \in [Agents -> Nat]
        /\ got \in [Agents -> SUBSET Nat] /\ lost \in [Agents -> SUBSET Nat]
    BY InsertedType DEF RingInv, TypeOK, Inserted, Drain, NoPoll
  <1>2. /\ UNCHANGED <<seq, pending, buf, registered>> /\ noted' = [noted EXCEPT ![a] = NoPoll]
        /\ Inserted' = Inserted BY DEF Drain, Inserted
  <1>3. RingContiguous' BY <1>2 DEF RingInv, RingContiguous, Inserted
  <1>4. CASE Drained(a) = {}
    <2>1. /\ NextSince(a, limit) = cursor[a] /\ ~Gap(a) /\ Page(a, limit) = {} BY <1>4, PageContents
    <2>2. UNCHANGED <<cursor, got, lost>> BY <2>1, <1>1 DEF Drain
    <2>3. noted' \in [Agents -> Nat \cup {NoPoll}] BY <2>1, <1>1, <1>2 DEF Drain
    <2>4. TypeOK' BY <1>2, <2>2, <2>3 DEF RingInv, TypeOK
    <2>5. EveryEventAccountedFor' BY <1>2, <2>2 DEF RingInv, EveryEventAccountedFor
    <2> QED BY <1>2, <1>3, <2>2, <2>4, <2>5 DEF RingInv
  <1>5. CASE Drained(a) # {}
    <2>1. PICK first, last \in (cursor[a] + 1)..Inserted :
            /\ first <= last /\ NextSince(a, limit) = last
            /\ {buf[i] : i \in Page(a, limit)} = first..last
            /\ Gap(a) <=> first # cursor[a] + 1
            /\ buf[Oldest(Drained(a))] = first
            /\ first # cursor[a] + 1 => first <= Inserted - Cap + 1 BY <1>5, PageContents
    <2>2. /\ cursor' = [cursor EXCEPT ![a] = last]
          /\ got' = [got EXCEPT ![a] = @ \cup first..last] BY <2>1 DEF Drain
    <2>3. lost' = [lost EXCEPT ![a] = @ \cup (cursor[a] + 1)..(first - 1)]
      <3>1. CASE Gap(a) BY <2>1, <3>1 DEF Drain
      <3>2. CASE ~Gap(a)
        <4>1. (cursor[a] + 1)..(first - 1) = {} BY <1>1, <2>1, <3>2
        <4>2. lost' = [lost EXCEPT ![a] = @] BY <3>2 DEF Drain
        <4> QED BY <4>1, <4>2
      <3> QED BY <3>1, <3>2
    <2>4. TypeOK'
      <3>1. /\ last \in Nat /\ first..last \in SUBSET Nat
            /\ (cursor[a] + 1)..(first - 1) \in SUBSET Nat BY <1>1, <2>1
      <3> QED BY <1>1, <1>2, <2>2, <2>3, <3>1 DEF RingInv, TypeOK
    <2>5. EveryEventAccountedFor'
      <3>1. ASSUME NEW b \in Agents
            PROVE  /\ got'[b] \cup lost'[b] = 1..cursor'[b] /\ got'[b] \cap lost'[b] = {}
                   /\ cursor'[b] <= Inserted'
        <4>1. /\ got[b] \cup lost[b] = 1..cursor[b] /\ got[b] \cap lost[b] = {}
              /\ cursor[b] <= Inserted BY DEF RingInv, EveryEventAccountedFor
        <4>2. CASE b # a BY <1>1, <1>2, <2>2, <2>3, <4>1, <4>2
        <4>3. CASE b = a
          <5>1. /\ cursor'[a] = last /\ got'[a] = got[a] \cup first..last
                /\ lost'[a] = lost[a] \cup (cursor[a] + 1)..(first - 1) BY <1>1, <2>2, <2>3
          <5>2. 1..last = 1..cursor[a] \cup (cursor[a] + 1)..(first - 1) \cup first..last
            BY <1>1, <2>1
          <5>3. /\ 1..cursor[a] \cap first..last = {}
                /\ 1..cursor[a] \cap (cursor[a] + 1)..(first - 1) = {}
                /\ first..last \cap (cursor[a] + 1)..(first - 1) = {} BY <1>1, <2>1
          <5>4. got'[a] \cup lost'[a] = 1..last BY <4>1, <4>3, <5>1, <5>2
          <5>5. got'[a] \cap lost'[a] = {} BY <4>1, <4>3, <5>1, <5>3
          <5> QED BY <1>1, <1>2, <2>1, <4>3, <5>1, <5>4, <5>5
        <4> QED BY <4>2, <4>3
      <3> QED BY <3>1 DEF EveryEventAccountedFor
    <2>6. Feed!Deliver(a)
      <3>1. first \in (cursor[a] + 1)..seq /\ last \in (cursor[a] + 1)..seq BY <1>1, <2>1
      <3>2. first # cursor[a] + 1 => first <= seq - Cap + 1 BY <1>1, <2>1, RingAssumption
      <3> QED BY <1>2, <2>1, <2>2, <2>3, <3>1, <3>2 DEF Feed!Deliver
    <2> QED BY <1>3, <2>4, <2>5, <2>6 DEF RingInv
  <1> QED BY <1>4, <1>5

----------------------------------------
LEMMA RingStep == RingInv /\ [Next]_vars => RingInv' /\ [Feed!Next]_(Feed!feedVars)
  <1> SUFFICES ASSUME RingInv, [Next]_vars
               PROVE  RingInv' /\ [Feed!Next]_(Feed!feedVars)
    OBVIOUS
  <1> USE DEF Feed!feedVars
  <1>1. CASE TakeNumber
    <2>1. Feed!Issue BY <1>1 DEF TakeNumber, Feed!Issue
    <2> QED BY <1>1, <2>1, TakeNumberStep DEF Feed!Next
  <1>2. CASE Insert BY <1>2, InsertStep DEF Insert
  <1>3. CASE Register
    <2>1. TypeOK' BY <1>3 DEF Register, RingInv, TypeOK
    <2> QED BY <1>3, <2>1, QuietStep DEF Register
  <1>4. ASSUME NEW a \in Agents, NoteLatest(a)
        PROVE  RingInv' /\ [Feed!Next]_(Feed!feedVars)
    <2>1. TypeOK' BY <1>4 DEF NoteLatest, RingInv, TypeOK
    <2> QED BY <1>4, <2>1, QuietStep DEF NoteLatest
  <1>5. ASSUME NEW a \in Agents, NEW limit \in 1..Cap, Drain(a, limit)
        PROVE  RingInv' /\ [Feed!Next]_(Feed!feedVars) BY <1>5, DrainStep DEF Feed!Next
  <1>6. CASE UNCHANGED vars
    <2>1. TypeOK' BY <1>6 DEF vars, RingInv, TypeOK
    <2> QED BY <1>6, <2>1, QuietStep DEF vars
  <1> QED BY <1>1, <1>2, <1>3, <1>4, <1>5, <1>6 DEF Next, Poll

\* The ring of a live capture is typed, contiguous and bounded, and every
\* event is on a page or reported missing.
THEOREM RingInvariant == Spec => []RingInv
  <1>1. RingInv /\ [Next]_vars => RingInv' BY RingStep
  <1> QED BY RingInit, <1>1, PTL DEF Spec

\* events (services/stream.rs) never loses an event silently and never
\* delivers one twice, for any number of agents and any ring capacity.
THEOREM NothingLostSilently == Spec => []EveryEventAccountedFor
  <1>1. RingInv => EveryEventAccountedFor BY DEF RingInv
  <1> QED BY RingInvariant, <1>1, PTL

\* The ring implements the feed of the polling contract.
THEOREM RingImplementsFeed == Spec => ImplementsFeed
  <1>1. Init => Feed!Init BY DEF Init, Feed!Init
  <1>2. RingInv /\ [Next]_vars => [Feed!Next]_(Feed!feedVars) BY RingStep
  <1> QED BY RingInvariant, <1>1, <1>2, PTL DEF Spec, ImplementsFeed, Feed!Spec

----------------------------------------
\* The bridge and the sidecar.

McpSups ==
  [pc : {"none", "try", "wait", "check", "store", "clear", "fail", "ended"},
   gen : Nat, port : McpPorts \cup {"none"}, tries : 0..McpAttempts,
   kid : 0..McpMaxKids]
McpCallRecords ==
  [pc : {"idle", "port", "sender", "gen", "kill", "take", "set", "on",
         "down", "regen", "rekill", "slot", "spawn"},
   port : McpPorts \cup {"none"}, changed : BOOLEAN, on : BOOLEAN]
McpKidRecords == [state : {"none", "starting", "up", "dead"}, port : McpPorts \cup {"none"}]
McpBridgeRecords ==
  [pc : {"none", "bind", "serve", "port", "sender", "refused", "ended"}, told : BOOLEAN]

\* A supervisor that is about to try has an attempt left, and a command
\* that sets a port has one.
McpTypeInv ==
    /\ McpTypeOK
    /\ \A i \in McpIds : mcpSup[i].pc = "try" => mcpSup[i].tries < McpAttempts
    /\ \A c \in McpCallers : mcpCall[c].pc = "set" => mcpCall[c].port \in McpPorts

McpHolds(i) == mcpSup[i].pc \in {"wait", "check", "store"}

\* Whose child is whose: a supervisor's is its own and not the slot's, is
\* for its port, and no two children listen on one port.
McpOwnInv ==
    /\ \A i \in McpIds : McpHolds(i) =>
         /\ mcpSup[i].kid \in McpKids /\ mcpSlot # mcpSup[i].kid
         /\ mcpKid[mcpSup[i].kid].state # "none"
         /\ mcpSup[i].pc # "wait" => mcpKid[mcpSup[i].kid].state # "starting"
         /\ mcpKid[mcpSup[i].kid].port = mcpSup[i].port
    /\ \A i, j \in McpIds :
         McpHolds(i) /\ McpHolds(j) /\ mcpSup[i].kid = mcpSup[j].kid => i = j
    /\ mcpSlot # 0 => mcpKid[mcpSlot].state \in {"up", "dead"}
    /\ \A k, l \in McpKids :
         mcpKid[k].state = "up" /\ mcpKid[l].state = "up" /\ mcpKid[k].port = mcpKid[l].port
           => k = l
    /\ \A i \in McpIds : mcpSup[i].gen <= mcpGen

\* What may still be stored is for one port, that of the slot's child.
McpPortInv ==
    /\ \A i, j \in McpIds : McpMayStore(i) /\ McpMayStore(j) => mcpSup[i].port = mcpSup[j].port
    /\ \A i \in McpIds : McpMayStore(i) /\ McpAlive(mcpSlot) =>
         mcpKid[mcpSlot].port = mcpSup[i].port
    /\ \A i \in McpIds : mcpSup[i].pc \in {"check", "store"} => mcpKid[mcpSup[i].kid].state = "up"
    /\ \A k \in McpKids : McpAlive(k) => McpHeld(k)

McpRacedInv == ~mcpRaced => McpPortInv

McpKilling == \E c \in McpCallers : mcpCall[c].pc \in {"kill", "rekill"}

\* The child in the slot is of the current generation, or about to die.
McpLateInv ==
    ~mcpLate =>
      /\ \A i \in McpIds : mcpSup[i].pc = "store" => mcpSup[i].gen = mcpGen
      /\ McpAlive(mcpSlot) =>
           \/ \E i \in McpIds : /\ mcpSup[i].pc \in {"clear", "ended"}
                                /\ mcpSup[i].kid = mcpSlot /\ mcpSup[i].gen = mcpGen
           \/ McpKilling

McpInv == McpTypeInv /\ McpOwnInv /\ McpRacedInv /\ McpLateInv /\ McpBridgeReachable

----------------------------------------
\* What the updates of the model do.
LEMMA McpOneIsFresh ==
  ASSUME NEW f, NEW none, McpFresh(f, none) # {}
  PROVE  McpOneOf(f, none) \in DOMAIN f /\ f[McpOneOf(f, none)] = none BY DEF McpOneOf, McpFresh

LEMMA McpSupMoved ==
  ASSUME NEW i \in McpIds, mcpSup \in [McpIds -> McpSups],
         NEW pc \in {"none", "try", "wait", "check", "store", "clear", "fail", "ended"},
         McpSupGo(i, pc)
  PROVE  /\ mcpSup' \in [McpIds -> McpSups] /\ mcpSup'[i].pc = pc /\ mcpSup'[i].kid = mcpSup[i].kid
         /\ mcpSup'[i].gen = mcpSup[i].gen /\ mcpSup'[i].port = mcpSup[i].port
         /\ mcpSup'[i].tries = mcpSup[i].tries
         /\ \A j \in McpIds \ {i} : mcpSup'[j] = mcpSup[j] BY DEF McpSupGo, McpSups

LEMMA McpCallMoved ==
  ASSUME NEW c \in McpCallers, mcpCall \in [McpCallers -> McpCallRecords],
         NEW pc \in {"idle", "port", "sender", "gen", "kill", "take", "set", "on",
                     "down", "regen", "rekill", "slot", "spawn"},
         McpGo(c, pc)
  PROVE  /\ mcpCall' \in [McpCallers -> McpCallRecords]
         /\ mcpCall'[c].pc = pc /\ mcpCall'[c].port = mcpCall[c].port
         /\ \A d \in McpCallers \ {c} : mcpCall'[d] = mcpCall[d] BY DEF McpGo, McpCallRecords

LEMMA McpCallReturned ==
  ASSUME NEW c \in McpCallers, mcpCall \in [McpCallers -> McpCallRecords], McpReturn(c)
  PROVE  /\ mcpCall' \in [McpCallers -> McpCallRecords] /\ mcpCall'[c].pc = "idle"
         /\ \A d \in McpCallers \ {c} : mcpCall'[d] = mcpCall[d]
  BY DEF McpReturn, McpCallRecords, McpNoCall

LEMMA McpKilledKid ==
  ASSUME NEW k \in 0..McpMaxKids, mcpKid \in [McpKids -> McpKidRecords], mcpKid' = McpKilled(k)
  PROVE  /\ mcpKid' \in [McpKids -> McpKidRecords]
         /\ k # 0 => mcpKid'[k].state = "dead" /\ mcpKid'[k].port = mcpKid[k].port
         /\ \A l \in McpKids \ {k} : mcpKid'[l] = mcpKid[l]
  <1>1. CASE k = 0 BY <1>1 DEF McpKilled, McpKids
  <1>2. CASE k # 0
    <2>1. k \in McpKids /\ mcpKid' = [mcpKid EXCEPT ![k].state = "dead"]
      BY <1>2, McpAssumption DEF McpKilled, McpKids
    <2> QED BY <2>1 DEF McpKidRecords
  <1> QED BY <1>1, <1>2

LEMMA McpToldBridge ==
  ASSUME NEW i \in 0..McpMaxRuns, mcpBridge \in [McpIds -> McpBridgeRecords]
  PROVE  /\ McpTold(i) \in [McpIds -> McpBridgeRecords]
         /\ i # 0 => i \in McpIds /\ McpTold(i)[i].told
         /\ \A j \in McpIds : McpTold(i)[j].pc = mcpBridge[j].pc
         /\ \A j \in McpIds \ {i} : McpTold(i)[j] = mcpBridge[j]
  <1>1. CASE i = 0 BY <1>1 DEF McpTold
  <1>2. CASE i # 0
    <2>1. i \in McpIds /\ McpTold(i) = [mcpBridge EXCEPT ![i].told = TRUE]
      BY <1>2, McpAssumption DEF McpTold, McpIds
    <2>2. /\ McpTold(i)[i] = [mcpBridge[i] EXCEPT !.told = TRUE]
          /\ \A j \in McpIds \ {i} : McpTold(i)[j] = mcpBridge[j] BY <2>1
    <2>3. /\ McpTold(i)[i] \in McpBridgeRecords /\ McpTold(i)[i].told
          /\ McpTold(i)[i].pc = mcpBridge[i].pc
      <3>1. ASSUME NEW r \in McpBridgeRecords
            PROVE  /\ [r EXCEPT !.told = TRUE] \in McpBridgeRecords
                   /\ [r EXCEPT !.told = TRUE].told /\ [r EXCEPT !.told = TRUE].pc = r.pc
        BY DEF McpBridgeRecords
      <3>2. mcpBridge[i] \in McpBridgeRecords BY <2>1
      <3> QED BY <2>2, <3>1, <3>2
    <2>4. McpTold(i) \in [McpIds -> McpBridgeRecords]
      <3>1. [mcpBridge[i] EXCEPT !.told = TRUE] \in McpBridgeRecords BY <2>2, <2>3
      <3>2. McpTold(i) = [mcpBridge EXCEPT ![i] = [mcpBridge[i] EXCEPT !.told = TRUE]] BY <2>1
      <3> QED BY <3>1, <3>2
    <2> QED BY <2>1, <2>2, <2>3, <2>4
  <1> QED BY <1>1, <1>2

LEMMA McpTypes ==
  McpTypeOK <=>
    /\ mcpPort \in McpPorts /\ mcpGen \in Nat /\ mcpSlot \in 0..McpMaxKids
    /\ mcpKid \in [McpKids -> McpKidRecords] /\ mcpOn \in BOOLEAN /\ mcpError \in BOOLEAN
    /\ mcpRaced \in BOOLEAN /\ mcpLate \in BOOLEAN /\ mcpTx \in 0..McpMaxRuns
    /\ mcpSup \in [McpIds -> McpSups] /\ mcpBridge \in [McpIds -> McpBridgeRecords]
    /\ mcpCall \in [McpCallers -> McpCallRecords] /\ mcpCalls \in 0..McpMaxCalls
  BY DEF McpTypeOK, McpSups, McpKidRecords, McpBridgeRecords, McpCallRecords

----------------------------------------
\* Types.
McpTyped ==
    /\ mcpPort \in McpPorts /\ mcpGen \in Nat /\ mcpSlot \in 0..McpMaxKids
    /\ mcpKid \in [McpKids -> McpKidRecords] /\ mcpOn \in BOOLEAN /\ mcpError \in BOOLEAN
    /\ mcpRaced \in BOOLEAN /\ mcpLate \in BOOLEAN /\ mcpTx \in 0..McpMaxRuns
    /\ mcpSup \in [McpIds -> McpSups] /\ mcpBridge \in [McpIds -> McpBridgeRecords]
    /\ mcpCall \in [McpCallers -> McpCallRecords] /\ mcpCalls \in 0..McpMaxCalls
    /\ \A i \in McpIds : mcpSup[i].pc = "try" => mcpSup[i].tries < McpAttempts
    /\ \A c \in McpCallers : mcpCall[c].pc = "set" => mcpCall[c].port \in McpPorts

LEMMA McpTypedInv == McpTypeInv <=> McpTyped BY McpTypes DEF McpTypeInv, McpTyped

LEMMA McpTypedInit == McpInit => McpTyped
  <1> SUFFICES ASSUME McpInit PROVE McpTyped OBVIOUS
  <1>1. mcpPort \in McpPorts BY McpAssumption DEF McpInit
  <1>2. McpNoSup \in McpSups /\ McpNoCall \in McpCallRecords /\ McpNoBridge \in McpBridgeRecords
        /\ [state |-> "none", port |-> "none"] \in McpKidRecords
    BY McpAssumption DEF McpNoSup, McpSups, McpNoCall, McpCallRecords, McpNoBridge,
      McpBridgeRecords, McpKidRecords
  <1>3. /\ mcpGen = 0 /\ mcpSlot = 0 /\ mcpTx = 0 /\ mcpCalls = 0
        /\ {mcpOn, mcpError, mcpRaced, mcpLate} \subseteq BOOLEAN BY DEF McpInit
  <1>4. /\ mcpSup = [i \in McpIds |-> McpNoSup] /\ mcpCall = [c \in McpCallers |-> McpNoCall]
        /\ mcpBridge = [i \in McpIds |-> McpNoBridge]
        /\ mcpKid = [k \in McpKids |-> [state |-> "none", port |-> "none"]]
    BY DEF McpInit, McpNoBridge
  <1>5. /\ mcpSup \in [McpIds -> McpSups] /\ mcpCall \in [McpCallers -> McpCallRecords]
        /\ mcpBridge \in [McpIds -> McpBridgeRecords] /\ mcpKid \in [McpKids -> McpKidRecords]
    BY <1>2, <1>4
  <1>6. /\ \A i \in McpIds : mcpSup[i].pc = "none"
        /\ \A c \in McpCallers : mcpCall[c].pc = "idle" BY <1>4 DEF McpNoSup, McpNoCall
  <1> QED BY <1>1, <1>3, <1>5, <1>6, McpAssumption DEF McpTyped

LEMMA McpTypedCall ==
  ASSUME McpTyped, NEW c \in McpCallers, McpBegin(c) \/ McpCallStep(c)
  PROVE  McpTyped'
  <1> USE DEF mcpServer, mcpBridges, mcpHistory
  <1>0. mcpCall \in [McpCallers -> McpCallRecords] BY DEF McpTyped
  <1>1. ASSUME NEW pc \in {"port", "gen", "set"}, NEW port \in McpPorts \cup {"none"},
               pc = "set" => port \in McpPorts, McpOrder(c, pc, port)
        PROVE  McpTyped'
    <2>1. [McpNoCall EXCEPT !.pc = pc, !.port = port] \in McpCallRecords
          /\ [McpNoCall EXCEPT !.pc = pc, !.port = port].pc = pc
          /\ [McpNoCall EXCEPT !.pc = pc, !.port = port].port = port
      BY DEF McpNoCall, McpCallRecords
    <2>2. mcpCall' \in [McpCallers -> McpCallRecords]
          /\ mcpCall'[c].pc = pc /\ mcpCall'[c].port = port
          /\ \A d \in McpCallers \ {c} : mcpCall'[d] = mcpCall[d] BY <1>0, <1>1, <2>1 DEF McpOrder
    <2>3. mcpCalls' \in 0..McpMaxCalls BY <1>1, McpAssumption DEF McpOrder, McpTyped
    <2> QED BY <1>1, <2>2, <2>3 DEF McpOrder, McpTyped
  <1>2. CASE McpStartPort(c) BY <1>0, <1>2, McpCallMoved DEF McpStartPort, McpTyped
  <1>3. CASE McpStartSender(c)
    <2>1. mcpTx' \in 0..McpMaxRuns /\ mcpBridge' \in [McpIds -> McpBridgeRecords]
      <3>1. CASE mcpTx # 0 BY <1>3, <3>1 DEF McpStartSender, McpTyped
      <3>2. CASE mcpTx = 0
        <4> DEFINE i == McpOneOf(mcpBridge, McpNoBridge)
        <4>1. i \in McpIds BY <1>3, <3>2, McpOneIsFresh DEF McpStartSender, McpTyped
        <4>2. mcpTx' = i /\ mcpBridge' = [mcpBridge EXCEPT ![i].pc = "bind"]
          BY <1>3, <3>2 DEF McpStartSender
        <4> HIDE DEF i
        <4> QED BY <4>1, <4>2 DEF McpTyped, McpIds, McpBridgeRecords
      <3> QED BY <3>1, <3>2
    <2> QED BY <1>0, <1>3, <2>1, McpCallMoved DEF McpStartSender, McpTyped
  <1>4. CASE McpSlotTest(c)
    <2>1. CASE McpAlive(mcpSlot) BY <1>0, <1>4, <2>1, McpCallReturned DEF McpSlotTest, McpTyped
    <2>2. CASE ~McpAlive(mcpSlot)
      BY <1>0, <1>4, <2>2, McpCallMoved, McpAssumption DEF McpSlotTest, McpTyped
    <2> QED BY <2>1, <2>2
  <1>5. CASE McpSpawn(c)
    <2> DEFINE i == McpOneOf(mcpSup, McpNoSup)
               s == [McpNoSup EXCEPT !.pc = "try", !.gen = mcpGen, !.port = mcpPort]
    <2>1. i \in McpIds BY <1>5, McpOneIsFresh DEF McpSpawn, McpTyped
    <2>2. mcpSup' = [mcpSup EXCEPT ![i] = s] BY <1>5 DEF McpSpawn
    <2>3. s \in McpSups /\ s.tries = 0
      <3>1. 0 \in 0..McpAttempts /\ 0 \in 0..McpMaxKids /\ mcpGen \in Nat /\ mcpPort \in McpPorts
        BY McpAssumption DEF McpTyped
      <3> QED BY <3>1 DEF McpNoSup, McpSups
    <2>4. mcpRaced' \in BOOLEAN
      <3>1. mcpRaced' = (mcpRaced \/ McpElsewhere(mcpPort)) BY <1>5, Zenon DEF McpSpawn
      <3> QED BY <3>1, Zenon
    <2> HIDE DEF i, s
    <2>5. mcpSup' \in [McpIds -> McpSups] /\ mcpSup'[i].tries = 0
          /\ \A j \in McpIds \ {i} : mcpSup'[j] = mcpSup[j] BY <2>1, <2>2, <2>3 DEF McpTyped
    <2>6. /\ mcpCall' \in [McpCallers -> McpCallRecords] /\ mcpCall'[c].pc = "idle"
          /\ \A d \in McpCallers \ {c} : mcpCall'[d] = mcpCall[d]
      BY <1>0, <1>5, McpCallReturned DEF McpSpawn
    <2>7. \A j \in McpIds : mcpSup'[j].pc = "try" => mcpSup'[j].tries < McpAttempts
      BY <2>5, McpAssumption DEF McpTyped
    <2>8. /\ mcpError' = FALSE /\ mcpLate' = mcpLate
          /\ UNCHANGED <<mcpPort, mcpGen, mcpSlot, mcpKid, mcpBridges, mcpCalls>>
      BY <1>5 DEF McpSpawn
    <2> QED BY <2>4, <2>5, <2>6, <2>7, <2>8 DEF McpTyped
  <1>6. CASE McpStopGen(c) BY <1>0, <1>6, McpCallMoved DEF McpStopGen, McpTyped
  <1>7. CASE McpStopKill(c)
    BY <1>0, <1>7, McpCallMoved, McpKilledKid, McpAssumption DEF McpStopKill, McpTyped
  <1>8. CASE McpStopTake(c)
    BY <1>0, <1>8, McpCallReturned, McpToldBridge, McpAssumption DEF McpStopTake, McpTyped
  <1>9. CASE McpSetPort(c)
    <2>1. mcpCall' \in [McpCallers -> McpCallRecords] /\ mcpCall'[c].pc = "on"
          /\ \A d \in McpCallers \ {c} : mcpCall'[d] = mcpCall[d]
      BY ZenonT(30), <1>0, <1>9 DEF McpSetPort, McpCallRecords
    <2> QED BY <1>9, <2>1 DEF McpSetPort, McpTyped
  <1>10. CASE McpReadOn(c)
    <2>1. mcpCall' \in [McpCallers -> McpCallRecords] /\ mcpCall'[c].pc = "down"
          /\ \A d \in McpCallers \ {c} : mcpCall'[d] = mcpCall[d]
      BY ZenonT(30), <1>0, <1>10 DEF McpReadOn, McpCallRecords, McpTyped
    <2> QED BY <1>10, <2>1 DEF McpReadOn, McpTyped
  <1>11. CASE McpReadDown(c)
    <2>1. McpGo(c, "regen") \/ McpReturn(c) BY <1>11 DEF McpReadDown
    <2> QED BY <1>0, <1>11, <2>1, McpCallMoved, McpCallReturned DEF McpReadDown, McpTyped
  <1>12. CASE McpBegin(c) BY <1>1, <1>12 DEF McpBegin
  <1> QED BY <1>2, <1>3, <1>4, <1>5, <1>6, <1>7, <1>8, <1>9, <1>10, <1>11, <1>12 DEF McpCallStep

LEMMA McpTypedRest ==
  ASSUME McpTyped,
         \/ \E i \in McpIds : McpSupStep(i) \/ McpBridgeStep(i)
         \/ \E k \in McpKids : McpListen(k) \/ McpDies(k)
         \/ McpInfo
  PROVE  McpTyped'
  <1> USE DEF mcpServer, mcpBridges, mcpOrders, mcpHistory
  <1>0. /\ mcpSup \in [McpIds -> McpSups] /\ mcpKid \in [McpKids -> McpKidRecords]
        /\ mcpBridge \in [McpIds -> McpBridgeRecords] BY DEF McpTyped
  <1>1. ASSUME NEW i \in McpIds, McpTry(i) PROVE McpTyped'
    <2> DEFINE k == McpOneOf(mcpKid, McpNoKid)
               n == [state |-> "starting", port |-> mcpSup[i].port]
    <2>1. k \in McpKids BY <1>0, <1>1, McpOneIsFresh DEF McpTry
    <2>2. /\ mcpKid' = [mcpKid EXCEPT ![k] = n]
          /\ mcpSup' = [mcpSup EXCEPT ![i].pc = "wait", ![i].kid = k, ![i].tries = @ + 1]
      BY <1>1 DEF McpTry
    <2>3. n \in McpKidRecords BY <1>0 DEF McpKidRecords, McpSups
    <2>4. k \in 0..McpMaxKids /\ mcpSup[i].tries + 1 \in 0..McpAttempts
      BY <1>0, <1>1, <2>1, McpAssumption DEF McpTyped, McpTry, McpKids, McpSups
    <2> HIDE DEF k, n
    <2>5. mcpKid' \in [McpKids -> McpKidRecords] BY <1>0, <2>1, <2>2, <2>3
    <2>6. ASSUME NEW r \in McpSups, r.tries + 1 \in 0..McpAttempts
          PROVE  /\ [r EXCEPT !.pc = "wait", !.kid = k, !.tries = @ + 1] \in McpSups
                 /\ [r EXCEPT !.pc = "wait", !.kid = k, !.tries = @ + 1].pc = "wait"
      BY <2>4, <2>6 DEF McpSups
    <2>7. /\ mcpSup' \in [McpIds -> McpSups] /\ mcpSup'[i].pc = "wait"
          /\ \A j \in McpIds \ {i} : mcpSup'[j] = mcpSup[j]
      <3>1. mcpSup' = [mcpSup EXCEPT ![i] =
              [mcpSup[i] EXCEPT !.pc = "wait", !.kid = k, !.tries = @ + 1]] BY <1>0, <2>2
      <3> QED BY <1>0, <2>4, <2>6, <3>1
    <2> QED BY <1>1, <2>5, <2>7 DEF McpTry, McpTyped
  <1>2. ASSUME NEW i \in McpIds, McpSettle(i) PROVE McpTyped'
    BY <1>0, <1>2, McpSupMoved DEF McpSettle, McpAfter, McpTyped
  <1>11. ASSUME NEW i \in McpIds, McpTryFails(i) PROVE McpTyped'
    <2> DEFINE pc == McpAfter(mcpSup[i].tries + 1)
    <2>1. mcpSup[i].tries + 1 \in 0..McpAttempts
      BY <1>0, <1>11, McpAssumption DEF McpTyped, McpTryFails, McpSups
    <2>2. pc \in {"try", "fail"} /\ (pc = "try" => mcpSup[i].tries + 1 < McpAttempts)
      BY DEF McpAfter
    <2>6. mcpSup' = [mcpSup EXCEPT ![i].pc = pc, ![i].tries = @ + 1] BY <1>11 DEF McpTryFails
    <2> HIDE DEF pc
    <2>3. mcpSup' = [mcpSup EXCEPT ![i] = [mcpSup[i] EXCEPT !.pc = pc, !.tries = @ + 1]]
      BY <1>0, <2>6
    <2>4. ASSUME NEW r \in McpSups, r.tries + 1 \in 0..McpAttempts
          PROVE  /\ [r EXCEPT !.pc = pc, !.tries = @ + 1] \in McpSups
                 /\ [r EXCEPT !.pc = pc, !.tries = @ + 1].pc = pc
                 /\ [r EXCEPT !.pc = pc, !.tries = @ + 1].tries = r.tries + 1
      BY <2>2, <2>4 DEF McpSups
    <2>5. /\ mcpSup' \in [McpIds -> McpSups] /\ mcpSup'[i].pc = pc
          /\ mcpSup'[i].tries = mcpSup[i].tries + 1
          /\ \A j \in McpIds \ {i} : mcpSup'[j] = mcpSup[j] BY <1>0, <2>1, <2>3, <2>4
    <2> QED BY <1>11, <2>2, <2>5, McpAssumption DEF McpTryFails, McpCounted, McpTyped
  <1>12. ASSUME NEW i \in McpIds, McpUnpolled(i) PROVE McpTyped'
    BY <1>0, <1>12, McpSupMoved, McpAssumption DEF McpUnpolled, McpCounted, McpAfter, McpTyped
  <1>3. ASSUME NEW i \in McpIds, McpCheck(i) PROVE McpTyped'
    <2>1. mcpSup[i].kid \in 0..McpMaxKids BY <1>0 DEF McpSups
    <2>2. mcpKid' \in [McpKids -> McpKidRecords]
      BY <1>0, <1>3, <2>1, McpKilledKid DEF McpCheck, McpOutdated
    <2>3. McpSupGo(i, "ended") \/ McpSupGo(i, "store") BY <1>3 DEF McpCheck
    <2> QED BY <1>0, <1>3, <2>2, <2>3, McpSupMoved DEF McpCheck, McpTyped
  <1>4. ASSUME NEW i \in McpIds, McpStore(i) PROVE McpTyped'
    <2>1. mcpSup[i].kid \in 0..McpMaxKids BY <1>0 DEF McpSups
    <2> QED BY <1>0, <1>4, <2>1, McpSupMoved DEF McpStore, McpTyped
  <1>5. ASSUME NEW i \in McpIds, McpReport(i) PROVE McpTyped'
    BY <1>0, <1>5, McpSupMoved DEF McpReport, McpTyped
  <1>6. ASSUME NEW i \in McpIds,
               NEW pc \in {"none", "bind", "serve", "port", "sender", "refused", "ended"},
               McpBridgeGo(i, pc)
        PROVE  mcpBridge' \in [McpIds -> McpBridgeRecords]
    BY <1>0, <1>6 DEF McpBridgeGo, McpBridgeRecords
  <1>7. ASSUME NEW i \in McpIds, McpBridgeStep(i) PROVE McpTyped'
    <2>1. CASE McpBind(i) BY <1>6, <2>1 DEF McpBind, McpTyped
    <2>2. CASE McpDrained(i) BY <1>6, <2>2 DEF McpDrained, McpTyped
    <2>3. CASE McpClearPort(i) BY <1>6, <2>3 DEF McpClearPort, McpTyped
    <2>4. CASE McpClearSender(i)
      <3>1. McpTold(mcpTx) \in [McpIds -> McpBridgeRecords] BY <1>0, McpToldBridge DEF McpTyped
      <3>2. mcpBridge' \in [McpIds -> McpBridgeRecords]
        BY <2>4, <3>1 DEF McpClearSender, McpBridgeRecords
      <3> QED BY <2>4, <3>2, McpAssumption DEF McpClearSender, McpTyped
    <2> QED BY <1>7, <2>1, <2>2, <2>3, <2>4 DEF McpBridgeStep
  <1>8. ASSUME NEW k \in McpKids, McpListen(k) PROVE McpTyped'
    <2>1. mcpKid' \in [McpKids -> McpKidRecords] BY <1>0, <1>8 DEF McpListen, McpKidRecords
    <2> QED BY <1>8, <2>1 DEF McpListen, McpTyped
  <1>9. ASSUME NEW k \in McpKids, McpDies(k) PROVE McpTyped'
    <2>1. mcpKid' \in [McpKids -> McpKidRecords]
      BY <1>0, <1>9, McpKilledKid, McpAssumption DEF McpDies, McpKids
    <2> QED BY <1>9, <2>1 DEF McpDies, McpTyped
  <1>10. CASE McpInfo BY <1>10, McpAssumption DEF McpInfo, McpTyped
  <1> QED BY <1>1, <1>2, <1>3, <1>4, <1>5, <1>7, <1>8, <1>9, <1>10, <1>11, <1>12 DEF McpSupStep

LEMMA McpTypedStep == McpTyped /\ [McpNext]_mcpVars => McpTyped'
  <1> SUFFICES ASSUME McpTyped, [McpNext]_mcpVars PROVE McpTyped' OBVIOUS
  <1>1. CASE UNCHANGED mcpVars
    BY <1>1 DEF mcpVars, mcpServer, mcpBridges, mcpOrders, mcpHistory, McpTyped
  <1> QED BY <1>1, McpTypedCall, McpTypedRest DEF McpNext

\* The type invariant holds for any callers, ports, attempts and processes.
THEOREM McpTypeCorrect == McpSpec => []McpTypeOK
  <1>1. McpTyped => McpTypeOK BY McpTypedInv DEF McpTypeInv
  <1> QED BY <1>1, McpTypedInit, McpTypedStep, PTL DEF McpSpec

----------------------------------------
\* Who holds which child.
McpHands == McpOwnInv /\ McpRacedInv /\ McpLateInv

LEMMA McpHandsInit == McpInit => McpHands /\ McpBridgeReachable
  <1> SUFFICES ASSUME McpInit PROVE McpHands /\ McpBridgeReachable OBVIOUS
  <1>1. \A i \in McpIds :
          mcpSup[i].pc = "none" /\ mcpSup[i].gen = 0 /\ mcpBridge[i].pc = "none"
    BY DEF McpInit, McpNoSup
  <1>2. (\A k \in McpKids : mcpKid[k].state = "none") /\ mcpSlot = 0 /\ mcpGen = 0 BY DEF McpInit
  <1> QED BY <1>1, <1>2 DEF McpHands, McpOwnInv, McpRacedInv, McpPortInv, McpLateInv, McpHolds,
                      McpMayStore, McpAlive, McpBridgeReachable

\* A step that at most empties a slot whose child is dead.
LEMMA McpHandsStay ==
  ASSUME McpHands, UNCHANGED <<mcpKid, mcpSup, mcpGen, mcpRaced, mcpLate>>,
         mcpSlot' = mcpSlot \/ (mcpSlot' = 0 /\ ~McpAlive(mcpSlot)),
         McpKilling => McpKilling'
  PROVE  McpHands'
  <1>1. McpOwnInv' BY DEF McpHands, McpOwnInv, McpHolds, McpKids
  <1>2. \A k : McpAlive(k)' <=> McpAlive(k) BY DEF McpAlive
  <1>3. McpAlive(mcpSlot)' => mcpSlot' = mcpSlot /\ McpAlive(mcpSlot) BY DEF McpAlive
  <1>4. McpRacedInv' BY <1>2, <1>3 DEF McpHands, McpRacedInv, McpPortInv, McpMayStore, McpHeld
  <1>5. McpLateInv' BY <1>3 DEF McpHands, McpLateInv
  <1> QED BY <1>1, <1>4, <1>5 DEF McpHands

LEMMA McpHandsSpawn ==
  ASSUME McpTyped, McpHands, NEW c \in McpCallers, McpSpawn(c)
  PROVE  McpHands'
  <1> DEFINE i == McpOneOf(mcpSup, McpNoSup)
  <1>1. i \in McpIds /\ mcpSup[i].pc = "none" BY McpOneIsFresh DEF McpSpawn, McpTyped, McpNoSup
  <1>2. /\ mcpSup' = [mcpSup EXCEPT ![i] =
               [McpNoSup EXCEPT !.pc = "try", !.gen = mcpGen, !.port = mcpPort]]
        /\ UNCHANGED <<mcpGen, mcpSlot, mcpKid, mcpLate>>
        /\ mcpRaced' = (mcpRaced \/ McpElsewhere(mcpPort)) BY DEF McpSpawn
  <1> HIDE DEF i
  <1>3. /\ mcpSup'[i].pc = "try" /\ mcpSup'[i].gen = mcpGen /\ mcpSup'[i].port = mcpPort
        /\ \A j \in McpIds \ {i} : mcpSup'[j] = mcpSup[j] BY <1>1, <1>2 DEF McpTyped, McpNoSup
  <1>4. McpOwnInv' BY <1>1, <1>2, <1>3 DEF McpHands, McpOwnInv, McpHolds, McpTyped
  <1>5. McpAlive(mcpSlot)' <=> McpAlive(mcpSlot) BY <1>2 DEF McpAlive
  <1>6. ASSUME ~mcpRaced' PROVE McpPortInv'
    <2>1. McpPortInv /\ ~McpElsewhere(mcpPort) BY <1>2, <1>6 DEF McpHands, McpRacedInv
    <2>2. /\ \A j \in McpIds \ {i} : McpMayStore(j)' <=> McpMayStore(j)
          /\ \A j \in McpIds : McpMayStore(j)' => mcpSup'[j].port = mcpPort
      BY <1>2, <1>3, <2>1 DEF McpMayStore, McpElsewhere
    <2>3. McpAlive(mcpSlot)' => mcpKid'[mcpSlot'].port = mcpPort
      BY <1>2, <1>5, <2>1 DEF McpElsewhere
    <2>4. \A j \in McpIds : mcpSup'[j].pc \in {"check", "store"} =>
            mcpKid'[mcpSup'[j].kid].state = "up" BY <1>1, <1>2, <1>3, <2>1 DEF McpPortInv
    <2>5. \A k \in McpKids : McpAlive(k)' => McpHeld(k)'
      BY <1>1, <1>2, <1>3, <2>1 DEF McpPortInv, McpAlive, McpHeld
    <2> QED BY <2>2, <2>3, <2>4, <2>5 DEF McpPortInv
  <1>7. McpKilling => McpKilling' BY DEF McpSpawn, McpReturn, McpKilling, McpTyped
  <1>8. McpLateInv' BY <1>1, <1>2, <1>3, <1>5, <1>7 DEF McpHands, McpLateInv
  <1> QED BY <1>4, <1>6, <1>8 DEF McpHands, McpRacedInv

LEMMA McpHandsStopGen ==
  ASSUME McpTyped, McpHands, NEW c \in McpCallers, McpStopGen(c)
  PROVE  McpHands'
  <1>1. /\ mcpGen' = mcpGen + 1 /\ mcpRaced' = mcpRaced
        /\ mcpLate' = (mcpLate \/ \E i \in McpIds : mcpSup[i].pc = "store")
        /\ UNCHANGED <<mcpSup, mcpSlot, mcpKid>> BY DEF McpStopGen
  <1>2. McpOwnInv' BY <1>1 DEF McpHands, McpOwnInv, McpHolds, McpTyped, McpSups
  <1>3. McpKilling' BY DEF McpStopGen, McpGo, McpKilling, McpTyped, McpCallRecords
  <1>4. McpLateInv' BY <1>1, <1>3 DEF McpHands, McpLateInv
  <1>5. \A i \in McpIds : McpMayStore(i)' => McpMayStore(i)
    BY <1>1 DEF McpMayStore, McpHands, McpOwnInv, McpTyped, McpSups
  <1>6. McpRacedInv' BY <1>1, <1>5 DEF McpHands, McpRacedInv, McpPortInv, McpAlive, McpHeld
  <1> QED BY <1>2, <1>4, <1>6 DEF McpHands

LEMMA McpHandsStopKill ==
  ASSUME McpTyped, McpHands, NEW c \in McpCallers, McpStopKill(c)
  PROVE  McpHands'
  <1>1. /\ mcpSlot' = 0 /\ mcpKid' = McpKilled(mcpSlot)
        /\ UNCHANGED <<mcpGen, mcpSup, mcpRaced, mcpLate>> BY DEF McpStopKill, mcpHistory
  <1>2. /\ mcpSlot # 0 => mcpKid'[mcpSlot].state = "dead"
        /\ \A l \in McpKids \ {mcpSlot} : mcpKid'[l] = mcpKid[l] BY <1>1, McpKilledKid DEF McpTyped
  <1>3. \A i \in McpIds : McpHolds(i) =>
          mcpSup[i].kid \in McpKids /\ mcpKid'[mcpSup[i].kid] = mcpKid[mcpSup[i].kid]
    BY <1>2 DEF McpHands, McpOwnInv
  <1>4. 0 \notin McpKids BY McpAssumption DEF McpKids
  <1>5. McpOwnInv' BY <1>1, <1>2, <1>3, <1>4 DEF McpHands, McpOwnInv, McpHolds
  <1>6. \A k \in McpKids : McpAlive(k)' => k # mcpSlot /\ McpAlive(k) BY <1>2, <1>4 DEF McpAlive
  <1>7. McpRacedInv' BY <1>1, <1>3, <1>6 DEF McpHands, McpRacedInv, McpPortInv, McpMayStore,
    McpAlive, McpHeld, McpHolds
  <1>8. McpLateInv' BY <1>1 DEF McpHands, McpLateInv, McpAlive
  <1> QED BY <1>5, <1>7, <1>8 DEF McpHands

LEMMA McpHandsTry ==
  ASSUME McpTyped, McpHands, NEW i \in McpIds, McpTry(i)
  PROVE  McpHands'
  <1> DEFINE k == McpOneOf(mcpKid, McpNoKid)
  <1>1. k \in McpKids /\ mcpKid[k].state = "none" /\ k # 0
    BY SMTT(30), McpOneIsFresh, McpAssumption DEF McpTry, McpTyped, McpNoKid, McpKids
  <1>2. /\ mcpKid' = [mcpKid EXCEPT ![k] = [state |-> "starting", port |-> mcpSup[i].port]]
        /\ mcpSup' = [mcpSup EXCEPT ![i].pc = "wait", ![i].kid = k, ![i].tries = @ + 1]
        /\ UNCHANGED <<mcpGen, mcpSlot, mcpRaced, mcpLate, mcpCall>> /\ mcpSup[i].pc = "try"
    BY DEF McpTry, mcpServer, mcpHistory, mcpOrders
  <1> HIDE DEF k
  <1>3. /\ mcpKid'[k].state = "starting" /\ mcpKid'[k].port = mcpSup[i].port
        /\ \A l \in McpKids \ {k} : mcpKid'[l] = mcpKid[l] BY <1>1, <1>2 DEF McpTyped
  <1>4. /\ mcpSup'[i].pc = "wait" /\ mcpSup'[i].kid = k
        /\ mcpSup'[i].gen = mcpSup[i].gen /\ mcpSup'[i].port = mcpSup[i].port
        /\ \A j \in McpIds \ {i} : mcpSup'[j] = mcpSup[j] BY <1>2 DEF McpTyped, McpSups
  <1>5. /\ \A j \in McpIds \ {i} : McpHolds(j) => mcpSup[j].kid # k
        /\ mcpSlot # k BY <1>1 DEF McpHands, McpOwnInv
  <1>6. McpOwnInv'
    <2>1. \A j \in McpIds : McpHolds(j)' =>
         /\ mcpSup'[j].kid \in McpKids /\ mcpSlot' # mcpSup'[j].kid
         /\ mcpKid'[mcpSup'[j].kid].state # "none"
         /\ mcpSup'[j].pc # "wait" => mcpKid'[mcpSup'[j].kid].state # "starting"
         /\ mcpKid'[mcpSup'[j].kid].port = mcpSup'[j].port
      <3>1. ASSUME NEW j \in McpIds \ {i}, McpHolds(j)'
            PROVE  McpHolds(j) /\ mcpSup'[j] = mcpSup[j]
                   /\ mcpKid'[mcpSup[j].kid] = mcpKid[mcpSup[j].kid]
        BY <1>3, <1>4, <1>5, <3>1 DEF McpHands, McpOwnInv, McpHolds
      <3>2. ASSUME NEW j \in McpIds \ {i}, McpHolds(j)'
            PROVE  /\ mcpSup'[j].kid \in McpKids /\ mcpSlot' # mcpSup'[j].kid
                   /\ mcpKid'[mcpSup'[j].kid].state # "none"
                   /\ mcpSup'[j].pc # "wait" => mcpKid'[mcpSup'[j].kid].state # "starting"
                   /\ mcpKid'[mcpSup'[j].kid].port = mcpSup'[j].port
        <4>1. McpHolds(j) /\ mcpSup'[j] = mcpSup[j]
              /\ mcpKid'[mcpSup[j].kid] = mcpKid[mcpSup[j].kid] BY <3>1, <3>2
        <4>2. /\ mcpSup[j].kid \in McpKids /\ mcpSlot # mcpSup[j].kid
              /\ mcpKid[mcpSup[j].kid].state # "none"
              /\ mcpSup[j].pc # "wait" => mcpKid[mcpSup[j].kid].state # "starting"
              /\ mcpKid[mcpSup[j].kid].port = mcpSup[j].port BY <4>1 DEF McpHands, McpOwnInv
        <4> QED BY <1>2, <4>1, <4>2
      <3> QED BY ZenonT(30), <1>1, <1>2, <1>3, <1>4, <1>5, <3>2
    <2>2. \A j, l \in McpIds :
            McpHolds(j)' /\ McpHolds(l)' /\ mcpSup'[j].kid = mcpSup'[l].kid => j = l
      BY <1>4, <1>5 DEF McpHands, McpOwnInv, McpHolds
    <2>3. mcpSlot' # 0 => mcpKid'[mcpSlot'].state \in {"up", "dead"}
      BY <1>2, <1>3, <1>5 DEF McpHands, McpOwnInv, McpTyped, McpKids
    <2>4. \A l, m \in McpKids :
            mcpKid'[l].state = "up" /\ mcpKid'[m].state = "up" /\ mcpKid'[l].port = mcpKid'[m].port
              => l = m BY <1>3 DEF McpHands, McpOwnInv
    <2>5. \A j \in McpIds : mcpSup'[j].gen <= mcpGen' BY <1>2, <1>4 DEF McpHands, McpOwnInv
    <2> QED BY <2>1, <2>2, <2>3, <2>4, <2>5 DEF McpOwnInv
  <1>7. McpAlive(mcpSlot)' <=> McpAlive(mcpSlot) BY <1>2, <1>3, <1>5 DEF McpAlive, McpTyped, McpKids
  <1>8. ASSUME ~mcpRaced PROVE McpPortInv'
    <2>1. McpPortInv BY <1>8 DEF McpHands, McpRacedInv
    <2>2. \A j \in McpIds : /\ McpMayStore(j)' <=> McpMayStore(j)
                            /\ mcpSup'[j].port = mcpSup[j].port BY <1>2, <1>4 DEF McpMayStore
    <2>3. McpAlive(mcpSlot) => mcpKid'[mcpSlot] = mcpKid[mcpSlot] BY <1>2, <1>5 DEF McpTyped
    <2>4. \A j \in McpIds : mcpSup'[j].pc \in {"check", "store"} =>
            mcpKid'[mcpSup'[j].kid].state = "up"
      BY <1>3, <1>4, <1>5, <2>1 DEF McpHands, McpOwnInv, McpPortInv, McpHolds
    <2>5. ASSUME NEW l \in McpKids, McpAlive(l)' PROVE McpHeld(l)'
      <3>1. CASE l = k BY <1>4, <3>1 DEF McpHeld
      <3>2. CASE l # k
        <4>1. McpHeld(l) BY <1>3, <2>1, <2>5, <3>2 DEF McpPortInv, McpAlive
        <4> QED BY <1>2, <1>4, <4>1 DEF McpHeld
      <3> QED BY <3>1, <3>2
    <2>6. \A j \in McpIds : McpMayStore(j)' /\ McpAlive(mcpSlot)' =>
            mcpKid'[mcpSlot'].port = mcpSup'[j].port BY <1>2, <1>7, <2>1, <2>2, <2>3 DEF McpPortInv
    <2>7. \A j, l \in McpIds : McpMayStore(j)' /\ McpMayStore(l)' =>
            mcpSup'[j].port = mcpSup'[l].port BY <2>1, <2>2 DEF McpPortInv
    <2> QED BY <2>4, <2>5, <2>6, <2>7 DEF McpPortInv
  <1>9. McpLateInv' BY <1>2, <1>4, <1>7 DEF McpHands, McpLateInv, McpKilling
  <1> QED BY <1>2, <1>6, <1>8, <1>9 DEF McpHands, McpRacedInv

LEMMA McpHandsListen ==
  ASSUME McpTyped, McpHands, NEW k \in McpKids, McpListen(k)
  PROVE  McpHands'
  <1>1. /\ mcpKid[k].state = "starting"
        /\ mcpKid' = [mcpKid EXCEPT ![k].state = IF McpPortTaken(k) THEN "dead" ELSE "up"]
        /\ UNCHANGED <<mcpSlot, mcpGen, mcpSup, mcpCall, mcpRaced, mcpLate>>
    BY DEF McpListen, mcpServer, mcpOrders, mcpHistory
  <1>2. /\ mcpKid'[k].state \in {"dead", "up"} /\ mcpKid'[k].port = mcpKid[k].port
        /\ mcpKid'[k].state = "up" => ~McpPortTaken(k)
        /\ \A l \in McpKids \ {k} : mcpKid'[l] = mcpKid[l] BY <1>1 DEF McpTyped, McpKidRecords
  <1>3. mcpSlot # k BY <1>1 DEF McpHands, McpOwnInv, McpKids
  <1>4. mcpSlot # 0 => mcpKid'[mcpSlot] = mcpKid[mcpSlot] BY <1>2, <1>3 DEF McpTyped, McpKids
  <1>5. McpOwnInv'
    <2>1. \A j \in McpIds : McpHolds(j)' =>
            /\ mcpSup'[j].kid \in McpKids /\ mcpSlot' # mcpSup'[j].kid
            /\ mcpKid'[mcpSup'[j].kid].state # "none"
            /\ mcpSup'[j].pc # "wait" => mcpKid'[mcpSup'[j].kid].state # "starting"
            /\ mcpKid'[mcpSup'[j].kid].port = mcpSup'[j].port
      BY <1>1, <1>2 DEF McpHands, McpOwnInv, McpHolds
    <2>2. \A l, m \in McpKids :
            mcpKid'[l].state = "up" /\ mcpKid'[m].state = "up" /\ mcpKid'[l].port = mcpKid'[m].port
              => l = m BY <1>2 DEF McpHands, McpOwnInv, McpPortTaken
    <2> QED BY <1>1, <1>4, <2>1, <2>2 DEF McpHands, McpOwnInv, McpHolds
  <1>6. /\ McpAlive(mcpSlot)' <=> McpAlive(mcpSlot)
        /\ \A l \in McpKids : McpAlive(l)' => McpAlive(l) BY <1>1, <1>2, <1>4 DEF McpAlive
  <1>7. McpRacedInv'
    <2>1. ASSUME ~mcpRaced, NEW j \in McpIds, mcpSup[j].pc \in {"check", "store"}
          PROVE  mcpKid'[mcpSup[j].kid].state = "up"
      <3>1. mcpKid[mcpSup[j].kid].state = "up" /\ mcpSup[j].kid \in McpKids
        BY <2>1 DEF McpHands, McpOwnInv, McpHolds, McpRacedInv, McpPortInv
      <3>2. mcpSup[j].kid # k BY <1>1, <3>1
      <3> QED BY <1>2, <3>1, <3>2
    <2>2. McpAlive(mcpSlot) => mcpKid'[mcpSlot] = mcpKid[mcpSlot] BY <1>4 DEF McpAlive
    <2> QED BY <1>1, <1>6, <2>1, <2>2 DEF McpHands, McpRacedInv, McpPortInv, McpMayStore, McpHeld
  <1>8. McpLateInv' BY <1>1, <1>6 DEF McpHands, McpLateInv, McpKilling
  <1> QED BY <1>5, <1>7, <1>8 DEF McpHands

LEMMA McpHandsDies ==
  ASSUME McpTyped, McpHands, NEW k \in McpKids, McpDies(k)
  PROVE  McpHands'
  <1>1. /\ mcpKid[k].state = "up" /\ mcpKid' = McpKilled(k)
        /\ mcpRaced' = (mcpRaced \/ \E i \in McpIds : mcpSup[i].kid = k /\
                                       mcpSup[i].pc \in {"check", "store"})
        /\ UNCHANGED <<mcpSlot, mcpGen, mcpSup, mcpCall, mcpLate>>
    BY DEF McpDies, mcpServer, mcpOrders
  <1>2. k \in 0..McpMaxKids /\ k # 0 BY McpAssumption DEF McpKids
  <1>3. /\ mcpKid'[k].state = "dead" /\ mcpKid'[k].port = mcpKid[k].port
        /\ \A l \in McpKids \ {k} : mcpKid'[l] = mcpKid[l] BY <1>1, <1>2, McpKilledKid DEF McpTyped
  <1>4. mcpSlot # 0 => mcpSlot \in McpKids BY McpAssumption DEF McpTyped, McpKids
  <1>5. McpOwnInv'
    <2>1. \A j \in McpIds : McpHolds(j)' =>
            /\ mcpSup'[j].kid \in McpKids /\ mcpSlot' # mcpSup'[j].kid
            /\ mcpKid'[mcpSup'[j].kid].state # "none"
            /\ mcpSup'[j].pc # "wait" => mcpKid'[mcpSup'[j].kid].state # "starting"
            /\ mcpKid'[mcpSup'[j].kid].port = mcpSup'[j].port
      BY <1>1, <1>3 DEF McpHands, McpOwnInv, McpHolds
    <2>2. mcpSlot' # 0 => mcpKid'[mcpSlot'].state \in {"up", "dead"}
      BY <1>1, <1>3, <1>4 DEF McpHands, McpOwnInv
    <2> QED BY <1>1, <1>3, <2>1, <2>2 DEF McpHands, McpOwnInv, McpHolds
  <1>6. /\ McpAlive(mcpSlot)' => McpAlive(mcpSlot) /\ mcpKid'[mcpSlot] = mcpKid[mcpSlot]
        /\ \A l \in McpKids : McpAlive(l)' => McpAlive(l) BY <1>1, <1>3, <1>4 DEF McpAlive
  <1>7. ASSUME ~mcpRaced' PROVE McpPortInv'
    <2>1. McpPortInv BY <1>1, <1>7 DEF McpHands, McpRacedInv
    <2>2. \A j \in McpIds : mcpSup[j].pc \in {"check", "store"} =>
            mcpKid'[mcpSup[j].kid].state = "up"
      BY <1>1, <1>3, <1>7, <2>1 DEF McpHands, McpOwnInv, McpHolds, McpPortInv
    <2> QED BY <1>1, <1>6, <2>1, <2>2 DEF McpPortInv, McpMayStore, McpHeld
  <1>8. McpLateInv' BY <1>1, <1>6 DEF McpHands, McpLateInv, McpKilling
  <1> QED BY <1>5, <1>7, <1>8 DEF McpHands, McpRacedInv

LEMMA McpHandsSettle ==
  ASSUME McpTyped, McpHands, NEW i \in McpIds, McpSettle(i) \/ McpReport(i)
  PROVE  McpHands'
  <1>1. /\ UNCHANGED <<mcpKid, mcpSlot, mcpGen, mcpCall, mcpRaced, mcpLate>>
        /\ mcpSup'[i].kid = mcpSup[i].kid /\ mcpSup'[i].gen = mcpSup[i].gen
        /\ mcpSup'[i].port = mcpSup[i].port
        /\ \A j \in McpIds \ {i} : mcpSup'[j] = mcpSup[j]
    BY McpSupMoved DEF McpSettle, McpAfter, McpReport, McpTyped, mcpServer, mcpOrders, mcpHistory
  <1>2. \/ mcpSup[i].pc = "wait" /\ mcpSup'[i].pc = "check" /\ McpAlive(mcpSup[i].kid)
           /\ mcpKid[mcpSup[i].kid].state # "starting"
        \/ mcpSup[i].pc = "wait" /\ mcpSup'[i].pc \in {"try", "fail"} /\ ~McpAlive(mcpSup[i].kid)
        \/ mcpSup[i].pc \in {"clear", "fail"} /\ mcpSup'[i].pc = "ended"
    BY McpSupMoved DEF McpSettle, McpAfter, McpReport, McpTyped
  <1>3. McpOwnInv' BY <1>1, <1>2 DEF McpHands, McpOwnInv, McpHolds
  <1>4. \A k : McpAlive(k)' <=> McpAlive(k) BY <1>1 DEF McpAlive
  <1>5. ASSUME ~mcpRaced PROVE McpPortInv'
    <2>1. McpPortInv BY <1>5 DEF McpHands, McpRacedInv
    <2>2. \A j \in McpIds : /\ McpMayStore(j)' => McpMayStore(j)
                            /\ mcpSup'[j].port = mcpSup[j].port BY <1>1, <1>2 DEF McpMayStore
    <2>3. \A j \in McpIds : mcpSup'[j].pc \in {"check", "store"} =>
            mcpKid'[mcpSup'[j].kid].state = "up" BY <1>1, <1>2, <2>1 DEF McpPortInv, McpAlive
    <2>4. ASSUME NEW k \in McpKids, McpAlive(k)' PROVE McpHeld(k)'
      <3>1. McpHeld(k) /\ McpAlive(k) BY <1>4, <2>1, <2>4 DEF McpPortInv
      <3> QED BY <1>1, <1>2, <3>1 DEF McpHeld
    <2> QED BY <1>1, <1>4, <2>1, <2>2, <2>3, <2>4 DEF McpPortInv
  <1>6. McpLateInv' BY <1>1, <1>2, <1>4 DEF McpHands, McpLateInv, McpKilling
  <1> QED BY <1>1, <1>3, <1>5, <1>6 DEF McpHands, McpRacedInv

LEMMA McpHandsGivesUp ==
  ASSUME McpTyped, McpHands, NEW i \in McpIds, McpTryFails(i) \/ McpUnpolled(i)
  PROVE  McpHands'
  <1>1. /\ UNCHANGED <<mcpKid, mcpSlot, mcpGen, mcpCall, mcpLate>>
        /\ mcpSup'[i].kid = mcpSup[i].kid /\ mcpSup'[i].gen = mcpSup[i].gen
        /\ mcpSup'[i].port = mcpSup[i].port /\ mcpSup'[i].pc \in {"try", "fail"}
        /\ \A j \in McpIds \ {i} : mcpSup'[j] = mcpSup[j]
    BY McpSupMoved DEF McpTryFails, McpUnpolled, McpCounted, McpAfter, McpTyped, McpSups, mcpServer,
      mcpHistory
  <1>2. /\ mcpSup[i].pc \in {"try", "wait"}
        /\ mcpRaced' \/ (mcpSup[i].pc = "try" /\ mcpRaced' = mcpRaced)
    BY DEF McpTryFails, McpUnpolled, mcpHistory
  <1>3. McpOwnInv' BY <1>1, <1>2 DEF McpHands, McpOwnInv, McpHolds
  <1>4. \A k : McpAlive(k)' <=> McpAlive(k) BY <1>1 DEF McpAlive
  <1>5. ASSUME ~mcpRaced' PROVE McpPortInv'
    <2>1. McpPortInv /\ mcpSup[i].pc = "try" BY <1>2, <1>5 DEF McpHands, McpRacedInv
    <2>2. \A j \in McpIds : /\ McpMayStore(j)' => McpMayStore(j)
                            /\ mcpSup'[j].port = mcpSup[j].port BY <1>1, <2>1 DEF McpMayStore
    <2>3. \A j \in McpIds : mcpSup'[j].pc \in {"check", "store"} =>
            mcpKid'[mcpSup'[j].kid].state = "up" BY <1>1, <2>1 DEF McpPortInv
    <2>4. ASSUME NEW k \in McpKids, McpAlive(k)' PROVE McpHeld(k)'
      <3>1. McpHeld(k) BY <1>4, <2>1, <2>4 DEF McpPortInv
      <3> QED BY <1>1, <2>1, <3>1 DEF McpHeld
    <2> QED BY <1>1, <1>4, <2>1, <2>2, <2>3, <2>4 DEF McpPortInv
  <1>6. McpLateInv' BY <1>1, <1>2, <1>4 DEF McpHands, McpLateInv, McpKilling
  <1> QED BY <1>3, <1>5, <1>6 DEF McpHands, McpRacedInv

LEMMA McpHandsCheck ==
  ASSUME McpTyped, McpHands, NEW i \in McpIds, McpCheck(i)
  PROVE  McpHands'
  <1>1. /\ UNCHANGED <<mcpSlot, mcpGen, mcpCall, mcpRaced, mcpLate>> /\ mcpSup[i].pc = "check"
        /\ mcpSup'[i].kid = mcpSup[i].kid /\ mcpSup'[i].gen = mcpSup[i].gen
        /\ mcpSup'[i].port = mcpSup[i].port
        /\ \A j \in McpIds \ {i} : mcpSup'[j] = mcpSup[j]
    BY McpSupMoved DEF McpCheck, McpTyped, mcpServer, mcpOrders, mcpHistory
  <1>2. CASE mcpSup[i].gen = mcpGen
    <2>1. mcpSup'[i].pc = "store" /\ mcpKid' = mcpKid BY <1>2, McpSupMoved DEF McpCheck, McpTyped
    <2>2. McpOwnInv' BY <1>1, <2>1 DEF McpHands, McpOwnInv, McpHolds
    <2>3. \A k : McpAlive(k)' <=> McpAlive(k) BY <2>1 DEF McpAlive
    <2>4. \A j \in McpIds : McpMayStore(j)' <=> McpMayStore(j) BY <1>1, <1>2, <2>1 DEF McpMayStore
    <2>5. McpRacedInv' BY <1>1, <2>1, <2>3, <2>4 DEF McpHands, McpRacedInv, McpPortInv, McpHeld
    <2>6. McpLateInv' BY <1>1, <1>2, <2>1, <2>3 DEF McpHands, McpLateInv, McpKilling
    <2> QED BY <2>2, <2>5, <2>6 DEF McpHands
  <1>3. CASE mcpSup[i].gen # mcpGen
    <2> DEFINE k == mcpSup[i].kid
    <2>1. mcpSup'[i].pc = "ended" /\ mcpKid' = McpKilled(k)
      BY <1>3, McpSupMoved DEF McpCheck, McpOutdated, McpTyped
    <2>2. k \in McpKids /\ mcpSlot # k /\ k \in 0..McpMaxKids /\ k # 0
      BY <1>1, McpAssumption DEF McpHands, McpOwnInv, McpHolds, McpKids
    <2>3. /\ mcpKid'[k].state = "dead" /\ mcpKid'[k].port = mcpKid[k].port
          /\ \A l \in McpKids \ {k} : mcpKid'[l] = mcpKid[l]
      BY <2>1, <2>2, McpKilledKid DEF McpTyped
    <2>4. \A j \in McpIds : McpHolds(j)' =>
            /\ j # i /\ McpHolds(j) /\ mcpSup'[j] = mcpSup[j]
            /\ mcpKid'[mcpSup[j].kid] = mcpKid[mcpSup[j].kid]
      BY <1>1, <2>1, <2>3 DEF McpHands, McpOwnInv, McpHolds
    <2>5. mcpSlot # 0 => mcpKid'[mcpSlot] = mcpKid[mcpSlot]
      BY <2>2, <2>3, McpAssumption DEF McpTyped, McpKids
    <2>6. McpOwnInv'
      <3>1. \A l, m \in McpKids :
              mcpKid'[l].state = "up" /\ mcpKid'[m].state = "up" /\ mcpKid'[l].port = mcpKid'[m].port
                => l = m BY <2>3 DEF McpHands, McpOwnInv
      <3>2. \A j \in McpIds : mcpSup'[j].gen <= mcpGen' BY <1>1 DEF McpHands, McpOwnInv
      <3>3. \A j \in McpIds : McpHolds(j)' =>
              /\ mcpSup'[j].kid \in McpKids /\ mcpSlot' # mcpSup'[j].kid
              /\ mcpKid'[mcpSup'[j].kid].state # "none"
              /\ mcpSup'[j].pc # "wait" => mcpKid'[mcpSup'[j].kid].state # "starting"
              /\ mcpKid'[mcpSup'[j].kid].port = mcpSup'[j].port
        BY <1>1, <2>4 DEF McpHands, McpOwnInv
      <3>4. \A j, l \in McpIds :
              McpHolds(j)' /\ McpHolds(l)' /\ mcpSup'[j].kid = mcpSup'[l].kid => j = l
        BY <2>4 DEF McpHands, McpOwnInv
      <3>5. mcpSlot' # 0 => mcpKid'[mcpSlot'].state \in {"up", "dead"}
        BY <1>1, <2>5 DEF McpHands, McpOwnInv
      <3> QED BY <3>1, <3>2, <3>3, <3>4, <3>5 DEF McpOwnInv
    <2>7. /\ McpAlive(mcpSlot)' <=> McpAlive(mcpSlot)
          /\ \A l \in McpKids : McpAlive(l)' => McpAlive(l) /\ l # k
      BY <1>1, <2>3, <2>5 DEF McpAlive
    <2> HIDE DEF k
    <2>8. McpRacedInv'
      <3>1. \A j \in McpIds : /\ McpMayStore(j)' => McpMayStore(j)
                              /\ mcpSup'[j].port = mcpSup[j].port BY <1>1, <2>1 DEF McpMayStore
      <3>2. \A j \in McpIds : mcpSup'[j].pc \in {"check", "store"} => McpHolds(j)' /\ j # i
        BY <2>1 DEF McpHolds
      <3>3. McpAlive(mcpSlot) => mcpKid'[mcpSlot] = mcpKid[mcpSlot] BY <2>5 DEF McpAlive
      <3>4. ASSUME NEW l \in McpKids, McpAlive(l)', McpHeld(l) PROVE McpHeld(l)'
        BY <1>1, <2>1, <2>7, <3>4 DEF McpHeld, k
      <3> QED BY <1>1, <2>4, <2>7, <3>1, <3>2, <3>3, <3>4 DEF McpHands, McpRacedInv, McpPortInv
    <2>9. McpLateInv' BY <1>1, <2>1, <2>7 DEF McpHands, McpLateInv, McpKilling
    <2> QED BY <2>6, <2>8, <2>9 DEF McpHands
  <1> QED BY <1>2, <1>3

LEMMA McpHandsStore ==
  ASSUME McpTyped, McpHands, NEW i \in McpIds, McpStore(i)
  PROVE  McpHands'
  <1>1. /\ mcpSlot' = mcpSup[i].kid /\ UNCHANGED <<mcpGen, mcpKid, mcpCall, mcpRaced, mcpLate>>
        /\ mcpSup[i].pc = "store" /\ mcpSup'[i].pc = "clear"
        /\ mcpSup'[i].kid = mcpSup[i].kid /\ mcpSup'[i].gen = mcpSup[i].gen
        /\ mcpSup'[i].port = mcpSup[i].port
        /\ \A j \in McpIds \ {i} : mcpSup'[j] = mcpSup[j]
    BY McpSupMoved DEF McpStore, McpTyped, mcpOrders, mcpHistory
  <1>2. /\ McpHolds(i) /\ mcpSup[i].kid \in McpKids /\ mcpSlot # mcpSup[i].kid
        /\ mcpKid[mcpSup[i].kid].state \in {"up", "dead"}
        /\ mcpKid[mcpSup[i].kid].port = mcpSup[i].port
    BY <1>1 DEF McpHands, McpOwnInv, McpHolds, McpTyped, McpKidRecords
  <1>3. \A j \in McpIds : McpHolds(j)' => j # i /\ McpHolds(j) /\ mcpSup'[j] = mcpSup[j]
    BY <1>1 DEF McpHolds
  <1>4. \A j \in McpIds : McpHolds(j)' => mcpSup[j].kid # mcpSup[i].kid
    BY <1>2, <1>3 DEF McpHands, McpOwnInv
  <1>5. McpOwnInv'
    <2>1. \A j \in McpIds : McpHolds(j)' =>
            /\ mcpSup'[j].kid \in McpKids /\ mcpSlot' # mcpSup'[j].kid
            /\ mcpKid'[mcpSup'[j].kid].state # "none"
            /\ mcpSup'[j].pc # "wait" => mcpKid'[mcpSup'[j].kid].state # "starting"
            /\ mcpKid'[mcpSup'[j].kid].port = mcpSup'[j].port
      BY <1>1, <1>3, <1>4 DEF McpHands, McpOwnInv
    <2>2. \A j, l \in McpIds :
            McpHolds(j)' /\ McpHolds(l)' /\ mcpSup'[j].kid = mcpSup'[l].kid => j = l
      BY <1>3 DEF McpHands, McpOwnInv
    <2>3. \A j \in McpIds : mcpSup'[j].gen <= mcpGen' BY <1>1 DEF McpHands, McpOwnInv
    <2> QED BY <1>1, <1>2, <2>1, <2>2, <2>3 DEF McpHands, McpOwnInv
  <1>6. \A k : McpAlive(k)' <=> McpAlive(k) BY <1>1 DEF McpAlive
  <1>7. ASSUME ~mcpRaced PROVE McpPortInv'
    <2>1. McpPortInv BY <1>7 DEF McpHands, McpRacedInv
    <2>2. McpMayStore(i) BY <1>1 DEF McpMayStore
    <2>3. ~McpAlive(mcpSlot)
      <3>1. SUFFICES ASSUME McpAlive(mcpSlot) PROVE FALSE OBVIOUS
      <3>2. mcpSlot \in McpKids BY <3>1, McpAssumption DEF McpAlive, McpTyped, McpKids
      <3>3. mcpKid[mcpSlot].state = "up" /\ mcpKid[mcpSlot].port = mcpSup[i].port
        BY <2>1, <2>2, <3>1 DEF McpPortInv, McpAlive, McpHands, McpOwnInv
      <3>4. mcpKid[mcpSup[i].kid].state = "up" BY <1>1, <2>1 DEF McpPortInv
      <3> QED BY <1>2, <3>2, <3>3, <3>4 DEF McpHands, McpOwnInv
    <2>4. \A j \in McpIds : /\ McpMayStore(j)' => McpMayStore(j)
                            /\ mcpSup'[j].port = mcpSup[j].port BY <1>1 DEF McpMayStore
    <2>5. \A j \in McpIds : McpMayStore(j)' => mcpKid'[mcpSlot'].port = mcpSup'[j].port
      BY <1>1, <1>2, <2>1, <2>2, <2>4 DEF McpPortInv
    <2>6. \A j \in McpIds : mcpSup'[j].pc \in {"check", "store"} =>
            mcpKid'[mcpSup'[j].kid].state = "up" BY <1>1, <2>1 DEF McpPortInv
    <2>7. ASSUME NEW k \in McpKids, McpAlive(k)' PROVE McpHeld(k)'
      <3>1. McpHeld(k) /\ k # mcpSlot BY <1>6, <2>1, <2>3, <2>7 DEF McpPortInv
      <3> QED BY <1>1, <3>1 DEF McpHeld
    <2>8. \A j, l \in McpIds : McpMayStore(j)' /\ McpMayStore(l)' =>
            mcpSup'[j].port = mcpSup'[l].port BY <2>1, <2>4 DEF McpPortInv
    <2> QED BY <2>5, <2>6, <2>7, <2>8 DEF McpPortInv
  <1>8. McpLateInv' BY <1>1 DEF McpHands, McpLateInv
  <1> QED BY <1>1, <1>5, <1>7, <1>8 DEF McpHands, McpRacedInv

\* A command that is not at its kill leaves those that are.
LEMMA McpKillingStays ==
  ASSUME McpTyped, NEW c \in McpCallers, mcpCall[c].pc \notin {"kill", "rekill"},
         \A d \in McpCallers \ {c} : mcpCall'[d] = mcpCall[d]
  PROVE  McpKilling => McpKilling' BY DEF McpKilling

LEMMA McpHandsStep == McpTyped /\ McpHands /\ [McpNext]_mcpVars => McpHands'
  <1> SUFFICES ASSUME McpTyped, McpHands, [McpNext]_mcpVars PROVE McpHands' OBVIOUS
  <1> USE DEF mcpServer, mcpBridges, mcpOrders, mcpHistory
  <1>1. ASSUME NEW c \in McpCallers,
               McpBegin(c) \/ McpStartPort(c) \/ McpStartSender(c) \/ McpSlotTest(c)
                 \/ McpStopTake(c) \/ McpSetPort(c) \/ McpReadOn(c) \/ McpReadDown(c)
        PROVE  McpHands'
    <2>1. /\ UNCHANGED <<mcpKid, mcpSup, mcpGen, mcpRaced, mcpLate>>
          /\ mcpSlot' = mcpSlot \/ (mcpSlot' = 0 /\ ~McpAlive(mcpSlot))
      BY <1>1 DEF McpBegin, McpOrder, McpStartPort, McpStartSender, McpSlotTest, McpStopTake,
        McpSetPort, McpReadOn, McpReadDown
    <2>2. mcpCall[c].pc \notin {"kill", "rekill"}
      BY <1>1 DEF McpBegin, McpOrder, McpStartPort, McpStartSender, McpSlotTest, McpStopTake,
        McpSetPort, McpReadOn, McpReadDown
    <2>3. \A d \in McpCallers \ {c} : mcpCall'[d] = mcpCall[d]
      BY <1>1 DEF McpBegin, McpOrder, McpStartPort, McpStartSender, McpSlotTest, McpStopTake,
        McpSetPort, McpReadOn, McpReadDown, McpGo, McpReturn, McpTyped
    <2> QED BY <2>1, <2>2, <2>3, McpKillingStays, McpHandsStay
  <1>2. ASSUME NEW c \in McpCallers, McpCallStep(c) PROVE McpHands'
    BY <1>1, <1>2, McpHandsSpawn, McpHandsStopGen, McpHandsStopKill DEF McpCallStep
  <1>3. ASSUME NEW i \in McpIds, McpSupStep(i) PROVE McpHands'
    BY <1>3, McpHandsTry, McpHandsSettle, McpHandsGivesUp, McpHandsCheck, McpHandsStore DEF McpSupStep
  <1>4. ASSUME NEW i \in McpIds, McpBridgeStep(i) PROVE McpHands'
    <2>1. UNCHANGED <<mcpSlot, mcpKid, mcpSup, mcpGen, mcpCall, mcpRaced, mcpLate>>
      BY <1>4 DEF McpBridgeStep, McpBind, McpDrained, McpClearPort, McpClearSender
    <2> QED BY <2>1, McpHandsStay DEF McpKilling
  <1>5. CASE McpInfo BY <1>5, McpHandsStay DEF McpInfo, McpKilling
  <1>6. CASE UNCHANGED mcpVars BY <1>6, McpHandsStay DEF mcpVars, McpKilling
  <1> QED BY <1>1, <1>2, <1>3, <1>4, <1>5, <1>6, McpHandsListen, McpHandsDies DEF McpNext

LEMMA McpReachableStep == McpTyped /\ McpBridgeReachable /\ [McpNext]_mcpVars => McpBridgeReachable'
  <1> SUFFICES ASSUME McpTyped, McpBridgeReachable, [McpNext]_mcpVars PROVE McpBridgeReachable'
    OBVIOUS
  <1> USE DEF mcpServer, mcpBridges, mcpOrders, mcpHistory
  <1>0. mcpBridge \in [McpIds -> McpBridgeRecords] /\ mcpTx \in 0..McpMaxRuns BY DEF McpTyped
  <1>1. CASE UNCHANGED <<mcpTx, mcpBridge>> BY <1>1 DEF McpBridgeReachable
  <1>2. ASSUME NEW c \in McpCallers, McpStartSender(c), mcpTx = 0 PROVE McpBridgeReachable'
    <2> DEFINE i == McpOneOf(mcpBridge, McpNoBridge)
    <2>1. mcpTx' = i /\ mcpBridge' = [mcpBridge EXCEPT ![i].pc = "bind"] BY <1>2 DEF McpStartSender
    <2>2. i \in McpIds BY <1>0, <1>2, McpOneIsFresh DEF McpStartSender
    <2> HIDE DEF i
    <2> QED BY <1>0, <1>2, <2>1, <2>2, McpAssumption DEF McpBridgeReachable, McpIds
  <1>3. ASSUME NEW c \in McpCallers, McpStopTake(c) PROVE McpBridgeReachable'
    BY <1>0, <1>3, McpToldBridge DEF McpStopTake, McpBridgeReachable
  <1>4. ASSUME NEW i \in McpIds, McpBind(i) \/ McpDrained(i) \/ McpClearPort(i)
        PROVE  McpBridgeReachable'
    <2>1. \A j \in McpIds : /\ mcpBridge'[j].told = mcpBridge[j].told
                            /\ mcpBridge'[j].pc \in {"bind", "serve"} =>
                                 mcpBridge[j].pc \in {"bind", "serve"}
      BY <1>0, <1>4 DEF McpBind, McpDrained, McpClearPort, McpBridgeGo, McpBridgeRecords
    <2>2. mcpTx' = mcpTx BY <1>4 DEF McpBind, McpDrained, McpClearPort
    <2> QED BY <2>1, <2>2 DEF McpBridgeReachable
  <1>5. ASSUME NEW i \in McpIds, McpClearSender(i) PROVE McpBridgeReachable'
    <2> DEFINE b == McpTold(mcpTx)
    <2>1. /\ b \in [McpIds -> McpBridgeRecords]
          /\ mcpTx # 0 => b[mcpTx].told
          /\ \A j \in McpIds : b[j].pc = mcpBridge[j].pc
          /\ \A j \in McpIds \ {mcpTx} : b[j] = mcpBridge[j] BY <1>0, McpToldBridge
    <2>2. mcpBridge' = [b EXCEPT ![i].pc = "ended"] BY <1>5 DEF McpClearSender
    <2> HIDE DEF b
    <2>3. \A j \in McpIds : /\ mcpBridge'[j].told = b[j].told
                            /\ mcpBridge'[j].pc \in {"bind", "serve"} =>
                                 b[j].pc \in {"bind", "serve"} BY <2>1, <2>2 DEF McpBridgeRecords
    <2>4. ASSUME NEW j \in McpIds, mcpBridge'[j].pc \in {"bind", "serve"}
          PROVE  mcpBridge'[j].told
      <3>1. mcpTx = j \/ mcpBridge[j].told BY <2>1, <2>3, <2>4 DEF McpBridgeReachable
      <3>2. CASE mcpTx = j BY <2>1, <2>3, <3>2, McpAssumption DEF McpIds
      <3>3. CASE mcpTx # j BY <2>1, <2>3, <3>1, <3>3
      <3> QED BY <3>2, <3>3
    <2> QED BY <2>4 DEF McpBridgeReachable
  <1>6. ASSUME NEW c \in McpCallers, McpBegin(c) \/ McpCallStep(c) PROVE McpBridgeReachable'
    <2>1. CASE McpBegin(c) BY <1>1, <2>1 DEF McpBegin, McpOrder
    <2>2. CASE McpStartSender(c) BY <1>1, <1>2, <2>2 DEF McpStartSender
    <2>3. CASE McpStartPort(c) \/ McpSlotTest(c) \/ McpSpawn(c)
      BY <1>1, <2>3 DEF McpStartPort, McpSlotTest, McpSpawn
    <2>4. CASE McpStopGen(c) \/ McpStopKill(c) \/ McpSetPort(c) \/ McpReadOn(c) \/ McpReadDown(c)
      BY <1>1, <2>4 DEF McpStopGen, McpStopKill, McpSetPort, McpReadOn, McpReadDown
    <2> QED BY <1>3, <1>6, <2>1, <2>2, <2>3, <2>4 DEF McpCallStep
  <1>7. ASSUME NEW i \in McpIds, McpSupStep(i) PROVE UNCHANGED <<mcpTx, mcpBridge>>
    BY <1>7 DEF McpSupStep, McpTry, McpTryFails, McpSettle, McpUnpolled, McpCheck, McpStore, McpReport
  <1>8. ASSUME NEW k \in McpKids, McpListen(k) \/ McpDies(k) PROVE UNCHANGED <<mcpTx, mcpBridge>>
    BY <1>8 DEF McpListen, McpDies
  <1>9. McpInfo \/ UNCHANGED mcpVars => UNCHANGED <<mcpTx, mcpBridge>> BY DEF McpInfo, mcpVars
  <1> QED BY <1>1, <1>4, <1>5, <1>6, <1>7, <1>8, <1>9 DEF McpNext, McpBridgeStep

\* Every sidecar that runs can be killed, a stop wins and a bridge that
\* runs can be told to stop (commands/mcp.rs:233-284).
THEOREM McpSafe == McpSpec => []McpSound
  <1>1. McpHands /\ McpBridgeReachable => McpSound
    BY DEF McpHands, McpRacedInv, McpPortInv, McpLateInv, McpKilling, McpSound, McpNoOrphan,
      McpStopWins
  <1> QED BY <1>1, McpTypedInit, McpTypedStep, McpHandsInit, McpHandsStep, McpReachableStep, PTL DEF
    McpSpec

=============================================================================
