-------------------------- MODULE Analyzers_proofs --------------------------
\* Proofs about the analyzers of the window.  Window_proofs has the lemmas
\* about sequences and finite sets that they share with the other stores.
EXTENDS Analyzers, Window_proofs

----------------------------------------
\* The sets the parts of the state are in.
AnzOuts == {"ok", "error", "nochain", "cancelled"}
AnzNews ==
    [ev : {"chain", "restored"}, chain : AnzProper] \cup [ev : {"uninstall"}, id : AnzProcs]
      \cup [ev : {"progress"}]
      \cup [ev : {"complete"}, caller : {"ui", "agent"}, job : AnzJobs, out : AnzOuts]
AnzCommands == [op : {"set", "get", "stop"}, chain : AnzProper, job : AnzJobs \cup {0}]
AnzJobSet ==
    [pc : {"none", "set", "ready", "asked", "runs", "answered", "done"},
     caller : {"ui", "agent"}, want : SUBSET AnzProcs, gen : Nat, left : Nat,
     stopped : BOOLEAN, out : AnzOuts \cup {"none"}]

AnzOwnSet == [job : AnzJobs \cup {0}, settled : BOOLEAN, awaits : Int]

AnzTypes ==
    /\ anzChain \in AnzProper /\ anzInstalled \in SUBSET AnzProcs
    /\ anzSent \in Seq(AnzCommands) /\ anzEvents \in Seq(AnzNews)
    /\ anzMine \in AnzProper \cup {AnzUnset} /\ anzTemplate \in AnzProper
    /\ anzAdded \subseteq anzMine.members
    /\ anzAsk \in [pc : {"sent", "answered", "done"}, chain : AnzProper]
    /\ anzJob \in [AnzJobs -> AnzJobSet] /\ anzStored \in AnzJobs \cup {0}
    /\ anzRow \in [running : BOOLEAN, result : AnzJobs \cup {0}, error : BOOLEAN]
    /\ anzGen \in Nat /\ anzToken \in 0 .. anzGen /\ anzOwn \in AnzOwnSet
    /\ anzStop \in {"no", "sent", "answered"}

AnzCallTypes ==
    /\ anzUntold \in Seq([chain : AnzProper, job : AnzJobs \cup {0}])
    /\ anzJoin \in [job : AnzJobs \cup {0}, at : {"read", "stored", "told"}, chain : AnzProper]
    /\ anzCatalog \in SUBSET AnzProcs

\* A change of the chain, of an agent in events or of the window in sent.
AnzIsChain(events, k) == events[k].ev = "chain"
AnzIsSet(sent, k) == sent[k].op = "set"
AnzNoSets(sent) == \A k \in DOMAIN sent : ~AnzIsSet(sent, k)
AnzIsGone(events, k, p) == events[k].ev = "uninstall" /\ events[k].id = p

\* A change told by an agent and one of the window pass each other.
AnzPassing(sent, events) ==
    /\ \E i \in DOMAIN sent : sent[i].op = "set"
    /\ \E i \in DOMAIN events : AnzForeign(events[i])

\* As long as they do not: the last change on its way is the chain of the
\* side that made it, for the agents the last chain they told of.
AnzLinked(events, sent, mine, chain) ==
    /\ ~AnzPassing(sent, events)
    /\ \A k \in DOMAIN sent :
         AnzIsSet(sent, k) /\ (\A l \in DOMAIN sent : l > k => ~AnzIsSet(sent, l))
           /\ mine # AnzUnset => sent[k].chain = mine
    /\ AnzNoSets(sent) =>
         /\ \A k \in DOMAIN events :
              AnzIsChain(events, k) /\ (\A l \in DOMAIN events : l > k => ~AnzIsChain(events, l)) =>
                events[k].chain = chain
         /\ mine # AnzUnset /\ (\A k \in DOMAIN events : ~AnzIsChain(events, k)) => mine = chain

\* The last chain told is the stored one when nothing is left to tell.
AnzTells(untold, sent, told, chain) ==
    IF untold = <<>> THEN told = chain
    ELSE untold[Len(untold)].chain = chain /\ AnzNoSets(sent)

\* The processors the window has heard to be gone are nowhere, and of
\* those an agent's chain has it will hear after that chain.
AnzKnown(events, installed) ==
    {p \in AnzProcs \ installed : \A k \in DOMAIN events : ~AnzIsGone(events, k, p)}
AnzLive(events, k, installed) ==
    \A p \in events[k].chain.members :
      p \in installed \/ \E l \in DOMAIN events : l > k /\ AnzIsGone(events, l, p)
AnzFresh(ghost) == {"unread", "revived"} \cap ghost = {}
AnzKeeps(ghost, seen) == {"crossed", "unread", "revived"} \cap ghost \in SUBSET seen
AnzNowhere(events, mine, template, installed, ghost) ==
    /\ AnzKnown(events, installed) \cap template.members = {}
    /\ \A k \in DOMAIN events :
         /\ events[k].ev = "uninstall" => events[k].id \notin installed
         /\ events[k].ev = "restored" => k = 1 /\ AnzKnown(events, installed) = {}
    /\ "unread" \notin ghost /\ mine = AnzUnset => AnzKnown(events, installed) = {}
    /\ "revived" \notin ghost =>
         \A k \in DOMAIN events : AnzIsChain(events, k) => AnzLive(events, k, installed)
    /\ AnzFresh(ghost) => AnzKnown(events, installed) \cap mine.members = {}

----------------------------------------
\* Queues.
LEMMA AnzAppended ==
    ASSUME NEW S, NEW q \in Seq(S), NEW y \in S
    PROVE  /\ Append(q, y) \in Seq(S) /\ Len(q) \in Nat /\ DOMAIN q = 1 .. Len(q)
           /\ DOMAIN Append(q, y) = 1 .. Len(q) + 1
           /\ Append(q, y)[Len(q) + 1] = y /\ \A k \in 1 .. Len(q) : Append(q, y)[k] = q[k]
OBVIOUS

LEMMA AnzUntoldIs ==
    ASSUME AnzCallTypes, NEW i \in DOMAIN anzUntold
    PROVE  anzUntold[i].chain \in AnzProper
<1>1. PICK T : T = [chain : AnzProper, job : AnzJobs \cup {0}] OBVIOUS
<1>2. anzUntold \in Seq(T) BY <1>1 DEF AnzCallTypes
<1>3. anzUntold[i] \in T BY <1>2
<1> QED BY <1>1, <1>3

LEMMA AnzNewsFields ==
    ASSUME NEW e \in AnzNews
    PROVE  /\ e.ev \in {"chain", "restored", "uninstall", "progress", "complete"}
           /\ e.ev \in {"chain", "restored"} => e.chain \in AnzProper
           /\ e.ev = "uninstall" => e.id \in AnzProcs
           /\ e.ev = "complete" => e.caller \in {"ui", "agent"} /\ e.job \in AnzJobs /\ e.out \in AnzOuts
BY DEF AnzNews

LEMMA AnzUnsetIsNone == AnzUnset \notin AnzProper
<1> SUFFICES ASSUME AnzUnset \in AnzProper PROVE FALSE OBVIOUS
<1>1. PICK m, d : AnzUnset = [members |-> m, off |-> d] BY DEF AnzProper, AnzChains
<1>2. DOMAIN AnzUnset = {"members", "off", "unset"} BY DEF AnzUnset
<1>3. DOMAIN AnzUnset = {"members", "off"} BY <1>1
<1> QED BY <1>2, <1>3

LEMMA AnzProperIs ==
    ASSUME NEW m, NEW d
    PROVE  /\ m \in SUBSET AnzProcs /\ d \in SUBSET m => [members |-> m, off |-> d] \in AnzProper
           /\ \A c \in AnzProper : /\ c.members \in SUBSET AnzProcs /\ c.off \in SUBSET c.members
                                   /\ c = [members |-> c.members, off |-> c.off]
BY DEF AnzProper, AnzChains

----------------------------------------
\* What each kind of step does to the link of the two chains.

\* A push: what is on its way is what the window has.
LEMMA AnzLinkedByPush ==
    ASSUME NEW events \in Seq(AnzNews), NEW sent \in Seq(AnzCommands), NEW mine, NEW chain,
           NEW c \in AnzCommands, c.op = "set", mine # AnzUnset => c.chain = mine,
           ~AnzPassing(Append(sent, c), events)
    PROVE  AnzLinked(events, Append(sent, c), mine, chain)
<1>1. PICK n, t : n = Len(sent) /\ t = Append(sent, c) OBVIOUS
<1>2. /\ n \in Nat /\ DOMAIN sent = 1 .. n /\ DOMAIN t = 1 .. n + 1 /\ t[n + 1] = c
      /\ \A k \in 1 .. n : t[k] = sent[k] BY <1>1, AnzAppended
<1>3. n + 1 \in DOMAIN t /\ AnzIsSet(t, n + 1) BY <1>2 DEF AnzIsSet
<1>4. \A k \in DOMAIN events : ~AnzIsChain(events, k)
  BY <1>1, <1>3 DEF AnzPassing, AnzForeign, AnzIsSet, AnzIsChain
<1>5. \A k \in DOMAIN t :
        (\A l \in DOMAIN t : l > k => ~AnzIsSet(t, l)) => k = n + 1 BY <1>2, <1>3
<1>6. ~AnzPassing(t, events) /\ ~AnzNoSets(t) BY <1>1, <1>3 DEF AnzNoSets
<1>7. \A k \in DOMAIN t :
        AnzIsSet(t, k) /\ (\A l \in DOMAIN t : l > k => ~AnzIsSet(t, l)) /\ mine # AnzUnset =>
          t[k].chain = mine BY <1>2, <1>5
<1> QED BY <1>1, <1>4, <1>6, <1>7 DEF AnzLinked

\* Another command.
LEMMA AnzLinkedByCommand ==
    ASSUME NEW events \in Seq(AnzNews), NEW sent \in Seq(AnzCommands), NEW mine, NEW chain,
           NEW c \in AnzCommands, c.op # "set", AnzLinked(events, sent, mine, chain)
    PROVE  AnzLinked(events, Append(sent, c), mine, chain)
<1>1. PICK n, t : n = Len(sent) /\ t = Append(sent, c) OBVIOUS
<1>2. /\ n \in Nat /\ DOMAIN sent = 1 .. n /\ DOMAIN t = 1 .. n + 1 /\ t[n + 1] = c
      /\ \A k \in 1 .. n : t[k] = sent[k] BY <1>1, AnzAppended
<1>3. \A k \in DOMAIN t : AnzIsSet(t, k) => k \in DOMAIN sent /\ AnzIsSet(sent, k)
  BY <1>2 DEF AnzIsSet
<1>4. \A k \in DOMAIN sent : k \in DOMAIN t /\ (AnzIsSet(t, k) <=> AnzIsSet(sent, k)) /\ t[k] = sent[k]
  BY <1>2 DEF AnzIsSet
<1>5. AnzNoSets(t) => AnzNoSets(sent) BY <1>4 DEF AnzNoSets
<1>6. ~AnzPassing(t, events) BY <1>3 DEF AnzLinked, AnzPassing, AnzIsSet
<1>7. ASSUME NEW k \in DOMAIN t, AnzIsSet(t, k), mine # AnzUnset,
             \A l \in DOMAIN t : l > k => ~AnzIsSet(t, l)
      PROVE  t[k].chain = mine
  <2>1. k \in DOMAIN sent /\ AnzIsSet(sent, k) /\ t[k] = sent[k] BY <1>3, <1>4, <1>7
  <2>2. \A l \in DOMAIN sent : l > k => ~AnzIsSet(sent, l) BY <1>4, <1>7
  <2> QED BY <1>7, <2>1, <2>2 DEF AnzLinked
<1> QED BY <1>1, <1>5, <1>6, <1>7 DEF AnzLinked

\* The back end takes the first command.
LEMMA AnzLinkedByReceive ==
    ASSUME NEW events \in Seq(AnzNews), NEW sent \in Seq(AnzCommands), NEW mine, NEW chain, NEW next,
           sent # <<>>, AnzLinked(events, sent, mine, chain),
           next = IF Head(sent).op = "set" THEN Head(sent).chain ELSE chain
    PROVE  AnzLinked(events, Tail(sent), mine, next)
<1>1. PICK n \in Nat : n = Len(sent) OBVIOUS
<1>2. PICK t, c : t = Tail(sent) /\ c = Head(sent) OBVIOUS
<1>3. /\ n >= 1 /\ DOMAIN sent = 1 .. n /\ DOMAIN t = 1 .. n - 1 /\ c = sent[1]
      /\ \A k \in 1 .. n - 1 : t[k] = sent[k + 1] BY <1>1, <1>2, ArtHeadTail
<1>4. \A k \in DOMAIN t : k + 1 \in DOMAIN sent /\ (AnzIsSet(t, k) <=> AnzIsSet(sent, k + 1))
  BY <1>3 DEF AnzIsSet
<1>5. ~AnzPassing(t, events) BY <1>4 DEF AnzLinked, AnzPassing, AnzIsSet
<1>6. ASSUME NEW k \in DOMAIN t, AnzIsSet(t, k), mine # AnzUnset,
             \A l \in DOMAIN t : l > k => ~AnzIsSet(t, l)
      PROVE  t[k].chain = mine
  <2>1. k + 1 \in DOMAIN sent /\ AnzIsSet(sent, k + 1) /\ t[k] = sent[k + 1] /\ k \in Nat
    BY <1>3, <1>4, <1>6
  <2>2. ASSUME NEW l \in DOMAIN sent, l > k + 1 PROVE ~AnzIsSet(sent, l)
    <3>1. l - 1 \in DOMAIN t /\ l - 1 > k /\ (l - 1) + 1 = l BY <1>3, <2>1, <2>2
    <3> QED BY <1>4, <1>6, <3>1
  <2> QED BY <1>6, <2>1, <2>2 DEF AnzLinked
<1>7. CASE c.op = "set"
  <2>1. 1 \in DOMAIN sent /\ AnzIsSet(sent, 1) /\ next = sent[1].chain
    BY <1>2, <1>3, <1>7 DEF AnzIsSet
  <2>2. \A k \in DOMAIN events : ~AnzIsChain(events, k)
    BY <2>1 DEF AnzLinked, AnzPassing, AnzForeign, AnzIsSet, AnzIsChain
  <2>3. ASSUME AnzNoSets(t), mine # AnzUnset PROVE mine = next
    <3>1. ASSUME NEW l \in DOMAIN sent, l > 1 PROVE ~AnzIsSet(sent, l)
      <4>1. l - 1 \in DOMAIN t /\ (l - 1) + 1 = l BY <1>3, <3>1
      <4> QED BY <1>4, <2>3, <4>1 DEF AnzNoSets
    <3> QED BY <2>1, <2>3, <3>1 DEF AnzLinked
  <2> QED BY <1>2, <1>5, <1>6, <2>2, <2>3 DEF AnzLinked
<1>8. CASE c.op # "set"
  <2>1. next = chain BY <1>2, <1>8
  <2>2. ASSUME AnzNoSets(t) PROVE AnzNoSets(sent)
    <3> SUFFICES ASSUME NEW l \in DOMAIN sent, AnzIsSet(sent, l) PROVE FALSE BY DEF AnzNoSets
    <3>1. l # 1 BY <1>3, <1>8 DEF AnzIsSet
    <3>2. l - 1 \in DOMAIN t /\ (l - 1) + 1 = l BY <1>3, <3>1
    <3> QED BY <1>4, <2>2, <3>2 DEF AnzNoSets
  <2> QED BY <1>2, <1>5, <1>6, <2>1, <2>2 DEF AnzLinked
<1> QED BY <1>7, <1>8

\* An event joins that is no change of the chain.
LEMMA AnzLinkedByEvent ==
    ASSUME NEW events \in Seq(AnzNews), NEW sent \in Seq(AnzCommands), NEW mine, NEW chain,
           NEW e \in AnzNews, e.ev # "chain", AnzLinked(events, sent, mine, chain)
    PROVE  AnzLinked(Append(events, e), sent, mine, chain)
<1>1. PICK n, t : n = Len(events) /\ t = Append(events, e) OBVIOUS
<1>2. /\ n \in Nat /\ DOMAIN events = 1 .. n /\ DOMAIN t = 1 .. n + 1 /\ t[n + 1] = e
      /\ t \in Seq(AnzNews) /\ \A k \in 1 .. n : t[k] = events[k] BY <1>1, AnzAppended
<1>3. \A k \in DOMAIN t : AnzIsChain(t, k) => k \in DOMAIN events /\ AnzIsChain(events, k)
  BY <1>2 DEF AnzIsChain
<1>4. \A k \in DOMAIN events : k \in DOMAIN t /\ t[k] = events[k] /\ (AnzIsChain(t, k) <=> AnzIsChain(events, k))
  BY <1>2 DEF AnzIsChain
<1>5. ~AnzPassing(sent, t) BY <1>3 DEF AnzLinked, AnzPassing, AnzForeign, AnzIsChain
<1>6. ASSUME AnzNoSets(sent), NEW k \in DOMAIN t, AnzIsChain(t, k),
             \A l \in DOMAIN t : l > k => ~AnzIsChain(t, l)
      PROVE  t[k].chain = chain
  <2>1. k \in DOMAIN events /\ AnzIsChain(events, k) /\ t[k] = events[k] BY <1>3, <1>4, <1>6
  <2>2. \A l \in DOMAIN events : l > k => ~AnzIsChain(events, l) BY <1>4, <1>6
  <2> QED BY <1>6, <2>1, <2>2 DEF AnzLinked
<1>7. ASSUME AnzNoSets(sent), mine # AnzUnset, \A k \in DOMAIN t : ~AnzIsChain(t, k)
      PROVE  mine = chain
  <2>1. \A k \in DOMAIN events : ~AnzIsChain(events, k) BY <1>4, <1>7
  <2> QED BY <1>7, <2>1 DEF AnzLinked
<1> QED BY <1>1, <1>5, <1>6, <1>7 DEF AnzLinked

\* An agent's change is told.
LEMMA AnzLinkedByChange ==
    ASSUME NEW events \in Seq(AnzNews), NEW sent \in Seq(AnzCommands), NEW mine, NEW chain, NEW next \in AnzProper,
           NEW e \in AnzNews, e.ev = "chain", e.chain = next, ~AnzPassing(sent, Append(events, e)),
           AnzLinked(events, sent, mine, chain)
    PROVE  AnzLinked(Append(events, e), sent, mine, next)
<1>1. PICK n, t : n = Len(events) /\ t = Append(events, e) OBVIOUS
<1>2. /\ n \in Nat /\ DOMAIN events = 1 .. n /\ DOMAIN t = 1 .. n + 1 /\ t[n + 1] = e
      /\ t \in Seq(AnzNews) /\ \A k \in 1 .. n : t[k] = events[k] BY <1>1, AnzAppended
<1>3. n + 1 \in DOMAIN t /\ AnzIsChain(t, n + 1) /\ t[n + 1].chain = next BY <1>2 DEF AnzIsChain
<1>4. AnzNoSets(sent) BY <1>1, <1>3 DEF AnzNoSets, AnzPassing, AnzForeign, AnzIsChain, AnzIsSet
<1>5. \A k \in DOMAIN t : (\A l \in DOMAIN t : l > k => ~AnzIsChain(t, l)) => k = n + 1
  BY <1>2, <1>3
<1> QED BY <1>1, <1>3, <1>4, <1>5 DEF AnzLinked, AnzNoSets

\* The window hears the first event: a change of the chain is taken.
LEMMA AnzLinkedByHearing ==
    ASSUME NEW events \in Seq(AnzNews), NEW sent \in Seq(AnzCommands), NEW mine, NEW chain, NEW next,
           events # <<>>, AnzLinked(events, sent, mine, chain), AnzUnset \notin AnzProper,
           next = IF Head(events).ev = "chain" THEN Head(events).chain ELSE mine
    PROVE  AnzLinked(Tail(events), sent, next, chain)
<1>1. PICK n \in Nat : n = Len(events) OBVIOUS
<1>2. PICK t, e : t = Tail(events) /\ e = Head(events) OBVIOUS
<1>3. /\ n >= 1 /\ DOMAIN events = 1 .. n /\ DOMAIN t = 1 .. n - 1 /\ e = events[1]
      /\ \A k \in 1 .. n - 1 : t[k] = events[k + 1] BY <1>1, <1>2, ArtHeadTail
<1>4. \A k \in 1 .. n - 1 : k + 1 \in DOMAIN events /\ (AnzIsChain(t, k) <=> AnzIsChain(events, k + 1))
  BY <1>3 DEF AnzIsChain
<1>5. \A k \in 2 .. n : k - 1 \in DOMAIN t /\ (AnzIsChain(events, k) <=> AnzIsChain(t, k - 1)) /\ k - 1 \in 1 .. n - 1
  <2> TAKE k \in 2 .. n
  <2>1. k - 1 \in 1 .. n - 1 /\ (k - 1) + 1 = k OBVIOUS
  <2> QED BY <1>3, <1>4, <2>1
<1>6. ~AnzPassing(sent, t) BY <1>3, <1>4 DEF AnzLinked, AnzPassing, AnzForeign, AnzIsChain
<1>7. ASSUME AnzNoSets(sent), NEW k \in DOMAIN t, AnzIsChain(t, k),
             \A l \in DOMAIN t : l > k => ~AnzIsChain(t, l)
      PROVE  t[k].chain = chain
  <2>1. k \in 1 .. n - 1 /\ k + 1 \in DOMAIN events /\ AnzIsChain(events, k + 1) /\ t[k] = events[k + 1]
    BY <1>3, <1>4, <1>7
  <2>2. ASSUME NEW l \in DOMAIN events, l > k + 1 PROVE ~AnzIsChain(events, l)
    <3>1. l \in 2 .. n /\ l - 1 > k BY <1>3, <2>1, <2>2
    <3> QED BY <1>5, <1>7, <3>1
  <2> QED BY <1>7, <2>1, <2>2 DEF AnzLinked
<1>8. CASE e.ev = "chain"
  <2>1. 1 \in DOMAIN events /\ AnzIsChain(events, 1) /\ next = events[1].chain
    BY <1>2, <1>3, <1>8 DEF AnzIsChain
  <2>2. AnzNoSets(sent)
    BY <2>1 DEF AnzLinked, AnzNoSets, AnzPassing, AnzForeign, AnzIsChain, AnzIsSet
  <2>3. ASSUME \A k \in DOMAIN t : ~AnzIsChain(t, k) PROVE next = chain
    <3>1. ASSUME NEW l \in DOMAIN events, l > 1 PROVE ~AnzIsChain(events, l)
      <4>1. l \in 2 .. n BY <1>3, <3>1
      <4> QED BY <1>5, <2>3, <4>1
    <3> QED BY <2>1, <2>2, <3>1 DEF AnzLinked
  <2>5. \A k \in DOMAIN sent : ~AnzIsSet(sent, k) BY <2>2 DEF AnzNoSets
  <2> QED BY <1>2, <1>6, <1>7, <2>3, <2>5 DEF AnzLinked
<1>9. CASE e.ev # "chain"
  <2>1. next = mine /\ ~AnzIsChain(events, 1) BY <1>2, <1>3, <1>9 DEF AnzIsChain
  <2>2. ASSUME AnzNoSets(sent), mine # AnzUnset, \A k \in DOMAIN t : ~AnzIsChain(t, k)
        PROVE  mine = chain
    <3>1. ASSUME NEW l \in DOMAIN events PROVE ~AnzIsChain(events, l)
      <4>1. l = 1 \/ l \in 2 .. n BY <1>3
      <4> QED BY <1>5, <2>1, <2>2, <4>1
    <3> QED BY <2>2, <3>1 DEF AnzLinked
  <2>4. \A k \in DOMAIN sent :
          AnzIsSet(sent, k) /\ (\A l \in DOMAIN sent : l > k => ~AnzIsSet(sent, l)) /\ mine # AnzUnset =>
            sent[k].chain = mine BY DEF AnzLinked
  <2> QED BY <1>2, <1>6, <1>7, <2>1, <2>2, <2>4 DEF AnzLinked
<1> QED BY <1>8, <1>9

----------------------------------------
\* What the window has heard to be gone.
LEMMA AnzKnownByEvent ==
    ASSUME NEW events \in Seq(AnzNews), NEW e \in AnzNews, NEW installed \in SUBSET AnzProcs
    PROVE  /\ e.ev # "uninstall" => AnzKnown(Append(events, e), installed) = AnzKnown(events, installed)
           /\ e.ev = "uninstall" =>
                AnzKnown(Append(events, e), installed \ {e.id}) \in SUBSET AnzKnown(events, installed)
<1>1. PICK n, t : n = Len(events) /\ t = Append(events, e) OBVIOUS
<1>2. /\ n \in Nat /\ DOMAIN events = 1 .. n /\ DOMAIN t = 1 .. n + 1 /\ t[n + 1] = e
      /\ \A k \in 1 .. n : t[k] = events[k] BY <1>1, AnzAppended
<1>3. \A p : (\A k \in DOMAIN t : ~AnzIsGone(t, k, p)) <=>
               (\A k \in DOMAIN events : ~AnzIsGone(events, k, p)) /\ ~(e.ev = "uninstall" /\ e.id = p)
  <2> TAKE p
  <2>1. \A k \in 1 .. n : AnzIsGone(t, k, p) <=> AnzIsGone(events, k, p) BY <1>2 DEF AnzIsGone
  <2>2. AnzIsGone(t, n + 1, p) <=> (e.ev = "uninstall" /\ e.id = p) BY <1>2 DEF AnzIsGone
  <2>3. \A k \in DOMAIN t : k \in 1 .. n \/ k = n + 1 BY <1>2
  <2>4. n + 1 \in DOMAIN t /\ \A k \in 1 .. n : k \in DOMAIN t BY <1>2
  <2> QED BY <1>2, <2>1, <2>2, <2>3, <2>4
<1> QED BY <1>1, <1>3 DEF AnzKnown

LEMMA AnzKnownByHearing ==
    ASSUME NEW events \in Seq(AnzNews), events # <<>>, NEW installed \in SUBSET AnzProcs
    PROVE  /\ Head(events).ev # "uninstall" => AnzKnown(Tail(events), installed) = AnzKnown(events, installed)
           /\ Head(events).ev = "uninstall" =>
                \A p \in AnzKnown(Tail(events), installed) : p \in AnzKnown(events, installed) \/ p = Head(events).id
<1>1. PICK n \in Nat : n = Len(events) OBVIOUS
<1>2. PICK t, e : t = Tail(events) /\ e = Head(events) OBVIOUS
<1>3. /\ n >= 1 /\ DOMAIN events = 1 .. n /\ DOMAIN t = 1 .. n - 1 /\ e = events[1]
      /\ \A k \in 1 .. n - 1 : t[k] = events[k + 1] BY <1>1, <1>2, ArtHeadTail
<1>4. \A p : (\A k \in DOMAIN events : ~AnzIsGone(events, k, p)) <=>
               (\A k \in DOMAIN t : ~AnzIsGone(t, k, p)) /\ ~(e.ev = "uninstall" /\ e.id = p)
  <2> TAKE p
  <2>1. \A k \in 1 .. n - 1 : k + 1 \in DOMAIN events /\ (AnzIsGone(t, k, p) <=> AnzIsGone(events, k + 1, p))
    BY <1>3 DEF AnzIsGone
  <2>2. AnzIsGone(events, 1, p) <=> (e.ev = "uninstall" /\ e.id = p) BY <1>3 DEF AnzIsGone
  <2>3. \A k \in DOMAIN events : k = 1 \/ (k - 1 \in 1 .. n - 1 /\ (k - 1) + 1 = k) BY <1>3
  <2>4. 1 \in DOMAIN events BY <1>3
  <2> QED BY <1>3, <2>1, <2>2, <2>3, <2>4
<1> QED BY <1>2, <1>4 DEF AnzKnown

\* Only what a change of the chain brings can spoil it.
LEMMA AnzLiveByEvent ==
    ASSUME NEW events \in Seq(AnzNews), NEW e \in AnzNews, NEW installed, NEW k \in DOMAIN events,
           NEW rest, AnzLive(events, k, installed),
           \A p \in installed : p \in rest \/ (e.ev = "uninstall" /\ e.id = p)
    PROVE  AnzLive(Append(events, e), k, rest)
<1>1. PICK n, t : n = Len(events) /\ t = Append(events, e) OBVIOUS
<1>2. /\ n \in Nat /\ DOMAIN events = 1 .. n /\ DOMAIN t = 1 .. n + 1 /\ t[n + 1] = e
      /\ \A l \in 1 .. n : t[l] = events[l] BY <1>1, AnzAppended
<1>3. n + 1 \in DOMAIN t /\ n + 1 > k /\ t[k] = events[k] BY <1>2
<1>4. ASSUME NEW p \in t[k].chain.members
      PROVE  p \in rest \/ \E l \in DOMAIN t : l > k /\ AnzIsGone(t, l, p)
  <2>1. CASE p \in installed BY <1>2, <1>3, <2>1 DEF AnzIsGone
  <2>2. CASE p \notin installed
    <3>1. PICK l \in DOMAIN events : l > k /\ AnzIsGone(events, l, p)
      BY <1>3, <1>4, <2>2 DEF AnzLive
    <3>2. l \in DOMAIN t /\ AnzIsGone(t, l, p) BY <1>2, <3>1 DEF AnzIsGone
    <3> QED BY <3>1, <3>2
  <2> QED BY <2>1, <2>2
<1> QED BY <1>1, <1>4 DEF AnzLive

LEMMA AnzNowhereByEvent ==
    ASSUME NEW events \in Seq(AnzNews), NEW mine, NEW template, NEW installed \in SUBSET AnzProcs,
           NEW ghost, NEW e \in AnzNews, e.ev \in {"chain", "progress", "complete"},
           AnzNowhere(events, mine, template, installed, ghost),
           e.ev = "chain" /\ "revived" \notin ghost => e.chain.members \in SUBSET installed
    PROVE  AnzNowhere(Append(events, e), mine, template, installed, ghost)
<1>1. PICK n, t : n = Len(events) /\ t = Append(events, e) OBVIOUS
<1>2. /\ n \in Nat /\ DOMAIN events = 1 .. n /\ DOMAIN t = 1 .. n + 1 /\ t[n + 1] = e
      /\ \A k \in 1 .. n : t[k] = events[k] BY <1>1, AnzAppended
<1>3. AnzKnown(t, installed) = AnzKnown(events, installed) BY <1>1, AnzKnownByEvent
<1>4. \A k \in DOMAIN t : (k \in DOMAIN events /\ t[k] = events[k]) \/ t[k] = e BY <1>2
<1>5. \A k \in DOMAIN t :
        /\ t[k].ev = "uninstall" => t[k].id \notin installed
        /\ t[k].ev = "restored" => k = 1 /\ AnzKnown(events, installed) = {} BY <1>4 DEF AnzNowhere
<1>6. ASSUME "revived" \notin ghost, NEW k \in DOMAIN t, AnzIsChain(t, k)
      PROVE  AnzLive(t, k, installed)
  <2>1. CASE k \in DOMAIN events /\ t[k] = events[k]
    <3>1. AnzLive(events, k, installed) BY <1>6, <2>1 DEF AnzNowhere, AnzIsChain
    <3> QED BY <1>1, <2>1, <3>1, AnzLiveByEvent
  <2>2. CASE t[k] = e BY <1>6, <2>2 DEF AnzLive, AnzIsChain
  <2> QED BY <1>4, <2>1, <2>2
<1> QED BY <1>1, <1>3, <1>5, <1>6 DEF AnzNowhere

LEMMA AnzNowhereByUninstall ==
    ASSUME NEW events \in Seq(AnzNews), NEW mine, NEW template, NEW installed \in SUBSET AnzProcs,
           NEW ghost, NEW e \in AnzNews, e.ev = "uninstall",
           AnzNowhere(events, mine, template, installed, ghost)
    PROVE  AnzNowhere(Append(events, e), mine, template, installed \ {e.id}, ghost)
<1>1. PICK n, t : n = Len(events) /\ t = Append(events, e) OBVIOUS
<1>2. /\ n \in Nat /\ DOMAIN events = 1 .. n /\ DOMAIN t = 1 .. n + 1 /\ t[n + 1] = e
      /\ \A k \in 1 .. n : t[k] = events[k] BY <1>1, AnzAppended
<1>3. AnzKnown(t, installed \ {e.id}) \in SUBSET AnzKnown(events, installed)
  BY <1>1, AnzKnownByEvent
<1>4. \A k \in DOMAIN t : (k \in DOMAIN events /\ t[k] = events[k]) \/ t[k] = e BY <1>2
<1>5. \A k \in DOMAIN t :
        /\ t[k].ev = "uninstall" => t[k].id \notin installed \ {e.id}
        /\ t[k].ev = "restored" => k = 1 /\ AnzKnown(t, installed \ {e.id}) = {}
  BY <1>3, <1>4 DEF AnzNowhere
<1>6. ASSUME "revived" \notin ghost, NEW k \in DOMAIN t, AnzIsChain(t, k)
      PROVE  AnzLive(t, k, installed \ {e.id})
  <2>1. k \in DOMAIN events /\ t[k] = events[k] BY <1>4, <1>6 DEF AnzIsChain
  <2>2. AnzLive(events, k, installed) BY <1>6, <2>1 DEF AnzNowhere, AnzIsChain
  <2>3. \A p \in installed : p \in installed \ {e.id} \/ (e.ev = "uninstall" /\ e.id = p) OBVIOUS
  <2> QED BY <1>1, <2>1, <2>2, <2>3, AnzLiveByEvent
<1> QED BY <1>1, <1>3, <1>5, <1>6 DEF AnzNowhere

LEMMA AnzNowhereByMine ==
    ASSUME NEW events \in Seq(AnzNews), NEW mine, NEW template, NEW installed, NEW ghost, NEW next, NEW seen,
           next # AnzUnset, AnzKeeps(ghost, seen),
           AnzNowhere(events, mine, template, installed, ghost),
           AnzFresh(seen) => AnzKnown(events, installed) \cap next.members = {}
    PROVE  AnzNowhere(events, next, template, installed, seen)
<1>1. "revived" \notin seen => "revived" \notin ghost BY DEF AnzKeeps
<1> QED BY <1>1 DEF AnzNowhere

LEMMA AnzNowhereByGhost ==
    ASSUME NEW events, NEW mine, NEW template, NEW installed, NEW ghost, NEW seen,
           AnzKeeps(ghost, seen), AnzNowhere(events, mine, template, installed, ghost)
    PROVE  AnzNowhere(events, mine, template, installed, seen)
<1>1. /\ AnzFresh(seen) => AnzFresh(ghost)
      /\ "unread" \notin seen => "unread" \notin ghost
      /\ "revived" \notin seen => "revived" \notin ghost BY DEF AnzKeeps, AnzFresh
<1> QED BY <1>1 DEF AnzNowhere

LEMMA AnzNowhereByHearing ==
    ASSUME NEW events \in Seq(AnzNews), NEW mine, NEW template, NEW installed \in SUBSET AnzProcs,
           NEW ghost, NEW next, NEW cut, NEW seen, events # <<>>, AnzKeeps(ghost, seen),
           AnzNowhere(events, mine, template, installed, ghost),
           AnzKnown(Tail(events), installed) \cap cut.members = {},
           "unread" \notin seen /\ next = AnzUnset => AnzKnown(Tail(events), installed) = {},
           AnzFresh(seen) => AnzKnown(Tail(events), installed) \cap next.members = {}
    PROVE  AnzNowhere(Tail(events), next, cut, installed, seen)
<1>1. PICK n \in Nat : n = Len(events) OBVIOUS
<1>2. PICK t : t = Tail(events) OBVIOUS
<1>3. /\ DOMAIN events = 1 .. n /\ DOMAIN t = 1 .. n - 1 /\ \A k \in 1 .. n - 1 : t[k] = events[k + 1]
  BY <1>1, <1>2, ArtHeadTail
<1>4. \A k \in DOMAIN t : k + 1 \in DOMAIN events /\ k + 1 # 1 /\ t[k] = events[k + 1] BY <1>3
<1>5. \A k \in DOMAIN t : /\ t[k].ev = "uninstall" => t[k].id \notin installed
                          /\ t[k].ev # "restored" BY <1>4 DEF AnzNowhere
<1>6. ASSUME "revived" \notin seen, NEW k \in DOMAIN t, AnzIsChain(t, k)
      PROVE  AnzLive(t, k, installed)
  <2>1. "revived" \notin ghost BY <1>6 DEF AnzKeeps
  <2>2. AnzLive(events, k + 1, installed) BY <1>4, <1>6, <2>1 DEF AnzNowhere, AnzIsChain
  <2>3. ASSUME NEW p, NEW l \in DOMAIN events, l > k + 1, AnzIsGone(events, l, p)
        PROVE  \E m \in DOMAIN t : m > k /\ AnzIsGone(t, m, p)
    <3>1. l - 1 \in DOMAIN t /\ l - 1 > k /\ t[l - 1] = events[(l - 1) + 1] /\ (l - 1) + 1 = l
      BY <1>3, <2>3
    <3> QED BY <2>3, <3>1 DEF AnzIsGone
  <2>4. t[k].chain.members = events[k + 1].chain.members BY <1>4
  <2> QED BY <2>2, <2>3, <2>4 DEF AnzLive
<1> QED BY <1>2, <1>5, <1>6 DEF AnzNowhere

----------------------------------------
\* Types.
LEMMA AnzProperEdits ==
    ASSUME NEW c \in AnzProper
    PROVE  /\ \A x \in SUBSET AnzProcs : [c EXCEPT !.members = @ \cup x] \in AnzProper
           /\ \A ids : AnzWithout(c, ids) \in AnzProper /\ AnzWithout(c, ids).members = c.members \ ids
           /\ \A p \in c.members : [c EXCEPT !.off = @ \cup {p}] \in AnzProper
           /\ \A p : [c EXCEPT !.off = @ \ {p}] \in AnzProper
<1>1. PICK m, d : m \in SUBSET AnzProcs /\ d \in SUBSET m /\ c = [members |-> m, off |-> d]
  BY AnzProperIs
<1>2. ASSUME NEW x \in SUBSET AnzProcs PROVE [c EXCEPT !.members = @ \cup x] \in AnzProper
  <2>1. [c EXCEPT !.members = @ \cup x] = [members |-> m \cup x, off |-> d] BY <1>1
  <2>2. m \cup x \in SUBSET AnzProcs /\ d \in SUBSET (m \cup x) BY <1>1
  <2> QED BY <1>1, <2>1, <2>2, AnzProperIs
<1>3. ASSUME NEW ids PROVE AnzWithout(c, ids) \in AnzProper /\ AnzWithout(c, ids).members = c.members \ ids
  <2>0. PICK b : b = [c EXCEPT !.members = @ \ ids] OBVIOUS
  <2>3. b = [members |-> m \ ids, off |-> d] BY <1>1, <2>0
  <2>4. AnzWithout(c, ids) = [b EXCEPT !.off = @ \ ids] BY <1>1, <2>0 DEF AnzWithout
  <2>1. AnzWithout(c, ids) = [members |-> m \ ids, off |-> d \ ids] BY <2>3, <2>4
  <2>2. m \ ids \in SUBSET AnzProcs /\ d \ ids \in SUBSET (m \ ids) BY <1>1
  <2> QED BY <1>1, <2>1, <2>2, AnzProperIs
<1>4. ASSUME NEW p \in c.members PROVE [c EXCEPT !.off = @ \cup {p}] \in AnzProper
  <2>1. [c EXCEPT !.off = @ \cup {p}] = [members |-> m, off |-> d \cup {p}] BY <1>1
  <2>2. d \cup {p} \in SUBSET m BY <1>1, <1>4
  <2> QED BY <1>1, <2>1, <2>2, AnzProperIs
<1>5. ASSUME NEW p PROVE [c EXCEPT !.off = @ \ {p}] \in AnzProper
  <2>1. [c EXCEPT !.off = @ \ {p}] = [members |-> m, off |-> d \ {p}] BY <1>1
  <2>2. d \ {p} \in SUBSET m BY <1>1
  <2> QED BY <1>1, <2>1, <2>2, AnzProperIs
<1> QED BY <1>2, <1>3, <1>4, <1>5

LEMMA AnzCurrentIs == AnzTypes => AnzCurrent \in AnzProper BY DEF AnzTypes, AnzCurrent

LEMMA AnzPushIs ==
    ASSUME AnzTypes, NEW chain \in AnzProper, NEW job \in AnzJobs \cup {0}
    PROVE  /\ [op |-> "set", chain |-> chain, job |-> job] \in AnzCommands
           /\ AnzPushed(chain, job) \in Seq(AnzCommands)
<1>1. [op |-> "set", chain |-> chain, job |-> job] \in AnzCommands BY DEF AnzCommands
<1> QED BY <1>1, AnzAppended DEF AnzTypes, AnzPushed

LEMMA AnzSetMineIs ==
    ASSUME NEW chain \in AnzProper, NEW added, AnzSetMine(chain, added)
    PROVE  /\ anzMine' = chain /\ anzMine' \in AnzProper \cup {AnzUnset}
           /\ anzAdded' \subseteq anzMine'.members BY DEF AnzSetMine

LEMMA AnzTakeIs ==
    ASSUME NEW chain \in AnzProper, NEW want \in SUBSET AnzProcs
    PROVE  /\ AnzTake(chain, want) \in AnzProper
           /\ AnzTake(chain, want).members = chain.members \cup want
<1>1. PICK m, d : m \in SUBSET AnzProcs /\ d \in SUBSET m /\ chain = [members |-> m, off |-> d]
  BY AnzProperIs
<1>2. m \cup want \in SUBSET AnzProcs /\ d \ want \in SUBSET (m \cup want) BY <1>1
<1> QED BY <1>1, <1>2, AnzProperIs DEF AnzTake

LEMMA AnzCompleteIs ==
    ASSUME AnzTypes, NEW j \in AnzJobs, NEW out \in AnzOuts
    PROVE  AnzComplete(j, out) \in AnzNews BY DEF AnzTypes, AnzComplete, AnzNews, AnzJobSet

LEMMA AnzJobsAreNat == AnzJobs \in SUBSET Nat /\ 0 \notin AnzJobs BY AnzAssumption DEF AnzJobs

LEMMA AnzEmptyIs == AnzEmpty \in AnzProper BY AnzProperIs DEF AnzEmpty

LEMMA AnzTypesInit == AnzInit => AnzTypes
<1> SUFFICES ASSUME AnzInit PROVE AnzTypes OBVIOUS
<1>1. [members |-> AnzProcs, off |-> {}] \in AnzProper /\ AnzEmpty \in AnzProper
  BY AnzProperIs, AnzEmptyIs
<1>2. anzChain \in AnzProper /\ anzTemplate \in AnzProper BY <1>1 DEF AnzInit
<1>3. anzSent \in Seq(AnzCommands)
  <2>1. [op |-> "get", chain |-> AnzEmpty, job |-> 0] \in AnzCommands BY <1>1 DEF AnzCommands
  <2>2. PICK c \in AnzCommands : c = [op |-> "get", chain |-> AnzEmpty, job |-> 0] BY <2>1
  <2>3. anzSent = <<c>> BY <2>2 DEF AnzInit
  <2> QED BY <2>3
<1>4. anzEvents \in Seq(AnzNews)
  <2>1. [ev |-> "restored", chain |-> anzChain] \in AnzNews BY <1>2 DEF AnzNews
  <2>2. PICK e \in AnzNews : e = [ev |-> "restored", chain |-> anzChain] BY <2>1
  <2>3. anzEvents = <<>> \/ anzEvents = <<e>> BY <2>2 DEF AnzInit
  <2>4. <<>> \in Seq(AnzNews) /\ <<e>> \in Seq(AnzNews) OBVIOUS
  <2> QED BY <2>3, <2>4
<1>5. anzAsk \in [pc : {"sent", "answered", "done"}, chain : AnzProper] BY <1>1 DEF AnzInit
<1>6. AnzNoJob \in AnzJobSet BY AnzAssumption DEF AnzNoJob, AnzJobSet
<1>7. anzJob \in [AnzJobs -> AnzJobSet] BY <1>6 DEF AnzInit
<1> QED BY <1>2, <1>3, <1>4, <1>5, <1>7 DEF AnzInit, AnzTypes, AnzUnset, AnzNoOwn, AnzOwnSet

LEMMA AnzJobIs ==
    ASSUME NEW jobs \in [AnzJobs -> AnzJobSet], NEW j \in AnzJobs
    PROVE  /\ \A x \in {"none", "set", "ready", "asked", "runs", "answered", "done"} :
                [jobs EXCEPT ![j].pc = x] \in [AnzJobs -> AnzJobSet]
           /\ \A x \in Nat : [jobs EXCEPT ![j].left = x] \in [AnzJobs -> AnzJobSet]
           /\ \A x \in AnzJobSet : [jobs EXCEPT ![j] = x] \in [AnzJobs -> AnzJobSet]
BY DEF AnzJobSet

LEMMA AnzHeadIs ==
    ASSUME NEW S, NEW q \in Seq(S), q # <<>>
    PROVE  Head(q) \in S /\ Tail(q) \in Seq(S)
OBVIOUS

LEMMA AnzOwnFields ==
    ASSUME NEW own \in AnzOwnSet, NEW a \in Int, NEW r
    PROVE  /\ own.job \in AnzJobs \cup {0} /\ own.awaits \in Int
           /\ r = [own EXCEPT !.awaits = a] =>
                r \in AnzOwnSet /\ r.job = own.job /\ (r.settled <=> own.settled) /\ r.awaits = a
           /\ r = [own EXCEPT !.settled = TRUE] =>
                r \in AnzOwnSet /\ r.job = own.job /\ r.settled /\ r.awaits = own.awaits
           /\ r = AnzOwnDone(own) => r \in AnzOwnSet /\ r = IF own.settled /\ own.awaits <= 0 THEN AnzNoOwn ELSE own
           /\ AnzNoOwn.job = 0 /\ AnzNoOwn \in AnzOwnSet
<1>1. r = [own EXCEPT !.awaits = a] =>
                r \in AnzOwnSet /\ r.job = own.job /\ (r.settled <=> own.settled) /\ r.awaits = a
  BY DEF AnzOwnSet
<1>2. r = [own EXCEPT !.settled = TRUE] =>
                r \in AnzOwnSet /\ r.job = own.job /\ r.settled /\ r.awaits = own.awaits
  BY DEF AnzOwnSet
<1>3. AnzNoOwn.job = 0 /\ AnzNoOwn \in AnzOwnSet BY DEF AnzOwnSet, AnzNoOwn
<1>4. own.job \in AnzJobs \cup {0} /\ own.awaits \in Int BY DEF AnzOwnSet
<1> QED BY <1>1, <1>2, <1>3, <1>4 DEF AnzOwnDone

LEMMA AnzOwnTypes ==
    ASSUME NEW own \in AnzOwnSet
    PROVE  /\ AnzOwnDone(own) \in AnzOwnSet /\ [own EXCEPT !.settled = TRUE] \in AnzOwnSet
           /\ \A x \in Int : [own EXCEPT !.awaits = x] \in AnzOwnSet
           /\ own.awaits \in Int /\ own.job \in AnzJobs \cup {0}
<1>1. AnzOwnDone(own) \in {own, AnzNoOwn} /\ AnzNoOwn \in AnzOwnSet
  BY DEF AnzOwnDone, AnzNoOwn, AnzOwnSet
<1>2. [own EXCEPT !.settled = TRUE] \in AnzOwnSet /\ \A x \in Int : [own EXCEPT !.awaits = x] \in AnzOwnSet
  BY DEF AnzOwnSet
<1>3. own.awaits \in Int /\ own.job \in AnzJobs \cup {0} BY DEF AnzOwnSet
<1> QED BY <1>1, <1>2, <1>3

LEMMA AnzOverIs ==
    ASSUME AnzTypes, NEW j \in AnzJobs, NEW out \in AnzOuts, AnzOver(j, out)
    PROVE  /\ anzJob' = [anzJob EXCEPT ![j] = [anzJob[j] EXCEPT !.out = out,
                           !.pc = IF anzJob[j].caller = "agent" \/ anzJob[j].pc = "none"
                                  THEN "done" ELSE "answered"]]
           /\ anzJob' \in [AnzJobs -> AnzJobSet]
<1>1. PICK x : x = IF anzJob[j].caller = "agent" \/ anzJob[j].pc = "none" THEN "done" ELSE "answered"
  OBVIOUS
<1>2. anzJob[j] \in AnzJobSet /\ anzJob \in [AnzJobs -> AnzJobSet] /\ x \in {"done", "answered"}
  BY <1>1 DEF AnzTypes
<1>3. PICK job : job = anzJob[j] OBVIOUS
<1>4. [job EXCEPT !.out = out, !.pc = x] \in AnzJobSet
  <2>1. [job EXCEPT !.out = out] \in AnzJobSet BY <1>2, <1>3 DEF AnzJobSet
  <2>2. \A r \in AnzJobSet : [r EXCEPT !.pc = x] \in AnzJobSet BY <1>2 DEF AnzJobSet
  <2> QED BY <2>1, <2>2
<1>5. anzJob' = [anzJob EXCEPT ![j] = [job EXCEPT !.out = out, !.pc = x]]
  BY <1>1, <1>2, <1>3 DEF AnzOver
<1>6. anzJob' \in [AnzJobs -> AnzJobSet] BY <1>2, <1>4, <1>5
<1> QED BY <1>1, <1>3, <1>5, <1>6

\* An edit of the user takes its processors from the chain it is of, from
\* the default chain and from the catalog.
LEMMA AnzEditIs ==
    ASSUME AnzTypes, AnzEdit
    PROVE  \E next \in AnzProper :
             /\ AnzSetMine(next, anzAdded) /\ anzSent' = AnzPushed(next, 0)
             /\ anzGhost' = anzGhost \cup AnzCrossed(anzSent', anzEvents, anzUntold)
                  \cup AnzRevived(next.members \ (AnzCurrent.members \cup anzTemplate.members), AnzUnheard)
<1>1. PICK cur : cur = AnzCurrent /\ cur \in AnzProper BY AnzCurrentIs
<1>2. PICK p, next :
        /\ p \in AnzProcs
        /\ next \in {[cur EXCEPT !.members = @ \cup ({p} \cap anzCatalog)], AnzWithout(cur, {p}), anzTemplate}
              \cup (IF p \notin cur.members THEN {}
                    ELSE {[cur EXCEPT !.off = @ \cup {p}], [cur EXCEPT !.off = @ \ {p}]})
        /\ AnzSetMine(next, anzAdded) /\ anzSent' = AnzPushed(next, 0)
        /\ anzGhost' = anzGhost \cup AnzCrossed(anzSent', anzEvents, anzUntold)
             \cup AnzRevived(next.members \ (cur.members \cup anzTemplate.members), AnzUnheard)
  BY <1>1 DEF AnzEdit
<1>3. next \in AnzProper
  <2>1. {p} \cap anzCatalog \in SUBSET AnzProcs BY <1>2
  <2>2. anzTemplate \in AnzProper BY DEF AnzTypes
  <2>3. CASE next \in {[cur EXCEPT !.members = @ \cup ({p} \cap anzCatalog)], AnzWithout(cur, {p}), anzTemplate}
    <3>1. [cur EXCEPT !.members = @ \cup ({p} \cap anzCatalog)] \in AnzProper
      BY <1>1, <2>1, AnzProperEdits
    <3>2. AnzWithout(cur, {p}) \in AnzProper BY <1>1, AnzProperEdits
    <3> QED BY <2>2, <2>3, <3>1, <3>2
  <2>4. CASE p \in cur.members /\ next \in {[cur EXCEPT !.off = @ \cup {p}], [cur EXCEPT !.off = @ \ {p}]}
    <3>1. /\ [cur EXCEPT !.off = @ \cup {p}] \in AnzProper
          /\ [cur EXCEPT !.off = @ \ {p}] \in AnzProper BY <1>1, <2>4, AnzProperEdits
    <3> QED BY <2>4, <3>1
  <2> QED BY <1>2, <2>3, <2>4
<1> QED BY <1>1, <1>2, <1>3

LEMMA AnzTypesEdit == AnzTypes /\ AnzEdit => AnzTypes'
<1> SUFFICES ASSUME AnzTypes, AnzEdit PROVE AnzTypes' OBVIOUS
<1>1. PICK next \in AnzProper : AnzSetMine(next, anzAdded) /\ anzSent' = AnzPushed(next, 0)
  BY AnzEditIs
<1>2. anzMine' \in AnzProper \cup {AnzUnset} /\ anzAdded' \subseteq anzMine'.members
  BY <1>1, AnzSetMineIs
<1>3. anzSent' \in Seq(AnzCommands) BY <1>1, AnzPushIs
<1> QED BY <1>2, <1>3 DEF AnzEdit, AnzTypes, anzBack, anzRuns

LEMMA AnzTypesAgentEdit == AnzTypes /\ AnzAgentEdit => AnzTypes'
BY DEF AnzAgentEdit, AnzStores, AnzTypes, anzOnes, anzRuns

\* The calls of agents that are under way.
LEMMA AnzTypesCalls ==
    AnzTypes /\ AnzCallTypes /\ (AnzJoinStores \/ AnzTell \/ AnzRefresh) => AnzTypes'
<1> SUFFICES ASSUME AnzTypes, AnzCallTypes, AnzJoinStores \/ AnzTell \/ AnzRefresh PROVE AnzTypes'
  OBVIOUS
<1>1. CASE AnzJoinStores
  <2>1. anzChain' \in AnzProper BY <1>1 DEF AnzJoinStores, AnzStores, AnzCallTypes
  <2> QED BY <1>1, <2>1 DEF AnzJoinStores, AnzTypes, anzOnes, anzRuns
<1>2. CASE AnzTell
  <2>1. PICK i \in DOMAIN anzUntold :
          anzEvents' = Append(anzEvents, [ev |-> "chain", chain |-> anzUntold[i].chain])
    BY <1>2 DEF AnzTell
  <2>2. anzUntold[i].chain \in AnzProper BY AnzUntoldIs
  <2>3. [ev |-> "chain", chain |-> anzUntold[i].chain] \in AnzNews BY <2>2 DEF AnzNews
  <2>4. anzEvents' \in Seq(AnzNews) BY <2>1, <2>3, AnzAppended DEF AnzTypes
  <2> QED BY <1>2, <2>4 DEF AnzTell, AnzTypes, anzOnes, anzRuns
<1>3. CASE AnzRefresh BY <1>3 DEF AnzRefresh, AnzTypes, anzBack, anzRuns
<1> QED BY <1>1, <1>2, <1>3

LEMMA AnzTypesUninstall == AnzTypes /\ AnzUninstall => AnzTypes'
<1> SUFFICES ASSUME AnzTypes, AnzUninstall PROVE AnzTypes' OBVIOUS
<1>1. PICK p \in anzInstalled : /\ anzInstalled' = anzInstalled \ {p}
                                /\ anzEvents' = Append(anzEvents, [ev |-> "uninstall", id |-> p])
  BY DEF AnzUninstall
<1>2. [ev |-> "uninstall", id |-> p] \in AnzNews BY DEF AnzTypes, AnzNews
<1>3. anzEvents' \in Seq(AnzNews) BY <1>1, <1>2, AnzAppended DEF AnzTypes
<1> QED BY <1>1, <1>3 DEF AnzUninstall, AnzTypes, anzOnes, anzRuns

LEMMA AnzTypesReceive == AnzTypes /\ AnzReceive => AnzTypes'
<1> SUFFICES ASSUME AnzTypes, AnzReceive PROVE AnzTypes' OBVIOUS
<1>1. PICK c : c = Head(anzSent) OBVIOUS
<1>2. c \in AnzCommands /\ anzSent' \in Seq(AnzCommands) BY <1>1, AnzHeadIs DEF AnzReceive, AnzTypes
<1>3. c.op \in {"set", "get", "stop"} /\ c.chain \in AnzProper /\ c.job \in AnzJobs \cup {0}
  BY <1>2 DEF AnzCommands
<1>4. /\ anzChain' \in AnzProper /\ anzAsk' \in [pc : {"sent", "answered", "done"}, chain : AnzProper]
      /\ anzStop' \in {"no", "sent", "answered"} /\ anzJob' \in [AnzJobs -> AnzJobSet]
  <2>1. CASE c.op = "set"
    <3>1. /\ anzChain' = c.chain /\ UNCHANGED <<anzAsk, anzStop>>
          /\ anzJob' = IF c.job = 0 THEN anzJob ELSE [anzJob EXCEPT ![c.job].pc = "ready"]
      BY <1>1, <2>1 DEF AnzReceive
    <3>2. c.job # 0 => c.job \in AnzJobs BY <1>3
    <3>3. anzJob' \in [AnzJobs -> AnzJobSet] BY <3>1, <3>2, AnzJobIs DEF AnzTypes
    <3> QED BY <1>3, <3>1, <3>3 DEF AnzTypes
  <2>2. CASE c.op = "get"
    <3>1. anzAsk' = [pc |-> "answered", chain |-> anzChain] /\ UNCHANGED <<anzChain, anzJob, anzStop>>
      BY <1>1, <2>2 DEF AnzReceive
    <3> QED BY <3>1 DEF AnzTypes
  <2>3. CASE c.op = "stop"
    <3>1. /\ anzJob' = [j \in AnzJobs |-> [anzJob[j] EXCEPT
                          !.stopped = @ \/ anzJob[j].pc \in {"asked", "runs"}]]
          /\ anzStop' = "answered" /\ UNCHANGED <<anzChain, anzAsk>> BY <1>1, <2>3 DEF AnzReceive
    <3>2. ASSUME NEW j \in AnzJobs
          PROVE  [anzJob[j] EXCEPT !.stopped = @ \/ anzJob[j].pc \in {"asked", "runs"}] \in AnzJobSet
      <4>1. PICK b \in BOOLEAN : b = (anzJob[j].stopped \/ anzJob[j].pc \in {"asked", "runs"})
        OBVIOUS
      <4>2. anzJob[j] \in AnzJobSet BY DEF AnzTypes
      <4>3. [anzJob[j] EXCEPT !.stopped = b] \in AnzJobSet BY <4>2 DEF AnzJobSet
      <4> QED BY <4>1, <4>3
    <3>3. anzJob' \in [AnzJobs -> AnzJobSet] BY <3>1, <3>2
    <3> QED BY <3>1, <3>3 DEF AnzTypes
  <2> QED BY <1>3, <2>1, <2>2, <2>3
<1> QED BY <1>2, <1>4 DEF AnzReceive, AnzTypes

LEMMA AnzTypesWindow ==
    AnzTypes /\ (AnzStopSent \/ AnzStopAnswered \/ AnzFetch \/ AnzHydrate) => AnzTypes'
<1> SUFFICES ASSUME AnzTypes, AnzStopSent \/ AnzStopAnswered \/ AnzFetch \/ AnzHydrate PROVE AnzTypes'
  OBVIOUS
<1>1. CASE AnzStopSent
  <2>1. [op |-> "stop", chain |-> AnzEmpty, job |-> 0] \in AnzCommands BY AnzEmptyIs DEF AnzCommands
  <2>2. anzSent' \in Seq(AnzCommands) BY <1>1, <2>1, AnzAppended DEF AnzStopSent, AnzTypes
  <2> QED BY <1>1, <2>2 DEF AnzStopSent, AnzTypes, anzBack, anzOnes
<1>2. CASE AnzStopAnswered BY <1>2 DEF AnzStopAnswered, AnzTypes, anzBack, anzOnes
<1>3. CASE AnzFetch BY <1>3 DEF AnzFetch, AnzTypes, anzBack, anzOnes
<1>4. CASE AnzHydrate
  <2>1. anzAsk.chain \in AnzProper /\ anzAsk' \in [pc : {"sent", "answered", "done"}, chain : AnzProper]
    BY <1>4, AnzEmptyIs DEF AnzHydrate, AnzTypes
  <2>2. CASE anzMine = AnzUnset /\ anzAsk.chain.members # {}
    <3>1. AnzSetMine(anzAsk.chain, anzAdded) /\ anzSent' = AnzPushed(anzAsk.chain, 0)
      BY <1>4, <2>2 DEF AnzHydrate
    <3>2. anzMine' \in AnzProper \cup {AnzUnset} /\ anzAdded' \subseteq anzMine'.members
      BY <2>1, <3>1, AnzSetMineIs
    <3>3. anzSent' \in Seq(AnzCommands) BY <2>1, <3>1, AnzPushIs
    <3> QED BY <1>4, <2>1, <3>2, <3>3 DEF AnzHydrate, AnzTypes, anzBack, anzRuns
  <2>3. CASE ~(anzMine = AnzUnset /\ anzAsk.chain.members # {})
    BY <1>4, <2>1, <2>3 DEF AnzHydrate, AnzTypes, anzBack, anzRuns
  <2> QED BY <2>2, <2>3
<1> QED BY <1>1, <1>2, <1>3, <1>4

LEMMA AnzTypesRuns ==
    ASSUME AnzTypes, NEW j \in AnzJobs,
           AnzAgentRuns(j) \/ AnzChunk(j) \/ AnzStore(j) \/ AnzRun(j) \/ AnzInvoke(j) \/ AnzAnswered(j)
    PROVE  AnzTypes'
<1>1. CASE AnzAgentRuns(j)
  <2>1. PICK want \in SUBSET anzInstalled :
          anzJob' = [anzJob EXCEPT ![j] = [AnzNoJob EXCEPT !.pc = "asked", !.caller = "agent",
                                             !.want = want, !.left = AnzChunks]]
    BY <1>1 DEF AnzAgentRuns
  <2>2. [AnzNoJob EXCEPT !.pc = "asked", !.caller = "agent", !.want = want, !.left = AnzChunks] \in AnzJobSet
    BY AnzAssumption DEF AnzNoJob, AnzJobSet, AnzTypes
  <2>3. anzJob' \in [AnzJobs -> AnzJobSet] BY <2>1, <2>2, AnzJobIs DEF AnzTypes
  <2> QED BY <1>1, <2>3 DEF AnzAgentRuns, AnzTypes, anzBack, anzOnes, anzRuns
<1>2. CASE AnzChunk(j)
  <2>1. anzJob[j].left \in Nat /\ anzJob[j].left > 0 BY <1>2 DEF AnzChunk, AnzTypes, AnzJobSet
  <2>2. anzJob' = [anzJob EXCEPT ![j].left = anzJob[j].left - 1] /\ anzJob[j].left - 1 \in Nat
    BY <1>2, <2>1 DEF AnzChunk
  <2>3. anzJob' \in [AnzJobs -> AnzJobSet] BY <2>2, AnzJobIs DEF AnzTypes
  <2>4. [ev |-> "progress"] \in AnzNews BY DEF AnzNews
  <2>5. anzEvents' \in Seq(AnzNews) BY <1>2, <2>4, AnzAppended DEF AnzChunk, AnzTypes
  <2> QED BY <1>2, <2>3, <2>5 DEF AnzChunk, AnzTypes, anzBack, anzOnes, anzRuns
<1>3. CASE AnzStore(j)
  <2>1. anzJob' \in [AnzJobs -> AnzJobSet] BY <1>3, AnzOverIs DEF AnzStore, AnzOuts
  <2>2. AnzComplete(j, "ok") \in AnzNews BY AnzCompleteIs DEF AnzOuts
  <2>3. anzEvents' \in Seq(AnzNews) /\ anzStored' \in AnzJobs \cup {0}
    BY <1>3, <2>2, AnzAppended DEF AnzStore, AnzTypes
  <2> QED BY <1>3, <2>1, <2>3 DEF AnzStore, AnzTypes, anzOnes, anzRuns
<1>4. CASE AnzRun(j)
  <2>1. [AnzNoJob EXCEPT !.pc = "set", !.gen = anzGen + 1, !.left = AnzChunks] \in AnzJobSet
    <3>1. anzGen + 1 \in Nat /\ AnzChunks \in Nat BY AnzAssumption DEF AnzTypes
    <3> QED BY <3>1 DEF AnzNoJob, AnzJobSet
  <2>2. anzJob' \in [AnzJobs -> AnzJobSet] BY <1>4, <2>1, AnzJobIs DEF AnzRun, AnzTypes
  <2>3. anzSent' \in Seq(AnzCommands) BY <1>4, AnzCurrentIs, AnzPushIs DEF AnzRun
  <2>4. /\ anzGen' \in Nat /\ anzToken' \in 0 .. anzGen' /\ anzOwn' \in AnzOwnSet
        /\ anzRow' \in [running : BOOLEAN, result : AnzJobs \cup {0}, error : BOOLEAN]
    <3>1. /\ anzGen' = anzGen + 1 /\ anzToken' = anzToken
          /\ anzOwn' = [job |-> j, settled |-> FALSE, awaits |-> 0]
          /\ anzRow' = [anzRow EXCEPT !.running = TRUE, !.error = FALSE] BY <1>4 DEF AnzRun
    <3>2. anzGen \in Nat /\ anzToken \in 0 .. anzGen BY DEF AnzTypes
    <3>3. anzRow' \in [running : BOOLEAN, result : AnzJobs \cup {0}, error : BOOLEAN]
      BY <3>1 DEF AnzTypes
    <3> QED BY <3>1, <3>2, <3>3 DEF AnzOwnSet
  <2> QED BY <1>4, <2>2, <2>3, <2>4 DEF AnzRun, AnzTypes, anzBack, anzOnes
<1>5. CASE AnzInvoke(j)
  <2>1. anzJob' \in [AnzJobs -> AnzJobSet] BY <1>5, AnzJobIs DEF AnzInvoke, AnzTypes
  <2>2. anzOwn' \in AnzOwnSet BY <1>5 DEF AnzInvoke, AnzTypes, AnzOwnSet
  <2> QED BY <1>5, <2>1, <2>2 DEF AnzInvoke, AnzTypes, anzBack, anzOnes
<1>6. CASE AnzAnswered(j)
  <2>1. anzJob' \in [AnzJobs -> AnzJobSet] BY <1>6, AnzJobIs DEF AnzAnswered, AnzTypes
  <2>2. anzOwn \in AnzOwnSet BY DEF AnzTypes
  <2>3. PICK own : /\ own = IF anzOwn.job = j /\ anzJob[j].out \in {"error", "nochain"}
                            THEN [anzOwn EXCEPT !.awaits = @ - 1] ELSE anzOwn
                   /\ own \in AnzOwnSet
    <3>1. [anzOwn EXCEPT !.awaits = anzOwn.awaits - 1]
            \in AnzOwnSet
      <4>1. anzOwn.awaits - 1 \in Int BY <2>2 DEF AnzOwnSet
      <4> QED BY <2>2, <4>1, AnzOwnTypes
    <3> QED BY <2>2, <3>1
  <2>4. anzOwn' \in AnzOwnSet
    <3>1. anzOwn' \in {own, AnzOwnDone([own EXCEPT !.settled = TRUE])} BY <1>6, <2>3 DEF AnzAnswered
    <3>2. [own EXCEPT !.settled = TRUE] \in AnzOwnSet BY <2>3, AnzOwnTypes
    <3>3. AnzOwnDone([own EXCEPT !.settled = TRUE]) \in AnzOwnSet BY <3>2, AnzOwnTypes
    <3> QED BY <2>3, <3>1, <3>3
  <2>5. anzRow' \in [running : BOOLEAN, result : AnzJobs \cup {0}, error : BOOLEAN]
    <3>1. /\ anzRow.error \in BOOLEAN /\ anzRow.result \in AnzJobs \cup {0}
          /\ (anzRow.error \/ anzJob[j].out = "error") \in BOOLEAN BY DEF AnzTypes
    <3>2. CASE AnzCurrentRun(anzJob[j].gen)
      <4>1. anzRow' = [running |-> FALSE,
                       result |-> IF anzJob[j].out \in {"error", "nochain"} THEN anzRow.result
                                  ELSE IF anzJob[j].out = "ok" THEN j ELSE 0,
                       error |-> anzRow.error \/ anzJob[j].out = "error"]
        BY <1>6, <3>2 DEF AnzAnswered
      <4> QED BY <3>1, <4>1
    <3>3. CASE ~AnzCurrentRun(anzJob[j].gen) BY <1>6, <3>3 DEF AnzAnswered, AnzTypes
    <3> QED BY <3>2, <3>3
  <2> QED BY <1>6, <2>1, <2>4, <2>5 DEF AnzAnswered, AnzTypes, anzBack, anzOnes
<1> QED BY <1>1, <1>2, <1>3, <1>4, <1>5, <1>6

LEMMA AnzOutcomesAre == \A j : AnzOutcomes(j) \in SUBSET {"nochain", "cancelled", "error", "runs"}
BY DEF AnzOutcomes

LEMMA AnzBeginIs ==
    ASSUME NEW j, AnzBegin(j)
    PROVE  \/ anzJob' = [anzJob EXCEPT ![j].pc = "runs"] /\ UNCHANGED anzEvents
           \/ \E out \in {"nochain", "cancelled", "error"} :
                AnzOver(j, out) /\ anzEvents' = Append(anzEvents, AnzComplete(j, out))
BY AnzOutcomesAre DEF AnzBegin

LEMMA AnzTypesBegin ==
    ASSUME AnzTypes, NEW j \in AnzJobs, AnzBegin(j) \/ AnzJoinReads(j) PROVE AnzTypes'
<1>1. CASE AnzBegin(j)
  <2>1. anzJob' \in [AnzJobs -> AnzJobSet] /\ anzEvents' \in Seq(AnzNews)
    <3>1. CASE anzJob' = [anzJob EXCEPT ![j].pc = "runs"] /\ UNCHANGED anzEvents
      BY <3>1, AnzJobIs DEF AnzTypes
    <3>2. ASSUME NEW out \in {"nochain", "cancelled", "error"}, AnzOver(j, out),
                 anzEvents' = Append(anzEvents, AnzComplete(j, out))
          PROVE  anzJob' \in [AnzJobs -> AnzJobSet] /\ anzEvents' \in Seq(AnzNews)
      <4>1. anzJob' \in [AnzJobs -> AnzJobSet] BY <3>2, AnzOverIs DEF AnzOuts
      <4>2. AnzComplete(j, out) \in AnzNews BY AnzCompleteIs DEF AnzOuts
      <4> QED BY <3>2, <4>1, <4>2, AnzAppended DEF AnzTypes
    <3> QED BY <1>1, <3>1, <3>2, AnzBeginIs
  <2> QED BY <1>1, <2>1 DEF AnzBegin, AnzTypes, anzOnes, anzRuns
<1>2. CASE AnzJoinReads(j) BY <1>2 DEF AnzJoinReads, AnzTypes, anzOnes, anzRuns
<1> QED BY <1>1, <1>2

LEMMA AnzTypesHear == AnzTypes /\ AnzHear => AnzTypes'
<1> SUFFICES ASSUME AnzTypes, AnzHear PROVE AnzTypes' OBVIOUS
<1>1. PICK e : e = Head(anzEvents) OBVIOUS
<1>2. e \in AnzNews /\ anzEvents' \in Seq(AnzNews) BY <1>1, AnzHeadIs DEF AnzHear, AnzTypes
<1>3. UNCHANGED <<anzChain, anzInstalled, anzStored, anzJob, anzAsk, anzStop>>
  BY DEF AnzHear, anzBack
<1>4. CASE e.ev \in {"chain", "restored", "uninstall"}
  <2>1. UNCHANGED <<anzRow, anzGen, anzToken, anzOwn>>
    BY <1>1, <1>4 DEF AnzHear, AnzHearChain, AnzHearRestored, AnzHearUninstall
  <2>2. /\ anzMine' \in AnzProper \cup {AnzUnset} /\ anzAdded' \subseteq anzMine'.members
        /\ anzSent' \in Seq(AnzCommands) /\ anzTemplate' \in AnzProper
    <3>1. CASE e.ev = "chain"
      <4>1. AnzHearChain(e) /\ e.chain \in AnzProper BY <1>1, <1>2, <3>1, AnzNewsFields DEF AnzHear
      <4>2. anzMine' \in AnzProper \cup {AnzUnset} /\ anzAdded' \subseteq anzMine'.members
        BY <4>1, AnzSetMineIs DEF AnzHearChain
      <4> QED BY <4>1, <4>2 DEF AnzHearChain, AnzTypes
    <3>2. CASE e.ev = "restored"
      <4>1. AnzHearRestored(e) /\ e.chain \in AnzProper
        BY <1>1, <1>2, <3>2, AnzNewsFields DEF AnzHear
      <4>2. CASE e.chain.members = {} BY <4>1, <4>2 DEF AnzHearRestored, AnzTypes
      <4>3. CASE e.chain.members # {}
        <5>1. AnzSetMine(e.chain, anzAdded) /\ anzSent' = AnzPushed(e.chain, 0)
          BY <4>1, <4>3 DEF AnzHearRestored
        <5>2. anzMine' \in AnzProper \cup {AnzUnset} /\ anzAdded' \subseteq anzMine'.members
          BY <4>1, <5>1, AnzSetMineIs
        <5>3. anzSent' \in Seq(AnzCommands) BY <4>1, <5>1, AnzPushIs
        <5> QED BY <4>1, <5>2, <5>3 DEF AnzHearRestored, AnzTypes
      <4> QED BY <4>2, <4>3
    <3>3. CASE e.ev = "uninstall"
      <4>1. AnzHearUninstall(e) BY <1>1, <3>3 DEF AnzHear
      <4>2. anzTemplate' \in AnzProper BY <4>1, AnzProperEdits DEF AnzHearUninstall, AnzTypes
      <4>3. CASE e.id \in anzMine.members
        <5>1. anzMine # AnzUnset BY <4>3 DEF AnzUnset
        <5>2. AnzWithout(anzMine, {e.id}) \in AnzProper BY <5>1, AnzProperEdits DEF AnzTypes
        <5>3. /\ AnzSetMine(AnzWithout(anzMine, {e.id}), anzAdded)
              /\ anzSent' = AnzPushed(AnzWithout(anzMine, {e.id}), 0)
          BY <4>1, <4>3 DEF AnzHearUninstall, AnzTouches
        <5>4. anzMine' \in AnzProper \cup {AnzUnset} /\ anzAdded' \subseteq anzMine'.members
          BY <5>2, <5>3, AnzSetMineIs
        <5>5. anzSent' \in Seq(AnzCommands) BY <5>2, <5>3, AnzPushIs
        <5> QED BY <4>2, <5>4, <5>5
      <4>4. CASE e.id \notin anzMine.members
        BY <4>1, <4>2, <4>4 DEF AnzHearUninstall, AnzTouches, AnzTypes
      <4> QED BY <4>3, <4>4
    <3> QED BY <1>4, <3>1, <3>2, <3>3
  <2> QED BY <1>2, <1>3, <2>1, <2>2 DEF AnzTypes
<1>5. CASE e.ev \in {"progress", "complete"}
  <2>1. UNCHANGED <<anzSent, anzMine, anzAdded, anzTemplate>>
    BY <1>1, <1>2, <1>5, AnzNewsFields DEF AnzHear, AnzHearProgress, AnzHearOwnComplete,
      AnzHearForeignComplete
  <2>2. /\ anzGen \in Nat /\ anzToken \in 0 .. anzGen /\ anzOwn \in AnzOwnSet
        /\ anzRow \in [running : BOOLEAN, result : AnzJobs \cup {0}, error : BOOLEAN]
    BY DEF AnzTypes
  <2>3. /\ anzGen' \in Nat /\ anzToken' \in 0 .. anzGen' /\ anzOwn' \in AnzOwnSet
        /\ anzRow' \in [running : BOOLEAN, result : AnzJobs \cup {0}, error : BOOLEAN]
    <3>1. CASE e.ev = "progress"
      <4>1. AnzHearProgress BY <1>1, <3>1 DEF AnzHear
      <4>2. CASE anzRow.running \/ AnzOwnMode BY <2>2, <4>1, <4>2 DEF AnzHearProgress
      <4>3. CASE ~(anzRow.running \/ AnzOwnMode)
        <5>1. /\ anzGen' = anzGen + 1 /\ anzToken' = anzGen + 1 /\ anzOwn' = anzOwn
              /\ anzRow' = [anzRow EXCEPT !.running = TRUE, !.error = FALSE]
          BY <4>1, <4>3 DEF AnzHearProgress
        <5>2. anzRow' \in [running : BOOLEAN, result : AnzJobs \cup {0}, error : BOOLEAN]
          BY <2>2, <5>1
        <5> QED BY <2>2, <5>1, <5>2
      <4> QED BY <4>2, <4>3
    <3>2. CASE e.ev = "complete" /\ e.caller = "ui"
      <4>1. AnzHearOwnComplete BY <1>1, <3>2 DEF AnzHear
      <4>2. /\ [anzOwn EXCEPT !.awaits = anzOwn.awaits - 1]
                  \in AnzOwnSet
        <5>1. anzOwn.awaits - 1 \in Int BY <2>2 DEF AnzOwnSet
        <5> QED BY <2>2, <5>1, AnzOwnTypes
      <4>3. anzOwn' \in AnzOwnSet BY <2>2, <4>1, <4>2, AnzOwnTypes DEF AnzHearOwnComplete
      <4> QED BY <2>2, <4>1, <4>3 DEF AnzHearOwnComplete
    <3>3. CASE e.ev = "complete" /\ e.caller = "agent"
      <4>1. AnzHearForeignComplete(e) /\ e.job \in AnzJobs
        BY <1>1, <1>2, <3>3, AnzNewsFields DEF AnzHear
      <4>2. CASE AnzLands
        <5>1. /\ anzGen' = anzGen + 1 /\ anzToken' = 0 /\ anzOwn' = anzOwn
              /\ anzRow' = [running |-> FALSE,
                            result |-> IF e.out = "ok" THEN e.job ELSE anzRow.result,
                            error |-> CASE e.out = "ok" -> FALSE
                                        [] e.out = "error" -> TRUE
                                        [] OTHER -> anzRow.error]
          BY <4>1, <4>2 DEF AnzHearForeignComplete
        <5>2. anzRow' \in [running : BOOLEAN, result : AnzJobs \cup {0}, error : BOOLEAN]
          <6>1. CASE e.out = "ok" BY <2>2, <4>1, <5>1, <6>1
          <6>2. CASE e.out = "error" BY <2>2, <4>1, <5>1, <6>2
          <6>3. CASE e.out # "ok" /\ e.out # "error" BY <2>2, <4>1, <5>1, <6>3
          <6> QED BY <6>1, <6>2, <6>3
        <5>3. anzGen' = anzGen + 1 /\ anzToken' = 0 /\ anzOwn' = anzOwn BY <5>1
        <5>4. anzGen' \in Nat /\ anzToken' \in 0 .. anzGen' BY <2>2, <5>3
        <5> QED BY <2>2, <5>2, <5>3, <5>4
      <4>3. CASE ~AnzLands BY <2>2, <4>1, <4>3 DEF AnzHearForeignComplete
      <4> QED BY <4>2, <4>3
    <3> QED BY <1>2, <1>5, <3>1, <3>2, <3>3, AnzNewsFields
  <2> QED BY <1>2, <1>3, <2>1, <2>3 DEF AnzTypes
<1> QED BY <1>2, <1>4, <1>5, AnzNewsFields

LEMMA AnzTypesNext == AnzTypes /\ AnzCallTypes /\ [AnzNext]_anzVars => AnzTypes'
<1> SUFFICES ASSUME AnzTypes, AnzCallTypes, [AnzNext]_anzVars PROVE AnzTypes' OBVIOUS
<1>1. CASE AnzNext
  <2>1. ASSUME NEW j \in AnzJobs,
               AnzAgentRuns(j) \/ AnzJoinReads(j) \/ AnzBegin(j) \/ AnzChunk(j) \/ AnzStore(j)
                 \/ AnzRun(j) \/ AnzInvoke(j) \/ AnzAnswered(j)
        PROVE  AnzTypes' BY <2>1, AnzTypesRuns, AnzTypesBegin
  <2> QED BY <1>1, <2>1, AnzTypesEdit, AnzTypesAgentEdit, AnzTypesCalls, AnzTypesUninstall,
       AnzTypesReceive, AnzTypesWindow, AnzTypesHear DEF AnzNext
<1>2. CASE UNCHANGED anzVars BY <1>2 DEF anzVars, anzBack, anzOnes, anzRuns, anzHist, AnzTypes
<1> QED BY <1>1, <1>2

LEMMA AnzDroppedIs ==
    ASSUME NEW S, NEW q \in Seq(S), NEW i \in DOMAIN q
    PROVE  /\ AnzDropped(q, i) \in Seq(S) /\ Len(AnzDropped(q, i)) = Len(q) - 1
           /\ i = 1 => \/ AnzDropped(q, i) = <<>> /\ Len(q) = 1
                       \/ /\ AnzDropped(q, i) # <<>>
                          /\ AnzDropped(q, i)[Len(AnzDropped(q, i))] = q[Len(q)]
<1>1. PICK n \in Nat : n = Len(q) /\ DOMAIN q = 1 .. n /\ n >= 1 /\ i \in 1 .. n
  OBVIOUS
<1>2. PICK t : t = AnzDropped(q, i) OBVIOUS
<1>3. t = [k \in 1 .. n - 1 |-> IF k < i THEN q[k] ELSE q[k + 1]] BY <1>1, <1>2 DEF AnzDropped
<1>4. \A k \in 1 .. n - 1 : q[k] \in S /\ q[k + 1] \in S BY <1>1
<1>5. t \in Seq(S) /\ Len(t) = n - 1
  <2>1. n - 1 \in Nat BY <1>1
  <2>2. t \in [1 .. n - 1 -> S] BY <1>3, <1>4
  <2> QED BY <2>1, <2>2
<1>6. ASSUME i = 1, n # 1 PROVE t # <<>> /\ t[Len(t)] = q[n]
  <2>1. n - 1 \in 1 .. n - 1 /\ ~(n - 1 < i) /\ (n - 1) + 1 = n BY <1>1, <1>6
  <2>2. t[n - 1] = q[n] BY <1>3, <2>1
  <2> QED BY <1>5, <2>1, <2>2
<1>7. n = 1 => t = <<>> BY <1>5
<1> QED BY <1>1, <1>2, <1>5, <1>6, <1>7

LEMMA AnzCallsInit == AnzInit => AnzCallTypes BY AnzEmptyIs DEF AnzInit, AnzCallTypes, AnzNoJoin

LEMMA AnzCallsStore ==
    ASSUME AnzCallTypes, NEW chain \in AnzProper, NEW job \in AnzJobs \cup {0}, AnzStores(chain, job)
    PROVE  anzUntold' \in Seq([chain : AnzProper, job : AnzJobs \cup {0}])
<1>1. [chain |-> chain, job |-> job] \in [chain : AnzProper, job : AnzJobs \cup {0}] OBVIOUS
<1>2. Append(anzUntold, [chain |-> chain, job |-> job]) \in Seq([chain : AnzProper, job : AnzJobs \cup {0}])
  BY <1>1, AnzAppended DEF AnzCallTypes
<1> QED BY <1>2 DEF AnzStores, AnzCallTypes

LEMMA AnzCallsNext == AnzTypes /\ AnzCallTypes /\ [AnzNext]_anzVars => AnzCallTypes'
<1> SUFFICES ASSUME AnzTypes, AnzCallTypes, [AnzNext]_anzVars PROVE AnzCallTypes' OBVIOUS
<1>1. CASE UNCHANGED <<anzCalls, anzCatalog>> BY <1>1 DEF AnzCallTypes, anzCalls
<1>2. CASE AnzAgentEdit
  <2>1. anzUntold' \in Seq([chain : AnzProper, job : AnzJobs \cup {0}])
    BY <1>2, AnzCallsStore DEF AnzAgentEdit
  <2> QED BY <1>2, <2>1 DEF AnzAgentEdit, AnzCallTypes, anzOnes
<1>3. CASE AnzJoinStores
  <2>1. anzJoin.chain \in AnzProper /\ anzJoin.job \in AnzJobs \cup {0} BY DEF AnzCallTypes
  <2>2. anzUntold' \in Seq([chain : AnzProper, job : AnzJobs \cup {0}])
    BY <1>3, <2>1, AnzCallsStore DEF AnzJoinStores
  <2>3. PICK at \in {"stored", "told"} : anzJoin' = [anzJoin EXCEPT !.at = at]
    BY <1>3 DEF AnzJoinStores
  <2> QED BY <1>3, <2>2, <2>3 DEF AnzJoinStores, AnzCallTypes, anzOnes
<1>4. CASE AnzTell
  <2>1. PICK i \in DOMAIN anzUntold : /\ anzUntold' = AnzDropped(anzUntold, i)
                                      /\ anzJoin' \in {anzJoin, [anzJoin EXCEPT !.at = "told"]}
    BY <1>4 DEF AnzTell
  <2>2. anzUntold' \in Seq([chain : AnzProper, job : AnzJobs \cup {0}])
    BY <2>1, AnzDroppedIs DEF AnzCallTypes
  <2> QED BY <1>4, <2>1, <2>2 DEF AnzTell, AnzCallTypes, anzOnes
<1>5. CASE AnzRefresh BY <1>5 DEF AnzRefresh, AnzCallTypes, AnzTypes, anzBack, anzCalls
<1>6. ASSUME NEW j \in AnzJobs, AnzJoinReads(j) PROVE AnzCallTypes'
  <2>1. anzChain \in AnzProper /\ anzJob[j].want \in SUBSET AnzProcs BY DEF AnzTypes, AnzJobSet
  <2>2. AnzTake(anzChain, anzJob[j].want) \in AnzProper BY <2>1, AnzTakeIs
  <2>3. anzJoin' = [job |-> j, at |-> "read", chain |-> AnzTake(anzChain, anzJob[j].want)]
    BY <1>6 DEF AnzJoinReads
  <2> QED BY <1>6, <2>2, <2>3 DEF AnzJoinReads, AnzCallTypes, anzOnes
<1>7. ASSUME NEW j \in AnzJobs, AnzBegin(j) PROVE AnzCallTypes'
  BY <1>7, AnzEmptyIs DEF AnzBegin, AnzCallTypes, AnzNoJoin, anzOnes
<1>8. ASSUME NEW j \in AnzJobs,
             AnzAgentRuns(j) \/ AnzChunk(j) \/ AnzStore(j) \/ AnzRun(j) \/ AnzInvoke(j) \/ AnzAnswered(j)
      PROVE  UNCHANGED <<anzCalls, anzCatalog>>
  BY <1>8 DEF AnzAgentRuns, AnzChunk, AnzStore, AnzRun, AnzInvoke, AnzAnswered, anzBack, anzOnes
<1>9. CASE \/ AnzEdit \/ AnzUninstall \/ AnzReceive \/ AnzStopSent \/ AnzStopAnswered \/ AnzFetch
           \/ AnzHydrate \/ AnzHear \/ UNCHANGED anzVars
  <2>1. UNCHANGED <<anzCalls, anzCatalog>>
    BY <1>9 DEF AnzEdit, AnzUninstall, AnzReceive, AnzStopSent, AnzStopAnswered, AnzFetch,
      AnzHydrate, AnzHear, anzVars, anzBack, anzOnes
  <2> QED BY <1>1, <2>1
<1> QED BY <1>1, <1>2, <1>3, <1>4, <1>5, <1>6, <1>7, <1>8, <1>9 DEF AnzNext

\* Every reachable state is well formed: a badge is on a member, an entry
\* that is off is one of the chain, and a stop is one of three.
THEOREM AnzTypeCorrect == AnzSpec => []AnzTypeOK
<1>1. AnzTypes /\ AnzCallTypes => AnzTypeOK
  <2> SUFFICES ASSUME AnzTypes, AnzCallTypes PROVE AnzTypeOK OBVIOUS
  <2>1. \A j \in AnzJobs : anzJob[j] \in AnzJobSet BY DEF AnzTypes
  <2>2. \A j \in AnzJobs : anzJob[j].pc \in {"none", "set", "ready", "asked", "runs", "answered", "done"}
    BY <2>1 DEF AnzJobSet
  <2>3. \A x \in AnzJobs \cup {0} : x \in 0 .. AnzMaxRuns BY AnzAssumption DEF AnzJobs
  <2>4. anzStored \in 0 .. AnzMaxRuns /\ anzRow.result \in 0 .. AnzMaxRuns BY <2>3 DEF AnzTypes
  <2>5. anzJoin.job \in AnzJobs \cup {0} /\ anzCatalog \subseteq AnzProcs BY DEF AnzCallTypes
  <2>6. anzJoin.job \in 0 .. AnzMaxRuns BY <2>3, <2>5
  <2>7. \A i \in DOMAIN anzUntold : anzUntold[i].chain \in AnzProper BY AnzUntoldIs
  <2> QED BY <2>2, <2>4, <2>5, <2>6, <2>7 DEF AnzTypes, AnzTypeOK
<1> QED BY <1>1, AnzTypesInit, AnzCallsInit, AnzTypesNext, AnzCallsNext, PTL DEF AnzSpec

----------------------------------------
\* The chains, step by step.
LEMMA AnzCrossingIs ==
    ASSUME NEW sent, NEW events, NEW untold, ~AnzCrossing(sent, events, untold)
    PROVE  ~AnzPassing(sent, events) /\ (untold = <<>> \/ AnzNoSets(sent))
BY DEF AnzCrossing, AnzPassing, AnzNoSets, AnzIsSet

LEMMA AnzNotedIs ==
    ASSUME NEW ghost, NEW sent, NEW events, NEW untold, NEW seen,
           ghost \cup AnzCrossed(sent, events, untold) \in SUBSET seen
    PROVE  /\ AnzKeeps(ghost, seen)
           /\ "crossed" \notin seen => "crossed" \notin ghost /\ ~AnzCrossing(sent, events, untold)
BY DEF AnzCrossed, AnzKeeps

AnzOk(events, sent, mine, template, chain, installed, ghost) ==
    /\ AnzNowhere(events, mine, template, installed, ghost)
    /\ "crossed" \notin ghost => AnzLinked(events, sent, mine, chain)

\* An agent's change is told.
LEMMA AnzOkByTelling ==
    ASSUME NEW events \in Seq(AnzNews), NEW sent \in Seq(AnzCommands), NEW mine, NEW template,
           NEW told, NEW installed \in SUBSET AnzProcs, NEW ghost, NEW seen, NEW next \in AnzProper,
           NEW e \in AnzNews, e.ev = "chain", e.chain = next,
           AnzOk(events, sent, mine, template, told, installed, ghost), AnzKeeps(ghost, seen),
           "revived" \notin seen => next.members \in SUBSET installed,
           "crossed" \notin seen => AnzNoSets(sent)
    PROVE  AnzOk(Append(events, e), sent, mine, template, next, installed, seen)
<1>1. AnzNowhere(events, mine, template, installed, seen) BY AnzNowhereByGhost DEF AnzOk
<1>2. AnzNowhere(Append(events, e), mine, template, installed, seen) BY <1>1, AnzNowhereByEvent
<1>3. ASSUME "crossed" \notin seen PROVE AnzLinked(Append(events, e), sent, mine, next)
  <2>1. AnzLinked(events, sent, mine, told) BY <1>3 DEF AnzOk, AnzKeeps
  <2>2. ~AnzPassing(sent, Append(events, e)) BY <1>3 DEF AnzPassing, AnzNoSets, AnzIsSet
  <2> QED BY <2>1, <2>2, AnzLinkedByChange
<1> QED BY <1>2, <1>3 DEF AnzOk

LEMMA AnzOkByEvent ==
    ASSUME NEW events \in Seq(AnzNews), NEW sent \in Seq(AnzCommands), NEW mine, NEW template,
           NEW chain, NEW installed \in SUBSET AnzProcs, NEW ghost,
           NEW e \in AnzNews, e.ev \in {"progress", "complete"},
           AnzOk(events, sent, mine, template, chain, installed, ghost)
    PROVE  AnzOk(Append(events, e), sent, mine, template, chain, installed, ghost)
<1>1. e.ev # "chain" /\ e.ev \in {"chain", "progress", "complete"} OBVIOUS
<1>2. AnzNowhere(Append(events, e), mine, template, installed, ghost)
  BY <1>1, AnzNowhereByEvent DEF AnzOk
<1>3. ASSUME "crossed" \notin ghost PROVE AnzLinked(Append(events, e), sent, mine, chain)
  BY <1>1, <1>3, AnzLinkedByEvent DEF AnzOk
<1> QED BY <1>2, <1>3 DEF AnzOk

LEMMA AnzOkByGhost ==
    ASSUME NEW events, NEW sent, NEW mine, NEW template, NEW chain, NEW installed, NEW ghost, NEW seen,
           AnzKeeps(ghost, seen), AnzOk(events, sent, mine, template, chain, installed, ghost)
    PROVE  AnzOk(events, sent, mine, template, chain, installed, seen)
<1>1. AnzNowhere(events, mine, template, installed, seen) BY AnzNowhereByGhost DEF AnzOk
<1>2. "crossed" \notin seen => "crossed" \notin ghost BY DEF AnzKeeps
<1> QED BY <1>1, <1>2 DEF AnzOk

\* There is a last chain the agents' calls told of.
AnzChainsOk ==
    \E told :
      /\ AnzOk(anzEvents, anzSent, anzMine, anzTemplate, told, anzInstalled, anzGhost)
      /\ "crossed" \notin anzGhost => AnzTells(anzUntold, anzSent, told, anzChain)

LEMMA AnzChainsInit == AnzInit => AnzChainsOk
<1> SUFFICES ASSUME AnzInit PROVE AnzChainsOk OBVIOUS
<1>1. AnzKnown(anzEvents, anzInstalled) = {} BY DEF AnzInit, AnzKnown
<1>2. anzSent = <<[op |-> "get", chain |-> AnzEmpty, job |-> 0]>> BY DEF AnzInit
<1>3. \A k \in DOMAIN anzSent : ~AnzIsSet(anzSent, k) BY <1>2 DEF AnzIsSet
<1>4. \A k \in DOMAIN anzEvents : anzEvents[k].ev = "restored" /\ k = 1
  <2>1. PICK e : e = [ev |-> "restored", chain |-> anzChain] OBVIOUS
  <2>2. anzEvents = <<>> \/ anzEvents = <<e>> BY <2>1 DEF AnzInit
  <2>3. \A k \in DOMAIN anzEvents : k = 1 /\ anzEvents[k] = e BY <2>2
  <2> QED BY <2>1, <2>3
<1>5. \A k \in DOMAIN anzEvents : ~AnzIsChain(anzEvents, k) /\ \A p : ~AnzIsGone(anzEvents, k, p)
  BY <1>4 DEF AnzIsChain, AnzIsGone
<1>6. anzMine = AnzUnset BY DEF AnzInit
<1>7. ~AnzPassing(anzSent, anzEvents) BY <1>3 DEF AnzPassing, AnzIsSet
<1>8. AnzLinked(anzEvents, anzSent, anzMine, anzChain) BY <1>3, <1>5, <1>6, <1>7 DEF AnzLinked
<1>9. AnzNowhere(anzEvents, anzMine, anzTemplate, anzInstalled, anzGhost)
  BY <1>1, <1>4, <1>5 DEF AnzNowhere
<1>10. AnzTells(anzUntold, anzSent, anzChain, anzChain) BY DEF AnzInit, AnzTells
<1> QED BY <1>8, <1>9, <1>10 DEF AnzChainsOk, AnzOk

\* A push: nothing is left to tell.
LEMMA AnzPushSteps ==
    ASSUME AnzTypes, AnzChainsOk, NEW next \in AnzProper, NEW job \in AnzJobs \cup {0},
           UNCHANGED <<anzChain, anzInstalled, anzUntold>>, anzEvents' \in Seq(AnzNews),
           anzMine' = next \/ (anzMine' = anzMine /\ next = AnzCurrent), anzSent' = AnzPushed(next, job),
           AnzNowhere(anzEvents', anzMine', anzTemplate', anzInstalled, anzGhost'),
           "crossed" \notin anzGhost' =>
             "crossed" \notin anzGhost /\ ~AnzCrossing(anzSent', anzEvents', anzUntold)
    PROVE  AnzChainsOk'
<1>1. PICK c : c = [op |-> "set", chain |-> next, job |-> job] OBVIOUS
<1>2. c \in AnzCommands /\ c.op = "set" /\ c.chain = next /\ anzSent' = Append(anzSent, c)
  BY <1>1, AnzPushIs DEF AnzPushed
<1>3. anzMine' # AnzUnset => c.chain = anzMine' BY <1>2 DEF AnzCurrent
<1>4. anzSent \in Seq(AnzCommands) BY DEF AnzTypes
<1>5. PICK told : "crossed" \notin anzGhost => AnzTells(anzUntold, anzSent, told, anzChain)
  BY DEF AnzChainsOk
<1>6. ASSUME "crossed" \notin anzGhost'
      PROVE  /\ AnzLinked(anzEvents', Append(anzSent, c), anzMine', told)
             /\ AnzTells(anzUntold, anzSent', told, anzChain)
  <2>1. ~AnzPassing(Append(anzSent, c), anzEvents') /\ (anzUntold = <<>> \/ AnzNoSets(anzSent'))
    BY <1>2, <1>6, AnzCrossingIs
  <2>2. ~AnzNoSets(anzSent')
    <3>1. PICK n : n = Len(anzSent) OBVIOUS
    <3>2. n + 1 \in DOMAIN anzSent' /\ anzSent'[n + 1] = c BY <1>2, <1>4, <3>1, AnzAppended
    <3> QED BY <1>2, <3>2 DEF AnzNoSets, AnzIsSet
  <2>3. AnzTells(anzUntold, anzSent', told, anzChain) BY <1>5, <1>6, <2>1, <2>2 DEF AnzTells
  <2>4. AnzLinked(anzEvents', Append(anzSent, c), anzMine', told)
    BY <1>2, <1>3, <1>4, <2>1, AnzLinkedByPush
  <2> QED BY <2>3, <2>4
<1> QED BY <1>2, <1>6 DEF AnzChainsOk, AnzOk

LEMMA AnzChainsEdit == AnzTypes /\ AnzChainsOk /\ AnzEdit => AnzChainsOk'
<1> SUFFICES ASSUME AnzTypes, AnzChainsOk, AnzEdit PROVE AnzChainsOk' OBVIOUS
<1>1. PICK next \in AnzProper :
        /\ AnzSetMine(next, anzAdded) /\ anzSent' = AnzPushed(next, 0)
        /\ anzGhost' = anzGhost \cup AnzCrossed(anzSent', anzEvents, anzUntold)
             \cup AnzRevived(next.members \ (AnzCurrent.members \cup anzTemplate.members), AnzUnheard)
  BY AnzEditIs
<1>2. PICK known : known = AnzKnown(anzEvents, anzInstalled) OBVIOUS
<1>3. AnzNowhere(anzEvents, anzMine, anzTemplate, anzInstalled, anzGhost) BY DEF AnzChainsOk, AnzOk
<1>4. known \cap AnzUnheard = {} /\ known \cap anzTemplate.members = {}
  BY <1>2, <1>3 DEF AnzKnown, AnzUnheard, AnzIsGone, AnzNowhere
<1>5. /\ AnzKeeps(anzGhost, anzGhost')
      /\ "crossed" \notin anzGhost' =>
           "crossed" \notin anzGhost /\ ~AnzCrossing(anzSent', anzEvents, anzUntold)
  <2>1. anzGhost \cup AnzCrossed(anzSent', anzEvents, anzUntold) \in SUBSET anzGhost' BY <1>1
  <2> QED BY <2>1, AnzNotedIs
<1>6. ASSUME AnzFresh(anzGhost') PROVE known \cap next.members = {}
  <2>1. AnzFresh(anzGhost) BY <1>5, <1>6 DEF AnzFresh, AnzKeeps
  <2>2. known \cap AnzCurrent.members = {} BY <1>2, <1>3, <2>1 DEF AnzNowhere, AnzCurrent
  <2>3. next.members \ (AnzCurrent.members \cup anzTemplate.members) \in SUBSET AnzUnheard
    BY <1>1, <1>6 DEF AnzRevived, AnzFresh
  <2> QED BY <1>4, <2>2, <2>3
<1>7. AnzNowhere(anzEvents, next, anzTemplate, anzInstalled, anzGhost')
  <2>1. next # AnzUnset BY AnzUnsetIsNone
  <2>2. anzEvents \in Seq(AnzNews) BY DEF AnzTypes
  <2> QED BY <1>2, <1>3, <1>5, <1>6, <2>1, <2>2, AnzNowhereByMine
<1>8. /\ anzMine' = next /\ UNCHANGED <<anzEvents, anzTemplate, anzChain, anzInstalled, anzUntold>>
      /\ anzEvents' \in Seq(AnzNews) BY <1>1 DEF AnzSetMine, AnzEdit, anzBack, anzCalls, AnzTypes
<1> QED BY <1>1, <1>5, <1>7, <1>8, AnzPushSteps

LEMMA AnzChainsHydrate == AnzTypes /\ AnzChainsOk /\ AnzHydrate => AnzChainsOk'
<1> SUFFICES ASSUME AnzTypes, AnzChainsOk, AnzHydrate PROVE AnzChainsOk' OBVIOUS
<1>1. PICK told : /\ AnzOk(anzEvents, anzSent, anzMine, anzTemplate, told, anzInstalled, anzGhost)
                  /\ "crossed" \notin anzGhost => AnzTells(anzUntold, anzSent, told, anzChain)
  BY DEF AnzChainsOk
<1>2. UNCHANGED <<anzEvents, anzTemplate, anzChain, anzInstalled, anzUntold>> /\ anzEvents' \in Seq(AnzNews)
  BY DEF AnzHydrate, anzBack, anzCalls, AnzTypes
<1>3. /\ AnzKeeps(anzGhost, anzGhost')
      /\ "crossed" \notin anzGhost' =>
           "crossed" \notin anzGhost /\ ~AnzCrossing(anzSent', anzEvents, anzUntold)
  <2>1. anzGhost \cup AnzCrossed(anzSent', anzEvents, anzUntold) \in SUBSET anzGhost'
    BY DEF AnzHydrate
  <2> QED BY <2>1, AnzNotedIs
<1>4. CASE anzMine = AnzUnset /\ anzAsk.chain.members # {}
  <2>1. PICK next \in AnzProper : next = anzAsk.chain BY DEF AnzTypes
  <2>2. anzMine' = next /\ anzSent' = AnzPushed(next, 0) BY <1>4, <2>1 DEF AnzHydrate, AnzSetMine
  <2>3. next # AnzUnset BY AnzUnsetIsNone
  <2>4. AnzFresh(anzGhost') => AnzKnown(anzEvents, anzInstalled) \cap next.members = {}
    BY <1>1, <1>3, <1>4 DEF AnzOk, AnzNowhere, AnzFresh, AnzKeeps
  <2>5. AnzNowhere(anzEvents, next, anzTemplate, anzInstalled, anzGhost')
    <3>1. anzEvents \in Seq(AnzNews) BY DEF AnzTypes
    <3>2. AnzNowhere(anzEvents, anzMine, anzTemplate, anzInstalled, anzGhost) BY <1>1 DEF AnzOk
    <3> QED BY <1>3, <2>3, <2>4, <3>1, <3>2, AnzNowhereByMine
  <2> QED BY <1>2, <1>3, <2>2, <2>5, AnzPushSteps
<1>5. CASE ~(anzMine = AnzUnset /\ anzAsk.chain.members # {})
  <2>1. UNCHANGED <<anzMine, anzSent>> BY <1>5 DEF AnzHydrate
  <2>2. AnzOk(anzEvents, anzSent, anzMine, anzTemplate, told, anzInstalled, anzGhost')
    BY <1>1, <1>3, AnzOkByGhost
  <2> QED BY <1>1, <1>2, <1>3, <2>1, <2>2 DEF AnzChainsOk
<1> QED BY <1>4, <1>5

\* What a step that stores a chain does to what is left to tell.
LEMMA AnzChainsStores ==
    ASSUME AnzTypes, AnzCallTypes, AnzChainsOk, NEW next, NEW job, AnzStores(next, job),
           UNCHANGED <<anzSent, anzEvents, anzMine, anzTemplate, anzInstalled>>
    PROVE  AnzChainsOk'
<1>1. PICK told : /\ AnzOk(anzEvents, anzSent, anzMine, anzTemplate, told, anzInstalled, anzGhost)
                  /\ "crossed" \notin anzGhost => AnzTells(anzUntold, anzSent, told, anzChain)
  BY DEF AnzChainsOk
<1>2. /\ AnzKeeps(anzGhost, anzGhost')
      /\ "crossed" \notin anzGhost' =>
           "crossed" \notin anzGhost /\ ~AnzCrossing(anzSent, anzEvents, anzUntold')
  <2>1. anzGhost \cup AnzCrossed(anzSent, anzEvents, anzUntold') \in SUBSET anzGhost'
    BY DEF AnzStores
  <2> QED BY <2>1, AnzNotedIs
<1>3. AnzOk(anzEvents, anzSent, anzMine, anzTemplate, told, anzInstalled, anzGhost')
  BY <1>1, <1>2, AnzOkByGhost
<1>4. ASSUME "crossed" \notin anzGhost' PROVE AnzTells(anzUntold', anzSent, told, anzChain')
  <2>1. anzChain' = next BY DEF AnzStores
  <2>2. CASE next = anzChain
    <3>1. UNCHANGED anzUntold BY <2>2 DEF AnzStores
    <3> QED BY <1>1, <1>2, <1>4, <2>1, <2>2, <3>1
  <2>3. CASE next # anzChain
    <3>1. anzUntold' = Append(anzUntold, [chain |-> next, job |-> job]) BY <2>3 DEF AnzStores
    <3>2. anzUntold' # <<>> /\ anzUntold'[Len(anzUntold')].chain = next
      <4>1. PICK x : x = [chain |-> next, job |-> job] OBVIOUS
      <4>2. Append(anzUntold, x) # <<>> /\ Append(anzUntold, x)[Len(Append(anzUntold, x))] = x
        BY DEF AnzCallTypes
      <4> QED BY <3>1, <4>1, <4>2
    <3>3. AnzNoSets(anzSent) BY <1>2, <1>4, <3>2, AnzCrossingIs
    <3> QED BY <2>1, <3>2, <3>3 DEF AnzTells
  <2> QED BY <2>2, <2>3
<1> QED BY <1>3, <1>4 DEF AnzChainsOk

LEMMA AnzChainsTell == AnzTypes /\ AnzCallTypes /\ AnzChainsOk /\ AnzTell => AnzChainsOk'
<1> SUFFICES ASSUME AnzTypes, AnzCallTypes, AnzChainsOk, AnzTell PROVE AnzChainsOk' OBVIOUS
<1>1. PICK told : /\ AnzOk(anzEvents, anzSent, anzMine, anzTemplate, told, anzInstalled, anzGhost)
                  /\ "crossed" \notin anzGhost => AnzTells(anzUntold, anzSent, told, anzChain)
  BY DEF AnzChainsOk
<1>2. PICK i \in DOMAIN anzUntold :
        /\ anzUntold' = AnzDropped(anzUntold, i)
        /\ anzEvents' = Append(anzEvents, [ev |-> "chain", chain |-> anzUntold[i].chain])
        /\ anzGhost' = anzGhost \cup (IF i = 1 THEN {} ELSE {"crossed"})
                          \cup AnzRevived(anzUntold[i].chain.members, anzInstalled) BY DEF AnzTell
<1>3. UNCHANGED <<anzSent, anzMine, anzTemplate, anzInstalled, anzChain>> BY DEF AnzTell, anzOnes
<1>4. PICK next \in AnzProper : next = anzUntold[i].chain BY AnzUntoldIs
<1>5. PICK e \in AnzNews : e = [ev |-> "chain", chain |-> next] BY DEF AnzNews
<1>6. e.ev = "chain" /\ e.chain = next /\ anzEvents' = Append(anzEvents, e) BY <1>2, <1>4, <1>5
<1>7. /\ AnzKeeps(anzGhost, anzGhost') /\ ("revived" \notin anzGhost' => next.members \in SUBSET anzInstalled)
      /\ "crossed" \notin anzGhost' => i = 1 /\ "crossed" \notin anzGhost
  BY <1>2, <1>4 DEF AnzKeeps, AnzRevived
<1>8. anzUntold # <<>> BY <1>2
<1>9. "crossed" \notin anzGhost' =>
        AnzNoSets(anzSent) /\ anzUntold[Len(anzUntold)].chain = anzChain
  BY <1>1, <1>7, <1>8 DEF AnzTells
<1>10. AnzOk(Append(anzEvents, e), anzSent, anzMine, anzTemplate, next, anzInstalled, anzGhost')
  BY <1>1, <1>6, <1>7, <1>9, AnzOkByTelling DEF AnzTypes
<1>11. ASSUME "crossed" \notin anzGhost' PROVE AnzTells(anzUntold', anzSent, next, anzChain)
  <2>1. i = 1 BY <1>7, <1>11
  <2>2. \/ anzUntold' = <<>> /\ Len(anzUntold) = 1
        \/ anzUntold' # <<>> /\ anzUntold'[Len(anzUntold')] = anzUntold[Len(anzUntold)]
    BY <1>2, <2>1, AnzDroppedIs DEF AnzCallTypes
  <2> QED BY <1>4, <1>9, <1>11, <2>1, <2>2 DEF AnzTells
<1> QED BY <1>3, <1>6, <1>10, <1>11 DEF AnzChainsOk

LEMMA AnzChainsCalls ==
    ASSUME AnzTypes, AnzCallTypes, AnzChainsOk, AnzAgentEdit \/ AnzJoinStores \/ AnzTell \/ AnzRefresh
    PROVE  AnzChainsOk'
<1>1. CASE AnzAgentEdit
  <2>1. PICK next : AnzStores(next, 0) BY <1>1 DEF AnzAgentEdit
  <2>2. UNCHANGED <<anzSent, anzEvents, anzMine, anzTemplate, anzInstalled>>
    BY <1>1 DEF AnzAgentEdit, anzOnes
  <2> QED BY <2>1, <2>2, AnzChainsStores
<1>2. CASE AnzJoinStores
  <2>1. AnzStores(anzJoin.chain, anzJoin.job) BY <1>2 DEF AnzJoinStores
  <2>2. UNCHANGED <<anzSent, anzEvents, anzMine, anzTemplate, anzInstalled>>
    BY <1>2 DEF AnzJoinStores, anzOnes
  <2> QED BY <2>1, <2>2, AnzChainsStores
<1>3. CASE AnzRefresh
  <2>1. UNCHANGED <<anzEvents, anzSent, anzMine, anzTemplate, anzInstalled, anzGhost, anzUntold, anzChain>>
    BY <1>3 DEF AnzRefresh, anzBack, anzCalls, anzHist
  <2> QED BY <2>1 DEF AnzChainsOk
<1> QED BY <1>1, <1>2, <1>3, AnzChainsTell

LEMMA AnzChainsBegin ==
    ASSUME AnzTypes, AnzChainsOk, NEW j \in AnzJobs, AnzBegin(j) \/ AnzJoinReads(j) PROVE AnzChainsOk'
<1>1. PICK told : /\ AnzOk(anzEvents, anzSent, anzMine, anzTemplate, told, anzInstalled, anzGhost)
                  /\ "crossed" \notin anzGhost => AnzTells(anzUntold, anzSent, told, anzChain)
  BY DEF AnzChainsOk
<1>2. UNCHANGED <<anzSent, anzMine, anzTemplate, anzInstalled, anzGhost, anzUntold, anzChain>>
  BY DEF AnzBegin, AnzJoinReads, anzOnes, anzHist
<1>3. UNCHANGED anzEvents \/ \E out \in AnzOuts : anzEvents' = Append(anzEvents, AnzComplete(j, out))
  BY AnzBeginIs DEF AnzJoinReads, AnzOuts
<1>4. CASE UNCHANGED anzEvents BY <1>1, <1>2, <1>4 DEF AnzChainsOk
<1>5. ASSUME NEW out \in AnzOuts, anzEvents' = Append(anzEvents, AnzComplete(j, out)) PROVE AnzChainsOk'
  <2>1. PICK e \in AnzNews : e = AnzComplete(j, out) /\ e.ev \in {"progress", "complete"}
    BY AnzCompleteIs DEF AnzComplete
  <2>2. AnzOk(Append(anzEvents, e), anzSent, anzMine, anzTemplate, told, anzInstalled, anzGhost)
    BY <1>1, <2>1, AnzOkByEvent DEF AnzTypes
  <2> QED BY <1>1, <1>2, <1>5, <2>1, <2>2 DEF AnzChainsOk
<1> QED BY <1>3, <1>4, <1>5

LEMMA AnzChainsUninstall == AnzTypes /\ AnzChainsOk /\ AnzUninstall => AnzChainsOk'
<1> SUFFICES ASSUME AnzTypes, AnzChainsOk, AnzUninstall PROVE AnzChainsOk' OBVIOUS
<1>0. PICK told : /\ AnzOk(anzEvents, anzSent, anzMine, anzTemplate, told, anzInstalled, anzGhost)
                  /\ "crossed" \notin anzGhost => AnzTells(anzUntold, anzSent, told, anzChain)
  BY DEF AnzChainsOk
<1>1. PICK p \in anzInstalled : /\ anzInstalled' = anzInstalled \ {p}
                                /\ anzEvents' = Append(anzEvents, [ev |-> "uninstall", id |-> p])
  BY DEF AnzUninstall
<1>2. PICK e : e = [ev |-> "uninstall", id |-> p] OBVIOUS
<1>3. e \in AnzNews /\ e.ev = "uninstall" /\ e.id = p BY <1>2 DEF AnzTypes, AnzNews
<1>4. UNCHANGED <<anzSent, anzMine, anzTemplate, anzChain, anzGhost, anzUntold>>
  BY DEF AnzUninstall, anzOnes, anzCalls
<1>5. anzEvents \in Seq(AnzNews) /\ anzSent \in Seq(AnzCommands) /\ anzInstalled \in SUBSET AnzProcs
  BY DEF AnzTypes
<1>6. AnzNowhere(Append(anzEvents, e), anzMine, anzTemplate, anzInstalled \ {e.id}, anzGhost)
  BY <1>0, <1>3, <1>5, AnzNowhereByUninstall DEF AnzOk
<1>7. ASSUME "crossed" \notin anzGhost PROVE AnzLinked(Append(anzEvents, e), anzSent, anzMine, told)
  BY <1>0, <1>3, <1>5, <1>7, AnzLinkedByEvent DEF AnzOk
<1> QED BY <1>0, <1>1, <1>2, <1>3, <1>4, <1>6, <1>7 DEF AnzChainsOk, AnzOk

LEMMA AnzChainsReceive == AnzTypes /\ AnzChainsOk /\ AnzReceive => AnzChainsOk'
<1> SUFFICES ASSUME AnzTypes, AnzChainsOk, AnzReceive PROVE AnzChainsOk' OBVIOUS
<1>0. PICK told : /\ AnzOk(anzEvents, anzSent, anzMine, anzTemplate, told, anzInstalled, anzGhost)
                  /\ "crossed" \notin anzGhost => AnzTells(anzUntold, anzSent, told, anzChain)
  BY DEF AnzChainsOk
<1>1. PICK c : c = Head(anzSent) OBVIOUS
<1>2. c.op \in {"set", "get", "stop"}
  <2>1. c \in AnzCommands BY <1>1, AnzHeadIs DEF AnzReceive, AnzTypes
  <2> QED BY <2>1 DEF AnzCommands
<1>3. anzChain' = IF c.op = "set" THEN c.chain ELSE anzChain
  <2>1. CASE c.op = "set" BY <1>1, <2>1 DEF AnzReceive
  <2>2. CASE c.op = "get" BY <1>1, <2>2 DEF AnzReceive
  <2>3. CASE c.op = "stop" BY <1>1, <2>3 DEF AnzReceive
  <2> QED BY <1>2, <2>1, <2>2, <2>3
<1>4. PICK next : next = IF c.op = "set" THEN c.chain ELSE told OBVIOUS
<1>5. /\ anzSent # <<>> /\ anzSent' = Tail(anzSent)
      /\ UNCHANGED <<anzEvents, anzMine, anzTemplate, anzInstalled, anzGhost, anzUntold>>
  BY DEF AnzReceive, anzHist, anzCalls
<1>6. anzEvents \in Seq(AnzNews) /\ anzSent \in Seq(AnzCommands) BY DEF AnzTypes
<1>7. ASSUME "crossed" \notin anzGhost
      PROVE  AnzLinked(anzEvents, Tail(anzSent), anzMine, next) /\ AnzTells(anzUntold, anzSent', next, anzChain')
  <2>1. next = IF Head(anzSent).op = "set" THEN Head(anzSent).chain ELSE told BY <1>1, <1>4
  <2>2. AnzLinked(anzEvents, anzSent, anzMine, told) /\ AnzTells(anzUntold, anzSent, told, anzChain)
    BY <1>0, <1>7 DEF AnzOk
  <2>3. PICK n \in Nat : n = Len(anzSent) BY <1>6
  <2>4. PICK t : t = Tail(anzSent) OBVIOUS
  <2>5. /\ n >= 1 /\ DOMAIN anzSent = 1 .. n /\ DOMAIN t = 1 .. n - 1 /\ c = anzSent[1]
        /\ \A k \in 1 .. n - 1 : t[k] = anzSent[k + 1] BY <1>1, <1>5, <1>6, <2>3, <2>4, ArtHeadTail
  <2>6. AnzNoSets(anzSent) => c.op # "set" /\ AnzNoSets(t)
    <3>1. 1 \in DOMAIN anzSent /\ \A k \in DOMAIN t : k + 1 \in DOMAIN anzSent BY <2>5
    <3> QED BY <2>5, <3>1 DEF AnzNoSets, AnzIsSet
  <2>7. AnzTells(anzUntold, anzSent', next, anzChain')
    BY <1>3, <1>4, <1>5, <2>2, <2>4, <2>6 DEF AnzTells
  <2> QED BY <1>5, <1>6, <2>1, <2>2, <2>7, AnzLinkedByReceive
<1> QED BY <1>0, <1>5, <1>7 DEF AnzChainsOk, AnzOk

LEMMA AnzChainsWindow ==
    ASSUME AnzTypes, AnzChainsOk, AnzStopSent \/ AnzStopAnswered \/ AnzFetch PROVE AnzChainsOk'
<1>0. PICK told : /\ AnzOk(anzEvents, anzSent, anzMine, anzTemplate, told, anzInstalled, anzGhost)
                  /\ "crossed" \notin anzGhost => AnzTells(anzUntold, anzSent, told, anzChain)
  BY DEF AnzChainsOk
<1>1. UNCHANGED <<anzEvents, anzMine, anzTemplate, anzInstalled, anzGhost, anzUntold, anzChain>>
  BY DEF AnzStopSent, AnzStopAnswered, AnzFetch, anzBack, anzOnes, anzHist, anzCalls
<1>2. CASE AnzStopSent
  <2>1. PICK c : c = [op |-> "stop", chain |-> AnzEmpty, job |-> 0] OBVIOUS
  <2>2. c \in AnzCommands /\ c.op # "set" /\ anzSent' = Append(anzSent, c)
    BY <1>2, <2>1, AnzEmptyIs DEF AnzCommands, AnzStopSent
  <2>3. anzEvents \in Seq(AnzNews) /\ anzSent \in Seq(AnzCommands) BY DEF AnzTypes
  <2>4. ASSUME "crossed" \notin anzGhost
        PROVE  /\ AnzLinked(anzEvents, Append(anzSent, c), anzMine, told)
               /\ AnzTells(anzUntold, Append(anzSent, c), told, anzChain)
    <3>1. PICK n, t : n = Len(anzSent) /\ t = Append(anzSent, c) OBVIOUS
    <3>2. /\ n \in Nat /\ DOMAIN anzSent = 1 .. n /\ DOMAIN t = 1 .. n + 1 /\ t[n + 1] = c
          /\ \A k \in 1 .. n : t[k] = anzSent[k] BY <2>2, <2>3, <3>1, AnzAppended
    <3>3. AnzNoSets(anzSent) => AnzNoSets(t)
      <4>1. \A k \in DOMAIN t : k = n + 1 \/ k \in DOMAIN anzSent BY <3>2
      <4> QED BY <2>2, <3>2, <4>1 DEF AnzNoSets, AnzIsSet
    <3>4. AnzTells(anzUntold, t, told, anzChain) BY <1>0, <2>4, <3>3 DEF AnzTells
    <3>5. AnzLinked(anzEvents, anzSent, anzMine, told) BY <1>0, <2>4 DEF AnzOk
    <3> QED BY <2>2, <2>3, <3>1, <3>4, <3>5, AnzLinkedByCommand
  <2> QED BY <1>0, <1>1, <2>2, <2>4 DEF AnzChainsOk, AnzOk
<1>3. CASE AnzStopAnswered \/ AnzFetch
  <2>1. UNCHANGED anzSent BY <1>3 DEF AnzStopAnswered, AnzFetch
  <2> QED BY <1>1, <2>1 DEF AnzChainsOk
<1> QED BY <1>2, <1>3

LEMMA AnzChainsRuns ==
    ASSUME AnzTypes, AnzChainsOk, NEW j \in AnzJobs,
           AnzAgentRuns(j) \/ AnzChunk(j) \/ AnzStore(j) \/ AnzRun(j) \/ AnzInvoke(j) \/ AnzAnswered(j)
    PROVE  AnzChainsOk'
<1>0. PICK told : /\ AnzOk(anzEvents, anzSent, anzMine, anzTemplate, told, anzInstalled, anzGhost)
                  /\ "crossed" \notin anzGhost => AnzTells(anzUntold, anzSent, told, anzChain)
  BY DEF AnzChainsOk
<1>1. CASE AnzAgentRuns(j) \/ AnzInvoke(j)
  <2>1. UNCHANGED <<anzEvents, anzSent, anzMine, anzTemplate, anzInstalled, anzGhost, anzUntold, anzChain>>
    BY <1>1 DEF AnzAgentRuns, AnzInvoke, anzBack, anzOnes, anzHist, anzCalls
  <2> QED BY <2>1 DEF AnzChainsOk
<1>2. CASE AnzChunk(j) \/ AnzStore(j)
  <2>1. UNCHANGED <<anzSent, anzMine, anzTemplate, anzInstalled, anzGhost, anzUntold, anzChain>>
    BY <1>2 DEF AnzChunk, AnzStore, anzBack, anzOnes, anzHist, anzCalls
  <2>2. [ev |-> "progress"] \in AnzNews /\ AnzComplete(j, "ok") \in AnzNews
    BY AnzCompleteIs DEF AnzNews, AnzOuts
  <2>3. PICK e \in AnzNews : e.ev \in {"progress", "complete"} /\ anzEvents' = Append(anzEvents, e)
    BY <1>2, <2>2 DEF AnzChunk, AnzStore, AnzComplete
  <2>4. AnzOk(Append(anzEvents, e), anzSent, anzMine, anzTemplate, told, anzInstalled, anzGhost)
    BY <1>0, <2>3, AnzOkByEvent DEF AnzTypes
  <2> QED BY <1>0, <2>1, <2>3, <2>4 DEF AnzChainsOk
<1>3. CASE AnzRun(j)
  <2>1. /\ UNCHANGED <<anzEvents, anzMine, anzTemplate, anzInstalled, anzUntold, anzChain>>
        /\ anzSent' = AnzPushed(AnzCurrent, j) /\ anzEvents' \in Seq(AnzNews)
    BY <1>3 DEF AnzRun, anzBack, anzOnes, anzCalls, AnzTypes
  <2>2. anzGhost \cup AnzCrossed(anzSent', anzEvents, anzUntold) \in SUBSET anzGhost'
    BY <1>3 DEF AnzRun
  <2>3. /\ AnzKeeps(anzGhost, anzGhost')
        /\ "crossed" \notin anzGhost' =>
             "crossed" \notin anzGhost /\ ~AnzCrossing(anzSent', anzEvents, anzUntold)
    BY <2>2, AnzNotedIs
  <2>4. AnzNowhere(anzEvents, anzMine, anzTemplate, anzInstalled, anzGhost')
    BY <1>0, <2>3, AnzNowhereByGhost DEF AnzOk
  <2> QED BY <2>1, <2>3, <2>4, AnzCurrentIs, AnzPushSteps
<1>4. CASE AnzAnswered(j)
  <2>1. UNCHANGED <<anzEvents, anzSent, anzMine, anzTemplate, anzInstalled, anzUntold, anzChain>>
    BY <1>4 DEF AnzAnswered, anzBack, anzOnes, anzCalls
  <2>2. AnzKeeps(anzGhost, anzGhost') /\ ("crossed" \in anzGhost => "crossed" \in anzGhost')
    BY <1>4 DEF AnzAnswered, AnzKeeps
  <2>3. AnzOk(anzEvents, anzSent, anzMine, anzTemplate, told, anzInstalled, anzGhost')
    BY <1>0, <2>2, AnzOkByGhost
  <2> QED BY <1>0, <2>1, <2>2, <2>3 DEF AnzChainsOk
<1> QED BY <1>1, <1>2, <1>3, <1>4

\* The window hears an event.
LEMMA AnzChainsHear == AnzTypes /\ AnzChainsOk /\ AnzHear => AnzChainsOk'
<1> SUFFICES ASSUME AnzTypes, AnzChainsOk, AnzHear PROVE AnzChainsOk' OBVIOUS
<1>0. PICK told : /\ AnzOk(anzEvents, anzSent, anzMine, anzTemplate, told, anzInstalled, anzGhost)
                  /\ "crossed" \notin anzGhost => AnzTells(anzUntold, anzSent, told, anzChain)
  BY DEF AnzChainsOk
<1>1. PICK e, t : e = Head(anzEvents) /\ t = Tail(anzEvents) OBVIOUS
<1>2. anzEvents \in Seq(AnzNews) /\ anzSent \in Seq(AnzCommands) /\ anzInstalled \in SUBSET AnzProcs
  BY DEF AnzTypes
<1>3. anzEvents # <<>> /\ anzEvents' = t /\ UNCHANGED <<anzChain, anzInstalled, anzUntold>>
  BY <1>1 DEF AnzHear, anzBack, anzCalls
<1>4. e \in AnzNews /\ t \in Seq(AnzNews) BY <1>1, <1>2, <1>3, AnzHeadIs
<1>5. PICK n \in Nat : n = Len(anzEvents) BY <1>2
<1>6. /\ n >= 1 /\ DOMAIN anzEvents = 1 .. n /\ DOMAIN t = 1 .. n - 1 /\ e = anzEvents[1]
      /\ \A k \in 1 .. n - 1 : t[k] = anzEvents[k + 1] BY <1>1, <1>2, <1>3, <1>5, ArtHeadTail
<1>7. \A k \in DOMAIN t : k + 1 \in DOMAIN anzEvents /\ k + 1 > 1 /\ t[k] = anzEvents[k + 1] BY <1>6
<1>8. /\ anzGhost \in SUBSET anzGhost' /\ AnzKeeps(anzGhost, anzGhost')
      /\ "crossed" \notin anzGhost' =>
           "crossed" \notin anzGhost /\ ~AnzCrossing(anzSent', t, anzUntold)
      /\ e.ev = "uninstall" /\ anzMine = AnzUnset => "unread" \in anzGhost'
  <2>1. /\ anzGhost \in SUBSET anzGhost' /\ AnzCrossed(anzSent', t, anzUntold) \in SUBSET anzGhost'
        /\ e.ev = "uninstall" /\ anzMine = AnzUnset => "unread" \in anzGhost'
    BY <1>1, <1>3 DEF AnzHear
  <2>2. anzGhost \cup AnzCrossed(anzSent', t, anzUntold) \in SUBSET anzGhost' BY <2>1
  <2> QED BY <2>1, <2>2, AnzNotedIs
<1>9. PICK known, left : /\ known = AnzKnown(anzEvents, anzInstalled)
                         /\ left = AnzKnown(t, anzInstalled)
  OBVIOUS
<1>10. /\ e.ev # "uninstall" => left = known
       /\ e.ev = "uninstall" => \A p \in left : p \in known \/ p = e.id
  BY <1>1, <1>2, <1>3, <1>9, AnzKnownByHearing
<1>11. AnzNowhere(anzEvents, anzMine, anzTemplate, anzInstalled, anzGhost) BY <1>0 DEF AnzOk
<1>12. /\ known \cap anzTemplate.members = {}
       /\ e.ev = "restored" => known = {}
       /\ "unread" \notin anzGhost /\ anzMine = AnzUnset => known = {}
       /\ AnzFresh(anzGhost) => known \cap anzMine.members = {}
  BY <1>6, <1>9, <1>11 DEF AnzNowhere, AnzFresh
<1>14. AnzFresh(anzGhost') => AnzFresh(anzGhost) /\ "unread" \notin anzGhost' BY <1>8 DEF AnzFresh
<1>16. ASSUME UNCHANGED anzSent, anzMine' = IF e.ev = "chain" THEN e.chain ELSE anzMine,
              AnzNowhere(t, anzMine', anzTemplate', anzInstalled, anzGhost')
       PROVE  AnzChainsOk'
  <2>1. PICK next : next = IF e.ev = "chain" THEN e.chain ELSE anzMine OBVIOUS
  <2>2. ASSUME "crossed" \notin anzGhost' PROVE AnzLinked(t, anzSent, next, told)
    <3>1. next = IF Head(anzEvents).ev = "chain" THEN Head(anzEvents).chain ELSE anzMine
      BY <1>1, <2>1
    <3>2. AnzLinked(anzEvents, anzSent, anzMine, told) BY <1>0, <1>8, <2>2 DEF AnzOk
    <3> QED BY <1>1, <1>2, <1>3, <3>1, <3>2, AnzUnsetIsNone, AnzLinkedByHearing
  <2>3. anzMine' = next BY <1>16, <2>1
  <2>4. "crossed" \notin anzGhost' => AnzTells(anzUntold, anzSent, told, anzChain) BY <1>0, <1>8
  <2> QED BY <1>3, <1>16, <2>2, <2>3, <2>4 DEF AnzChainsOk, AnzOk
<1>17. ASSUME NEW next \in AnzProper, anzMine' = next, anzSent' = AnzPushed(next, 0),
              AnzNowhere(t, anzMine', anzTemplate', anzInstalled, anzGhost')
       PROVE  AnzChainsOk' BY <1>3, <1>4, <1>8, <1>17, AnzPushSteps
<1>18. ASSUME NEW next, NEW cut, left \cap cut.members = {},
              "unread" \notin anzGhost' /\ next = AnzUnset => left = {},
              AnzFresh(anzGhost') => left \cap next.members = {}
       PROVE  AnzNowhere(t, next, cut, anzInstalled, anzGhost')
  BY <1>1, <1>2, <1>3, <1>8, <1>9, <1>11, <1>18, AnzNowhereByHearing
<1>19. CASE e.ev = "chain"
  <2>1. anzMine' = e.chain /\ UNCHANGED <<anzSent, anzTemplate>> /\ e.chain \in AnzProper
    BY <1>1, <1>4, <1>19, AnzNewsFields DEF AnzHear, AnzHearChain, AnzSetMine
  <2>2. ASSUME AnzFresh(anzGhost') PROVE left \cap e.chain.members = {}
    <3>1. AnzLive(anzEvents, 1, anzInstalled) /\ anzEvents[1] = e
      BY <1>6, <1>11, <1>14, <1>19, <2>2 DEF AnzNowhere, AnzFresh, AnzIsChain
    <3> SUFFICES ASSUME NEW p \in left, p \in e.chain.members PROVE FALSE OBVIOUS
    <3>2. p \notin anzInstalled /\ \A k \in DOMAIN t : ~AnzIsGone(t, k, p) BY <1>9 DEF AnzKnown
    <3>3. PICK l \in DOMAIN anzEvents : l > 1 /\ AnzIsGone(anzEvents, l, p)
      BY <3>1, <3>2 DEF AnzLive
    <3>4. l - 1 \in DOMAIN t /\ t[l - 1] = anzEvents[(l - 1) + 1] /\ (l - 1) + 1 = l BY <1>6, <3>3
    <3> QED BY <3>2, <3>3, <3>4 DEF AnzIsGone
  <2>3. e.chain # AnzUnset BY <2>1, AnzUnsetIsNone
  <2>4. AnzNowhere(t, e.chain, anzTemplate, anzInstalled, anzGhost')
    BY <1>10, <1>12, <1>18, <1>19, <2>2, <2>3
  <2> QED BY <1>16, <1>19, <2>1, <2>4
<1>20. CASE e.ev = "restored"
  <2>1. AnzHearRestored(e) /\ e.chain \in AnzProper BY <1>1, <1>4, <1>20, AnzNewsFields DEF AnzHear
  <2>2. \A next : AnzNowhere(t, next, anzTemplate, anzInstalled, anzGhost')
    BY <1>10, <1>12, <1>18, <1>20
  <2>3. UNCHANGED anzTemplate BY <2>1 DEF AnzHearRestored
  <2>4. CASE e.chain.members = {} BY <1>16, <1>20, <2>1, <2>2, <2>3, <2>4 DEF AnzHearRestored
  <2>5. CASE e.chain.members # {}
    <3>1. anzMine' = e.chain /\ anzSent' = AnzPushed(e.chain, 0)
      BY <2>1, <2>5 DEF AnzHearRestored, AnzSetMine
    <3> QED BY <1>17, <2>1, <2>2, <2>3, <3>1
  <2> QED BY <2>4, <2>5
<1>21. CASE e.ev = "uninstall"
  <2>1. AnzHearUninstall(e) /\ e.id \in AnzProcs BY <1>1, <1>4, <1>21, AnzNewsFields DEF AnzHear
  <2>2. anzTemplate' = AnzWithout(anzTemplate, {e.id}) /\ left \cap anzTemplate'.members = {}
    <3>1. anzTemplate \in AnzProper /\ anzTemplate' = AnzWithout(anzTemplate, {e.id})
      BY <2>1 DEF AnzTypes, AnzHearUninstall
    <3>2. anzTemplate'.members = anzTemplate.members \ {e.id} BY <3>1, AnzProperEdits
    <3> QED BY <1>10, <1>12, <1>21, <3>1, <3>2
  <2>3. CASE e.id \in anzMine.members
    <3>1. anzMine # AnzUnset BY <2>3 DEF AnzUnset
    <3>2. PICK next \in AnzProper : next = AnzWithout(anzMine, {e.id}) /\ next.members = anzMine.members \ {e.id}
      BY <3>1, AnzProperEdits DEF AnzTypes
    <3>3. anzMine' = next /\ anzSent' = AnzPushed(next, 0)
      BY <2>1, <2>3, <3>2 DEF AnzHearUninstall, AnzTouches, AnzSetMine
    <3>4. next # AnzUnset BY AnzUnsetIsNone
    <3>6. AnzFresh(anzGhost') => left \cap next.members = {} BY <1>10, <1>12, <1>14, <1>21, <3>2
    <3>7. AnzNowhere(t, next, anzTemplate', anzInstalled, anzGhost') BY <1>18, <2>2, <3>4, <3>6
    <3> QED BY <1>17, <3>3, <3>7
  <2>4. CASE e.id \notin anzMine.members
    <3>1. UNCHANGED <<anzMine, anzSent>> BY <2>1, <2>4 DEF AnzHearUninstall, AnzTouches
    <3>2. "unread" \notin anzGhost' => anzMine # AnzUnset BY <1>8, <1>21
    <3>4. AnzFresh(anzGhost') => left \cap anzMine.members = {} BY <1>10, <1>12, <1>14, <1>21, <2>4
    <3>5. AnzNowhere(t, anzMine, anzTemplate', anzInstalled, anzGhost') BY <1>18, <2>2, <3>2, <3>4
    <3> QED BY <1>16, <1>21, <3>1, <3>5
  <2> QED BY <2>3, <2>4
<1>22. CASE e.ev \in {"progress", "complete"}
  <2>1. UNCHANGED <<anzSent, anzMine, anzTemplate>>
    BY <1>1, <1>4, <1>22, AnzNewsFields DEF AnzHear, AnzHearProgress, AnzHearOwnComplete,
      AnzHearForeignComplete
  <2>2. "unread" \notin anzGhost' => "unread" \notin anzGhost BY <1>8
  <2>3. AnzNowhere(t, anzMine, anzTemplate, anzInstalled, anzGhost')
    BY <1>10, <1>12, <1>14, <1>18, <1>22, <2>2
  <2> QED BY <1>16, <1>22, <2>1, <2>3
<1> QED BY <1>4, <1>19, <1>20, <1>21, <1>22, AnzNewsFields

LEMMA AnzChainsNext == AnzTypes /\ AnzCallTypes /\ AnzChainsOk /\ [AnzNext]_anzVars => AnzChainsOk'
<1> SUFFICES ASSUME AnzTypes, AnzCallTypes, AnzChainsOk, [AnzNext]_anzVars PROVE AnzChainsOk' OBVIOUS
<1>1. CASE AnzNext
  <2>1. ASSUME NEW j \in AnzJobs,
               AnzAgentRuns(j) \/ AnzJoinReads(j) \/ AnzBegin(j) \/ AnzChunk(j) \/ AnzStore(j)
                 \/ AnzRun(j) \/ AnzInvoke(j) \/ AnzAnswered(j)
        PROVE  AnzChainsOk' BY <2>1, AnzChainsRuns, AnzChainsBegin
  <2> QED BY <1>1, <2>1, AnzChainsEdit, AnzChainsCalls, AnzChainsUninstall, AnzChainsReceive,
       AnzChainsWindow, AnzChainsHydrate, AnzChainsHear DEF AnzNext
<1>2. CASE UNCHANGED anzVars BY <1>2 DEF anzVars, anzBack, anzCalls, anzOnes, anzHist, AnzChainsOk
<1> QED BY <1>1, <1>2

\* What the invariant gives when nothing is on its way.
LEMMA AnzChainsSettle ==
    AnzTypes /\ AnzChainsOk => AnzChainsAgreeUncrossed /\ AnzGoneIsGone
<1> SUFFICES ASSUME AnzTypes, AnzChainsOk PROVE AnzChainsAgreeUncrossed /\ AnzGoneIsGone OBVIOUS
<1>0. PICK told : /\ AnzOk(anzEvents, anzSent, anzMine, anzTemplate, told, anzInstalled, anzGhost)
                  /\ "crossed" \notin anzGhost => AnzTells(anzUntold, anzSent, told, anzChain)
  BY DEF AnzChainsOk
<1>1. ASSUME AnzQuiet
      PROVE  /\ DOMAIN anzEvents = {} /\ DOMAIN anzSent = {} /\ anzEvents \in Seq(AnzNews)
             /\ anzSent \in Seq(AnzCommands) /\ anzUntold = <<>> BY <1>1 DEF AnzQuiet, AnzTypes
<1>2. ASSUME AnzQuiet, "crossed" \notin anzGhost, anzMine # AnzUnset PROVE anzMine = anzChain
  <2>1. told = anzChain BY <1>0, <1>1, <1>2 DEF AnzTells
  <2> QED BY <1>0, <1>1, <1>2, <2>1 DEF AnzOk, AnzLinked, AnzNoSets
<1>3. ASSUME AnzQuiet
      PROVE  /\ anzTemplate.members \subseteq anzInstalled
             /\ {"unread", "revived"} \cap anzGhost = {} => anzMine.members \subseteq anzInstalled
  <2>1. \A p \in AnzProcs : p \in anzInstalled \/ p \in AnzKnown(anzEvents, anzInstalled)
    BY <1>1, <1>3 DEF AnzKnown
  <2>2. /\ AnzKnown(anzEvents, anzInstalled) \cap anzTemplate.members = {}
        /\ {"unread", "revived"} \cap anzGhost = {} =>
             AnzKnown(anzEvents, anzInstalled) \cap anzMine.members = {}
    BY <1>0 DEF AnzOk, AnzNowhere, AnzFresh
  <2>3. anzMine.members \in SUBSET AnzProcs /\ anzTemplate.members \in SUBSET AnzProcs
    <3>1. AnzUnset.members = {} BY DEF AnzUnset
    <3> QED BY <3>1, AnzProperIs DEF AnzTypes
  <2> QED BY <2>1, <2>2, <2>3
<1>4. AnzGoneIsGone BY <1>2, <1>3 DEF AnzGoneIsGone
<1> QED BY <1>2, <1>4 DEF AnzChainsAgreeUncrossed, AnzChainsAgree

----------------------------------------
\* The runs.
AnzFails(out) == out \in {"error", "nochain"}
AnzAlive(job, j) == job[j].caller = "ui" /\ job[j].pc \notin {"none", "done"}
AnzTold(events, k, caller) == events[k].ev = "complete" /\ events[k].caller = caller
AnzIsTold(events, caller) == \E k \in DOMAIN events : AnzTold(events, k, caller)

\* One run at a time has the lock; a run that is over is the one whose
\* results are stored, or has none, or was followed by another.
AnzJobsOk(job, stored, result) ==
    /\ \A i, j \in AnzJobs : job[i].pc = "runs" /\ job[j].pc = "runs" => i = j
    /\ \A j \in AnzJobs :
         /\ job[j].out # "none" <=> job[j].pc \in {"answered", "done"}
         /\ job[j].pc \in {"set", "ready", "answered"} => job[j].caller = "ui"
         /\ job[j].out = "ok" => stored # 0
    /\ stored # 0 => job[stored].out = "ok"
    /\ result # 0 => stored # 0

\* A completion tells how a run ended; the progress of a run is followed
\* by its completion or the run goes on.
AnzEndsAfter(events, k) ==
    \E l \in DOMAIN events : /\ l > k /\ events[l].ev = "complete"
                             /\ events[l].caller = "ui" => ~AnzFails(events[l].out)
AnzNewsOk(events, job) ==
    /\ \A k \in DOMAIN events : events[k].ev = "complete" =>
         /\ job[events[k].job].caller = events[k].caller /\ job[events[k].job].out = events[k].out
    /\ \A k \in DOMAIN events : events[k].ev = "progress" =>
         (\E j \in AnzJobs : job[j].pc = "runs") \/ AnzEndsAfter(events, k)

\* A run is pushed for once.
AnzPushes(sent, k, j) == sent[k].op = "set" /\ sent[k].job = j
AnzPushesOk(sent, job) ==
    \A j \in AnzJobs, k \in DOMAIN sent : AnzPushes(sent, k, j) =>
      /\ job[j].pc = "set"
      /\ \A l \in DOMAIN sent : AnzPushes(sent, l, j) => l = k

\* While own runs do not overlap: the own run that is under way is the one
\* the window has; it is over once it is both answered and heard of.
AnzAwaits(events, job, j) ==
    IF job[j].pc \in {"asked", "runs"} \/ (job[j].pc = "answered" /\ AnzIsTold(events, "ui")) THEN 1 ELSE 0
AnzOwnOk(events, job, own, gen, token) ==
    /\ \A j \in AnzJobs : AnzAlive(job, j) =>
         /\ own.job = j /\ ~own.settled /\ own.awaits = AnzAwaits(events, job, j)
         /\ job[j].pc # "answered" => ~AnzIsTold(events, "ui")
    /\ own.job = 0 => own = AnzNoOwn
    /\ own.job # 0 =>
         /\ job[own.job].caller = "ui" /\ job[own.job].gen = gen /\ token < gen
         /\ job[own.job].pc # "none"
         /\ job[own.job].pc = "done" =>
              own.settled /\ own.awaits = 1 /\ AnzIsTold(events, "ui")
    /\ \A i, k \in DOMAIN events : AnzTold(events, i, "ui") /\ AnzTold(events, k, "ui") => i = k
    /\ \A k \in DOMAIN events :
         AnzTold(events, k, "ui") /\ ~AnzFails(events[k].out) => own.job = events[k].job

\* A foreign run the window shows is one: it will hear of its end.
AnzRowOk(events, job, running, gen, token) ==
    /\ token # 0 => \/ AnzIsTold(events, "agent")
                    \/ \E j \in AnzJobs : job[j].pc = "runs" /\ job[j].caller = "agent"
    /\ running => (\E j \in AnzJobs : AnzAlive(job, j)) \/ (token # 0 /\ token = gen)

\* The results shown are those that are stored, or the news of those is on
\* its way.
AnzBrings(events, k) == AnzTold(events, k, "agent") /\ events[k].out = "ok"
AnzNoneBrings(events) == \A k \in DOMAIN events : ~AnzBrings(events, k)
AnzAgentResult(events, job, stored, result, ghost) ==
    stored # 0 /\ job[stored].caller = "agent" =>
      /\ \A k \in DOMAIN events :
           AnzBrings(events, k) /\ (\A l \in DOMAIN events : l > k => ~AnzBrings(events, l)) =>
             events[k].job = stored
      /\ {"missed", "emptied"} \cap ghost = {} /\ AnzNoneBrings(events) =>
           /\ result = stored
           /\ \A j \in AnzJobs : ~(job[j].pc = "answered" /\ job[j].out = "ok")
AnzUserResult(events, job, stored, own, result, ghost) ==
    stored # 0 /\ job[stored].caller = "ui" =>
      /\ \A k \in DOMAIN events : AnzBrings(events, k) =>
           own.job = stored /\ \E l \in DOMAIN events : l > k /\ AnzTold(events, l, "ui")
      /\ {"missed", "emptied"} \cap ghost = {} /\ job[stored].pc = "done" => result = stored
AnzAnswerResult(job, stored) ==
    \A j \in AnzJobs : job[j].pc = "answered" /\ job[j].out = "ok" =>
      stored = j \/ job[stored].caller = "agent"
AnzResultOk(events, job, stored, own, result, ghost) ==
    /\ AnzAgentResult(events, job, stored, result, ghost)
    /\ AnzUserResult(events, job, stored, own, result, ghost) /\ AnzAnswerResult(job, stored)

AnzRunsOk(events, job, stored, running, result, own, gen, token, ghost) ==
    /\ AnzJobsOk(job, stored, result) /\ AnzNewsOk(events, job)
    /\ "overlap" \notin ghost =>
         /\ AnzOwnOk(events, job, own, gen, token) /\ AnzRowOk(events, job, running, gen, token)
         /\ AnzResultOk(events, job, stored, own, result, ghost)

\* The events, one more or one less.
LEMMA AnzToldByEvent ==
    ASSUME NEW events \in Seq(AnzNews), NEW e \in AnzNews, NEW caller
    PROVE  AnzIsTold(Append(events, e), caller) <=>
             AnzIsTold(events, caller) \/ (e.ev = "complete" /\ e.caller = caller)
<1>1. PICK n, t : n = Len(events) /\ t = Append(events, e) OBVIOUS
<1>2. /\ n \in Nat /\ DOMAIN events = 1 .. n /\ DOMAIN t = 1 .. n + 1 /\ t[n + 1] = e
      /\ \A k \in 1 .. n : t[k] = events[k] BY <1>1, AnzAppended
<1>3. \A k \in DOMAIN t : k = n + 1 \/ k \in DOMAIN events BY <1>2
<1>4. n + 1 \in DOMAIN t /\ \A k \in DOMAIN events : k \in DOMAIN t /\ t[k] = events[k] BY <1>2
<1> QED BY <1>1, <1>2, <1>3, <1>4 DEF AnzIsTold, AnzTold

\* An event that is no progress and no completion.
LEMMA AnzRunsByNews ==
    ASSUME NEW events \in Seq(AnzNews), NEW e \in AnzNews, NEW job, NEW stored, NEW running, NEW result,
           NEW own, NEW gen, NEW token, NEW ghost,
           e.ev # "complete", e.ev = "progress" => \E j \in AnzJobs : job[j].pc = "runs",
           AnzRunsOk(events, job, stored, running, result, own, gen, token, ghost)
    PROVE  AnzRunsOk(Append(events, e), job, stored, running, result, own, gen, token, ghost)
<1>1. PICK n, t : n = Len(events) /\ t = Append(events, e) OBVIOUS
<1>2. /\ n \in Nat /\ DOMAIN events = 1 .. n /\ DOMAIN t = 1 .. n + 1 /\ t[n + 1] = e
      /\ \A k \in 1 .. n : t[k] = events[k] BY <1>1, AnzAppended
<1>3. \A k \in DOMAIN t : k = n + 1 \/ k \in DOMAIN events BY <1>2
<1>4. \A k \in DOMAIN events : k \in DOMAIN t /\ t[k] = events[k] BY <1>2
<1>5. \A k \in DOMAIN t : t[k].ev = "complete" => k \in DOMAIN events /\ t[k] = events[k]
  BY <1>2, <1>3
<1>6. \A c : AnzIsTold(t, c) <=> AnzIsTold(events, c) BY <1>1, AnzToldByEvent
<1>7. \A k \in DOMAIN events : AnzEndsAfter(events, k) => AnzEndsAfter(t, k)
  BY <1>4 DEF AnzEndsAfter
<1>8. AnzNewsOk(t, job)
  <2>1. AnzNewsOk(events, job) BY DEF AnzRunsOk
  <2>2. ASSUME NEW k \in DOMAIN t, t[k].ev = "progress", ~\E j \in AnzJobs : job[j].pc = "runs"
        PROVE  AnzEndsAfter(t, k)
    <3>1. k \in DOMAIN events /\ t[k] = events[k] BY <1>2, <1>3, <2>2
    <3> QED BY <1>7, <2>1, <2>2, <3>1 DEF AnzNewsOk
  <2> QED BY <1>5, <2>1, <2>2 DEF AnzNewsOk
<1>9. ASSUME "overlap" \notin ghost
      PROVE  /\ AnzOwnOk(t, job, own, gen, token) /\ AnzRowOk(t, job, running, gen, token)
             /\ AnzResultOk(t, job, stored, own, result, ghost)
  <2>1. /\ AnzOwnOk(events, job, own, gen, token) /\ AnzRowOk(events, job, running, gen, token)
        /\ AnzResultOk(events, job, stored, own, result, ghost) BY <1>9 DEF AnzRunsOk
  <2>2. \A j \in AnzJobs : AnzAwaits(t, job, j) = AnzAwaits(events, job, j) BY <1>6 DEF AnzAwaits
  <2>3. AnzOwnOk(t, job, own, gen, token) BY <1>5, <1>6, <2>1, <2>2 DEF AnzOwnOk, AnzTold
  <2>4. AnzRowOk(t, job, running, gen, token) BY <1>6, <2>1 DEF AnzRowOk
  <2>5. \A k \in DOMAIN t : AnzBrings(t, k) => k \in DOMAIN events /\ t[k] = events[k] /\ AnzBrings(events, k)
    BY <1>5 DEF AnzBrings, AnzTold
  <2>6. \A k \in DOMAIN events : AnzBrings(events, k) => k \in DOMAIN t /\ AnzBrings(t, k)
    BY <1>4 DEF AnzBrings, AnzTold
  <2>7. AnzNoneBrings(t) => AnzNoneBrings(events) BY <2>6 DEF AnzNoneBrings
  <2>8. \A k \in DOMAIN events : (\E l \in DOMAIN events : l > k /\ AnzTold(events, l, "ui")) =>
                                   \E l \in DOMAIN t : l > k /\ AnzTold(t, l, "ui")
    BY <1>4 DEF AnzTold
  <2>9. AnzResultOk(t, job, stored, own, result, ghost)
    <3>1. ASSUME stored # 0, job[stored].caller = "agent", NEW k \in DOMAIN t, AnzBrings(t, k),
                 \A l \in DOMAIN t : l > k => ~AnzBrings(t, l)
          PROVE  t[k].job = stored
      BY <2>1, <2>5, <2>6, <3>1 DEF AnzResultOk, AnzAgentResult, AnzUserResult
    <3>2. ASSUME stored # 0, job[stored].caller = "ui", NEW k \in DOMAIN t, AnzBrings(t, k)
          PROVE  own.job = stored /\ \E l \in DOMAIN t : l > k /\ AnzTold(t, l, "ui")
      BY <2>1, <2>5, <2>8, <3>2 DEF AnzResultOk, AnzAgentResult, AnzUserResult
    <3> QED BY <2>1, <2>7, <3>1, <3>2 DEF AnzResultOk, AnzAgentResult, AnzUserResult
  <2> QED BY <2>3, <2>4, <2>9
<1> QED BY <1>1, <1>8, <1>9 DEF AnzRunsOk

LEMMA AnzTailIs ==
    ASSUME NEW events \in Seq(AnzNews), events # <<>>
    PROVE  /\ \A k \in DOMAIN Tail(events) :
                k + 1 \in DOMAIN events /\ Tail(events)[k] = events[k + 1] /\ k \in Nat /\ k >= 1
           /\ \A k \in DOMAIN events :
                k \in Nat /\ (k = 1 \/ (k - 1 \in DOMAIN Tail(events) /\ Tail(events)[k - 1] = events[k]
                                        /\ (k - 1) + 1 = k))
           /\ \A k \in DOMAIN Tail(events), l \in DOMAIN events : l > k + 1 =>
                l - 1 \in DOMAIN Tail(events) /\ l - 1 > k /\ Tail(events)[l - 1] = events[l]
           /\ 1 \in DOMAIN events /\ Head(events) = events[1]
<1>1. PICK n \in Nat : n = Len(events) OBVIOUS
<1>2. PICK t : t = Tail(events) OBVIOUS
<1>3. /\ n >= 1 /\ DOMAIN events = 1 .. n /\ DOMAIN t = 1 .. n - 1 /\ Head(events) = events[1]
      /\ \A k \in 1 .. n - 1 : t[k] = events[k + 1] BY <1>1, <1>2, ArtHeadTail
<1>4. \A k \in DOMAIN t : k + 1 \in DOMAIN events /\ t[k] = events[k + 1] /\ k \in Nat /\ k >= 1
  BY <1>3
<1>5. \A k \in DOMAIN events : k = 1 \/ (k - 1 \in DOMAIN t /\ t[k - 1] = events[k] /\ (k - 1) + 1 = k)
  <2> TAKE k \in DOMAIN events
  <2>1. k # 1 => k - 1 \in 1 .. n - 1 /\ (k - 1) + 1 = k BY <1>3
  <2> QED BY <1>3, <2>1
<1>6. \A k \in DOMAIN t, l \in DOMAIN events : l > k + 1 => l - 1 \in DOMAIN t /\ l - 1 > k /\ t[l - 1] = events[l]
  <2> TAKE k \in DOMAIN t, l \in DOMAIN events
  <2>1. k \in Nat /\ l \in Nat /\ (l > k + 1 => l # 1 /\ l - 1 > k) BY <1>3
  <2> QED BY <1>5, <2>1
<1>7. \A k \in DOMAIN events : k \in Nat BY <1>3
<1>8. 1 \in DOMAIN events BY <1>3
<1> QED BY <1>2, <1>3, <1>4, <1>5, <1>6, <1>7, <1>8

LEMMA AnzToldByHearing ==
    ASSUME NEW events \in Seq(AnzNews), events # <<>>, NEW caller
    PROVE  AnzIsTold(events, caller) <=>
             AnzIsTold(Tail(events), caller) \/ AnzTold(events, 1, caller)
<1>1. PICK t : t = Tail(events) OBVIOUS
<1>2. /\ \A k \in DOMAIN t : k + 1 \in DOMAIN events /\ t[k] = events[k + 1]
      /\ \A k \in DOMAIN events : k = 1 \/ (k - 1 \in DOMAIN t /\ t[k - 1] = events[k])
      /\ 1 \in DOMAIN events BY <1>1, AnzTailIs
<1>3. AnzIsTold(t, caller) => AnzIsTold(events, caller) BY <1>2 DEF AnzIsTold, AnzTold
<1>4. AnzIsTold(events, caller) => AnzIsTold(t, caller) \/ AnzTold(events, 1, caller)
  BY <1>2 DEF AnzIsTold, AnzTold
<1>5. AnzTold(events, 1, caller) => AnzIsTold(events, caller) BY <1>2 DEF AnzIsTold
<1> QED BY <1>1, <1>3, <1>4, <1>5

LEMMA AnzNewsByHearing ==
    ASSUME NEW events \in Seq(AnzNews), events # <<>>, NEW job, AnzNewsOk(events, job)
    PROVE  AnzNewsOk(Tail(events), job)
<1>1. PICK t : t = Tail(events) OBVIOUS
<1>2. /\ \A k \in DOMAIN t : k + 1 \in DOMAIN events /\ t[k] = events[k + 1]
      /\ \A k \in DOMAIN t, l \in DOMAIN events : l > k + 1 => l - 1 \in DOMAIN t /\ l - 1 > k /\ t[l - 1] = events[l]
  BY <1>1, AnzTailIs
<1>3. \A k \in DOMAIN t : AnzEndsAfter(events, k + 1) => AnzEndsAfter(t, k)
  <2> SUFFICES ASSUME NEW k \in DOMAIN t, AnzEndsAfter(events, k + 1) PROVE AnzEndsAfter(t, k)
    OBVIOUS
  <2>1. PICK l \in DOMAIN events : /\ l > k + 1 /\ events[l].ev = "complete"
                                   /\ events[l].caller = "ui" => ~AnzFails(events[l].out)
    BY DEF AnzEndsAfter
  <2> QED BY <1>2, <2>1 DEF AnzEndsAfter
<1> QED BY <1>1, <1>2, <1>3 DEF AnzNewsOk

\* The first event heard, the last news of a run is still the last.
LEMMA AnzResultOfTail ==
    ASSUME NEW events \in Seq(AnzNews), events # <<>>, NEW job, NEW stored, NEW own, NEW result, NEW ghost,
           AnzResultOk(events, job, stored, own, result, ghost)
    PROVE  /\ stored # 0 /\ job[stored].caller = "agent" =>
                \A k \in DOMAIN Tail(events) :
                  /\ AnzBrings(Tail(events), k)
                  /\ \A l \in DOMAIN Tail(events) : l > k => ~AnzBrings(Tail(events), l)
                  => Tail(events)[k].job = stored
           /\ stored # 0 /\ job[stored].caller = "ui" =>
                \A k \in DOMAIN Tail(events) : AnzBrings(Tail(events), k) =>
                  /\ own.job = stored
                  /\ \E l \in DOMAIN events : l > k + 1 /\ AnzTold(events, l, "ui")
                  /\ \E l \in DOMAIN Tail(events) : l > k /\ AnzTold(Tail(events), l, "ui")
           /\ ~AnzBrings(events, 1) /\ AnzNoneBrings(Tail(events)) => AnzNoneBrings(events)
<1>1. PICK t : t = Tail(events) OBVIOUS
<1>2. \A k \in DOMAIN t : k + 1 \in DOMAIN events /\ t[k] = events[k + 1] BY <1>1, AnzTailIs
<1>3. \A k \in DOMAIN events : k = 1 \/ (k - 1 \in DOMAIN t /\ t[k - 1] = events[k] /\ (k - 1) + 1 = k)
  BY <1>1, AnzTailIs
<1>4. \A k \in DOMAIN t, l \in DOMAIN events : l > k + 1 => l - 1 \in DOMAIN t /\ l - 1 > k /\ t[l - 1] = events[l]
  BY <1>1, AnzTailIs
<1>5. \A k \in DOMAIN t : AnzBrings(t, k) <=> AnzBrings(events, k + 1)
  BY <1>2 DEF AnzBrings, AnzTold
<1>6. ASSUME stored # 0, job[stored].caller = "agent", NEW k \in DOMAIN t, AnzBrings(t, k),
             \A l \in DOMAIN t : l > k => ~AnzBrings(t, l)
      PROVE  t[k].job = stored
  <2>1. ASSUME NEW l \in DOMAIN events, l > k + 1 PROVE ~AnzBrings(events, l)
    <3>1. l - 1 \in DOMAIN t /\ l - 1 > k /\ t[l - 1] = events[l] BY <1>4, <2>1
    <3> QED BY <1>6, <3>1 DEF AnzBrings, AnzTold
  <2> QED BY <1>2, <1>5, <1>6, <2>1 DEF AnzResultOk, AnzAgentResult, AnzUserResult
<1>7. ASSUME stored # 0, job[stored].caller = "ui", NEW k \in DOMAIN t, AnzBrings(t, k)
      PROVE  /\ own.job = stored
             /\ \E l \in DOMAIN events : l > k + 1 /\ AnzTold(events, l, "ui")
             /\ \E l \in DOMAIN t : l > k /\ AnzTold(t, l, "ui")
  <2>1. own.job = stored /\ \E l \in DOMAIN events : l > k + 1 /\ AnzTold(events, l, "ui")
    BY <1>2, <1>5, <1>7 DEF AnzResultOk, AnzAgentResult, AnzUserResult
  <2>2. \E l \in DOMAIN t : l > k /\ AnzTold(t, l, "ui") BY <1>4, <2>1 DEF AnzTold
  <2> QED BY <2>1, <2>2
<1>8. ~AnzBrings(events, 1) /\ AnzNoneBrings(t) => AnzNoneBrings(events)
  BY <1>3, <1>5 DEF AnzNoneBrings
<1> QED BY <1>1, <1>6, <1>7, <1>8

\* ... is heard.
LEMMA AnzRunsByHearing ==
    ASSUME NEW events \in Seq(AnzNews), NEW job, NEW stored, NEW running, NEW result,
           NEW own, NEW gen, NEW token, NEW ghost, events # <<>>, Head(events).ev # "complete",
           AnzRunsOk(events, job, stored, running, result, own, gen, token, ghost)
    PROVE  AnzRunsOk(Tail(events), job, stored, running, result, own, gen, token, ghost)
<1>1. PICK t : t = Tail(events) OBVIOUS
<1>3. 1 \in DOMAIN events /\ Head(events) = events[1] BY AnzTailIs
<1>4. \A k \in DOMAIN t : k + 1 \in DOMAIN events /\ t[k] = events[k + 1] BY <1>1, AnzTailIs
<1>5. \A k \in DOMAIN events : k = 1 \/ (k - 1 \in DOMAIN t /\ t[k - 1] = events[k] /\ (k - 1) + 1 = k)
  BY <1>1, AnzTailIs
<1>6. \A c : AnzIsTold(t, c) <=> AnzIsTold(events, c) BY <1>1, <1>3, AnzToldByHearing DEF AnzTold
<1>7. \A k, l \in DOMAIN t : k \in Nat /\ l \in Nat BY <1>1, AnzTailIs
<1>8. \A k \in DOMAIN t, l \in DOMAIN events : l > k + 1 => l - 1 \in DOMAIN t /\ l - 1 > k /\ t[l - 1] = events[l]
  BY <1>1, AnzTailIs
<1>9. AnzNewsOk(t, job) BY <1>1, AnzNewsByHearing DEF AnzRunsOk
<1>10. ASSUME "overlap" \notin ghost
       PROVE  /\ AnzOwnOk(t, job, own, gen, token) /\ AnzRowOk(t, job, running, gen, token)
              /\ AnzResultOk(t, job, stored, own, result, ghost)
  <2>1. /\ AnzOwnOk(events, job, own, gen, token) /\ AnzRowOk(events, job, running, gen, token)
        /\ AnzResultOk(events, job, stored, own, result, ghost) BY <1>10 DEF AnzRunsOk
  <2>2. \A j \in AnzJobs : AnzAwaits(t, job, j) = AnzAwaits(events, job, j) BY <1>6 DEF AnzAwaits
  <2>3. AnzOwnOk(t, job, own, gen, token)
    <3>1. \A k \in DOMAIN t : AnzTold(t, k, "ui") => k + 1 \in DOMAIN events /\ AnzTold(events, k + 1, "ui")
      BY <1>4 DEF AnzTold
    <3>2. \A i, k \in DOMAIN t : AnzTold(t, i, "ui") /\ AnzTold(t, k, "ui") => i = k
      <4> SUFFICES ASSUME NEW i \in DOMAIN t, NEW k \in DOMAIN t, AnzTold(t, i, "ui"), AnzTold(t, k, "ui")
                   PROVE  i = k
        OBVIOUS
      <4>1. i + 1 = k + 1 BY <2>1, <3>1 DEF AnzOwnOk
      <4> QED BY <1>7, <4>1
    <3>3. \A k \in DOMAIN t : AnzTold(t, k, "ui") /\ ~AnzFails(t[k].out) => own.job = t[k].job
      BY <1>4, <2>1, <3>1 DEF AnzOwnOk
    <3> QED BY <1>6, <2>1, <2>2, <3>2, <3>3 DEF AnzOwnOk
  <2>4. AnzRowOk(t, job, running, gen, token) BY <1>6, <2>1 DEF AnzRowOk
  <2>6. ~AnzBrings(events, 1) BY <1>3 DEF AnzBrings, AnzTold
  <2>7. AnzNoneBrings(t) => AnzNoneBrings(events) BY <1>1, <2>1, <2>6, AnzResultOfTail
  <2>8. AnzResultOk(t, job, stored, own, result, ghost)
    <3>1. ASSUME stored # 0, job[stored].caller = "agent", NEW k \in DOMAIN t, AnzBrings(t, k),
                 \A l \in DOMAIN t : l > k => ~AnzBrings(t, l)
          PROVE  t[k].job = stored BY <1>1, <2>1, <3>1, AnzResultOfTail
    <3>2. ASSUME stored # 0, job[stored].caller = "ui", NEW k \in DOMAIN t, AnzBrings(t, k)
          PROVE  own.job = stored /\ \E l \in DOMAIN t : l > k /\ AnzTold(t, l, "ui")
      BY <1>1, <2>1, <3>2, AnzResultOfTail
    <3> QED BY <2>1, <2>7, <3>1, <3>2 DEF AnzResultOk, AnzAgentResult, AnzUserResult
  <2> QED BY <2>3, <2>4, <2>8
<1> QED BY <1>1, <1>9, <1>10 DEF AnzRunsOk

\* What a run has beside its turn, its caller, its end and its generation
\* does not matter.
LEMMA AnzRunsByJobs ==
    ASSUME NEW events \in Seq(AnzNews), NEW job, NEW to, NEW stored \in AnzJobs \cup {0},
           NEW running, NEW result, NEW own \in AnzOwnSet, NEW gen, NEW token, NEW ghost,
           \A j \in AnzJobs : /\ to[j].pc = job[j].pc /\ to[j].caller = job[j].caller
                              /\ to[j].out = job[j].out /\ to[j].gen = job[j].gen,
           AnzRunsOk(events, job, stored, running, result, own, gen, token, ghost)
    PROVE  AnzRunsOk(events, to, stored, running, result, own, gen, token, ghost)
<1>1. \A k \in DOMAIN events : events[k] \in AnzNews OBVIOUS
<1>2. \A k \in DOMAIN events : events[k].ev = "complete" => events[k].job \in AnzJobs
  BY <1>1, AnzNewsFields
<1>3. stored # 0 => stored \in AnzJobs OBVIOUS
<1>4. own.job # 0 => own.job \in AnzJobs BY DEF AnzOwnSet
<1>5. AnzJobsOk(to, stored, result) BY <1>3 DEF AnzRunsOk, AnzJobsOk
<1>6. AnzNewsOk(events, to) BY <1>2 DEF AnzRunsOk, AnzNewsOk
<1>7. ASSUME "overlap" \notin ghost
      PROVE  /\ AnzOwnOk(events, to, own, gen, token) /\ AnzRowOk(events, to, running, gen, token)
             /\ AnzResultOk(events, to, stored, own, result, ghost)
  <2>1. /\ AnzOwnOk(events, job, own, gen, token) /\ AnzRowOk(events, job, running, gen, token)
        /\ AnzResultOk(events, job, stored, own, result, ghost) BY <1>7 DEF AnzRunsOk
  <2>2. \A j \in AnzJobs : /\ AnzAwaits(events, to, j) = AnzAwaits(events, job, j)
                           /\ AnzAlive(to, j) <=> AnzAlive(job, j) BY DEF AnzAwaits, AnzAlive
  <2>3. AnzOwnOk(events, to, own, gen, token) BY <1>4, <2>1, <2>2 DEF AnzOwnOk
  <2>4. AnzRowOk(events, to, running, gen, token) BY <2>1, <2>2 DEF AnzRowOk
  <2>5. AnzResultOk(events, to, stored, own, result, ghost)
    <3>1. AnzAgentResult(events, to, stored, result, ghost)
      BY <1>3, <2>1 DEF AnzResultOk, AnzAgentResult
    <3>2. AnzUserResult(events, to, stored, own, result, ghost)
      BY <1>3, <2>1 DEF AnzResultOk, AnzUserResult
    <3>0. \A i \in AnzJobs : job[i].out = "ok" => stored # 0 BY DEF AnzRunsOk, AnzJobsOk
    <3>3. AnzAnswerResult(to, stored) BY <1>3, <2>1, <3>0 DEF AnzResultOk, AnzAnswerResult
    <3> QED BY <3>1, <3>2, <3>3 DEF AnzResultOk
  <2> QED BY <2>3, <2>4, <2>5
<1> QED BY <1>5, <1>6, <1>7 DEF AnzRunsOk

\* A run goes on: its push is taken, it is asked for, it gets the lock.
LEMMA AnzRunsByTurn ==
    ASSUME NEW events \in Seq(AnzNews), NEW job \in [AnzJobs -> AnzJobSet], NEW j \in AnzJobs, NEW from, NEW next,
           NEW stored \in AnzJobs \cup {0}, NEW running, NEW result,
           NEW own \in AnzOwnSet, NEW with, NEW gen, NEW token, NEW ghost,
           job[j].pc = from,
           \/ from = "set" /\ next = "ready" /\ with = own
           \/ from = "ready" /\ next = "asked"
              /\ with = IF own.job = j THEN [own EXCEPT !.awaits = own.awaits + 1] ELSE own
           \/ from = "asked" /\ next = "runs" /\ with = own /\ \A i \in AnzJobs : job[i].pc # "runs",
           AnzRunsOk(events, job, stored, running, result, own, gen, token, ghost)
    PROVE  AnzRunsOk(events, [job EXCEPT ![j].pc = next], stored, running, result, with, gen, token, ghost)
<1>1. PICK to : to = [job EXCEPT ![j].pc = next] OBVIOUS
<1>2. /\ \A i \in AnzJobs : /\ to[i].caller = job[i].caller /\ to[i].out = job[i].out /\ to[i].gen = job[i].gen
                            /\ i # j => to[i].pc = job[i].pc
      /\ to[j].pc = next BY <1>1 DEF AnzJobSet
<1>3. from \in {"set", "ready", "asked"} /\ next \in {"ready", "asked", "runs"} OBVIOUS
<1>4. \A k \in DOMAIN events : events[k].ev = "complete" => events[k].job \in AnzJobs
  <2>1. \A k \in DOMAIN events : events[k] \in AnzNews OBVIOUS
  <2> QED BY <2>1, AnzNewsFields
<1>5. job[j].out = "none" /\ (stored # 0 => stored \in AnzJobs /\ stored # j)
  BY <1>3 DEF AnzRunsOk, AnzJobsOk
<1>6. AnzJobsOk(to, stored, result)
  <2>1. AnzJobsOk(job, stored, result) BY DEF AnzRunsOk
  <2>2. \A i, k \in AnzJobs : to[i].pc = "runs" /\ to[k].pc = "runs" => i = k
    BY <1>2, <1>3, <2>1 DEF AnzJobsOk
  <2>3. \A i \in AnzJobs :
         /\ to[i].out # "none" <=> to[i].pc \in {"answered", "done"}
         /\ to[i].pc \in {"set", "ready", "answered"} => to[i].caller = "ui"
         /\ to[i].out = "ok" => stored # 0
    <3> TAKE i \in AnzJobs
    <3>1. CASE i = j
      <4>1. next = "ready" => job[j].caller = "ui" BY <2>1 DEF AnzJobsOk
      <4> QED BY <1>2, <1>3, <1>5, <3>1, <4>1
    <3>2. CASE i # j BY <1>2, <2>1, <3>2 DEF AnzJobsOk
    <3> QED BY <3>1, <3>2
  <2> QED BY <1>2, <1>5, <2>1, <2>2, <2>3 DEF AnzJobsOk
<1>7. (\E i \in AnzJobs : job[i].pc = "runs") => \E i \in AnzJobs : to[i].pc = "runs" BY <1>2, <1>3
<1>8. AnzNewsOk(events, to) BY <1>2, <1>4, <1>7 DEF AnzRunsOk, AnzNewsOk
<1>9. ASSUME "overlap" \notin ghost
      PROVE  /\ AnzOwnOk(events, to, with, gen, token) /\ AnzRowOk(events, to, running, gen, token)
             /\ AnzResultOk(events, to, stored, with, result, ghost)
  <2>1. /\ AnzOwnOk(events, job, own, gen, token) /\ AnzRowOk(events, job, running, gen, token)
        /\ AnzResultOk(events, job, stored, own, result, ghost) BY <1>9 DEF AnzRunsOk
  <2>2. \A i \in AnzJobs : AnzAlive(to, i) <=> AnzAlive(job, i) BY <1>2, <1>3 DEF AnzAlive
  <2>3. \A i \in AnzJobs : i # j => AnzAwaits(events, to, i) = AnzAwaits(events, job, i)
    BY <1>2 DEF AnzAwaits
  <2>4. \A i \in AnzJobs : AnzAlive(to, i) =>
          /\ with.job = i /\ ~with.settled /\ with.awaits = AnzAwaits(events, to, i)
          /\ to[i].pc # "answered" => ~AnzIsTold(events, "ui")
    <3> SUFFICES ASSUME NEW i \in AnzJobs, AnzAlive(to, i)
                 PROVE  /\ with.job = i /\ ~with.settled /\ with.awaits = AnzAwaits(events, to, i)
                        /\ to[i].pc # "answered" => ~AnzIsTold(events, "ui")
      OBVIOUS
    <3>1. own.job = i /\ ~own.settled /\ own.awaits = AnzAwaits(events, job, i)
      BY <2>1, <2>2 DEF AnzOwnOk
    <3>2. CASE i # j BY <1>2, <2>1, <2>2, <2>3, <3>1, <3>2 DEF AnzOwnOk
    <3>3. CASE i = j
      <4>1. AnzAwaits(events, job, i) = IF from = "asked" THEN 1 ELSE 0 BY <1>3, <3>3 DEF AnzAwaits
      <4>2. AnzAwaits(events, to, i) = IF next \in {"asked", "runs"} THEN 1 ELSE 0
        BY <1>2, <1>3, <3>3 DEF AnzAwaits
      <4>3. own.awaits + 1 \in Int BY DEF AnzOwnSet
      <4>4. ASSUME from = "ready" PROVE with.job = i /\ ~with.settled /\ with.awaits = AnzAwaits(events, to, i)
        <5>1. with = [own EXCEPT !.awaits = own.awaits + 1] /\ own.awaits = 0 /\ next = "asked"
          BY <3>1, <3>3, <4>1, <4>4
        <5>2. with.job = own.job /\ (with.settled <=> own.settled) /\ with.awaits = own.awaits + 1
          BY <4>3, <5>1, AnzOwnFields
        <5>3. AnzAwaits(events, to, i) = 1 BY <4>2, <5>1
        <5>4. with.awaits = AnzAwaits(events, to, i) BY <5>1, <5>2, <5>3
        <5>5. with.job = i BY <3>1, <5>2
        <5>6. ~with.settled BY <3>1, <5>2, Zenon
        <5> QED BY <5>4, <5>5, <5>6, Zenon
      <4>5. ASSUME from # "ready" PROVE with.job = i /\ ~with.settled /\ with.awaits = AnzAwaits(events, to, i)
        <5>1. with = own /\ AnzAwaits(events, to, i) = AnzAwaits(events, job, i) BY <4>1, <4>2, <4>5
        <5> QED BY <3>1, <5>1, Zenon
      <4>6. with.job = i /\ ~with.settled /\ with.awaits = AnzAwaits(events, to, i) BY <4>4, <4>5
      <4> QED BY <1>3, <2>1, <2>2, <3>3, <4>6 DEF AnzOwnOk
    <3> QED BY <3>2, <3>3
  <2>5. AnzAlive(job, j) \/ with = own
    <3>1. from = "ready" => job[j].caller = "ui" BY DEF AnzRunsOk, AnzJobsOk
    <3> QED BY <3>1 DEF AnzAlive
  <2>6. with.job = own.job BY <2>2, <2>4, <2>5, <2>1 DEF AnzOwnOk
  <2>7. with.job = 0 => with = AnzNoOwn
    <3>1. AnzAlive(job, j) => own.job = j BY <2>1 DEF AnzOwnOk
    <3> QED BY <2>1, <2>5, <2>6, <3>1, AnzJobsAreNat DEF AnzOwnOk
  <2>8. with.job # 0 =>
         /\ to[with.job].caller = "ui" /\ to[with.job].gen = gen /\ token < gen
         /\ to[with.job].pc # "none"
         /\ to[with.job].pc = "done" =>
              with.settled /\ with.awaits = 1 /\ AnzIsTold(events, "ui")
    <3> SUFFICES ASSUME with.job # 0
                 PROVE  /\ to[with.job].caller = "ui" /\ to[with.job].gen = gen /\ token < gen
                        /\ to[with.job].pc # "none"
                        /\ to[with.job].pc = "done" =>
                             with.settled /\ with.awaits = 1 /\ AnzIsTold(events, "ui")
      OBVIOUS
    <3>1. own.job \in AnzJobs /\ own.job # 0 BY <2>6 DEF AnzOwnSet
    <3>2. CASE own.job = j BY <1>2, <1>3, <2>1, <2>6, <3>1, <3>2 DEF AnzOwnOk
    <3>3. CASE own.job # j
      <4>1. with = own BY <2>1, <2>5, <3>3 DEF AnzOwnOk
      <4> QED BY <1>2, <2>1, <3>1, <3>3, <4>1 DEF AnzOwnOk
    <3> QED BY <3>2, <3>3
  <2>9. AnzOwnOk(events, to, with, gen, token) BY <2>1, <2>4, <2>6, <2>7, <2>8 DEF AnzOwnOk
  <2>10. AnzRowOk(events, to, running, gen, token)
    <3>1. (\E i \in AnzJobs : job[i].pc = "runs" /\ job[i].caller = "agent") =>
            \E i \in AnzJobs : to[i].pc = "runs" /\ to[i].caller = "agent" BY <1>2, <1>3
    <3> QED BY <2>1, <2>2, <3>1 DEF AnzRowOk
  <2>11. AnzResultOk(events, to, stored, with, result, ghost)
    <3>1. AnzAgentResult(events, to, stored, result, ghost)
      BY <1>2, <1>3, <1>5, <2>1 DEF AnzResultOk, AnzAgentResult
    <3>2. AnzUserResult(events, to, stored, with, result, ghost)
      BY <1>2, <1>5, <2>1, <2>6 DEF AnzResultOk, AnzUserResult
    <3>0. \A i \in AnzJobs : job[i].out = "ok" => stored # 0 BY DEF AnzRunsOk, AnzJobsOk
    <3>3. AnzAnswerResult(to, stored)
      BY <1>2, <1>3, <1>5, <2>1, <3>0 DEF AnzResultOk, AnzAnswerResult
    <3> QED BY <3>1, <3>2, <3>3 DEF AnzResultOk
  <2> QED BY <2>9, <2>10, <2>11
<1> QED BY <1>1, <1>6, <1>8, <1>9 DEF AnzRunsOk

\* An agent asks for a run.
LEMMA AnzRunsByAsking ==
    ASSUME NEW events \in Seq(AnzNews), NEW job \in [AnzJobs -> AnzJobSet], NEW j \in AnzJobs,
           NEW stored \in AnzJobs \cup {0}, NEW running, NEW result,
           NEW own \in AnzOwnSet, NEW gen, NEW token, NEW ghost,
           job[j].pc = "none", NEW rec, rec.pc = "asked", rec.caller = "agent", rec.out = "none",
           AnzRunsOk(events, job, stored, running, result, own, gen, token, ghost)
    PROVE  AnzRunsOk(events, [job EXCEPT ![j] = rec], stored, running, result, own, gen, token, ghost)
<1>1. PICK to : to = [job EXCEPT ![j] = rec] OBVIOUS
<1>2. to[j] = rec /\ \A i \in AnzJobs : i # j => to[i] = job[i] BY <1>1
<1>3. /\ AnzJobsOk(job, stored, result) /\ AnzNewsOk(events, job)
      /\ job[j].out = "none" /\ (stored # 0 => stored \in AnzJobs /\ stored # j)
  BY DEF AnzRunsOk, AnzJobsOk
<1>4. \A k \in DOMAIN events : events[k].ev = "complete" => events[k].job \in AnzJobs /\ events[k].job # j
  <2>1. \A k \in DOMAIN events : events[k] \in AnzNews OBVIOUS
  <2>2. \A k \in DOMAIN events : events[k].ev = "complete" => events[k].job \in AnzJobs /\ events[k].out \in AnzOuts
    BY <2>1, AnzNewsFields
  <2> QED BY <1>3, <2>2 DEF AnzNewsOk, AnzOuts
<1>5. AnzJobsOk(to, stored, result) BY <1>2, <1>3 DEF AnzJobsOk
<1>6. AnzNewsOk(events, to)
  <2>1. (\E i \in AnzJobs : job[i].pc = "runs") => \E i \in AnzJobs : to[i].pc = "runs" BY <1>2
  <2> QED BY <1>2, <1>3, <1>4, <2>1 DEF AnzNewsOk
<1>7. ASSUME "overlap" \notin ghost
      PROVE  /\ AnzOwnOk(events, to, own, gen, token) /\ AnzRowOk(events, to, running, gen, token)
             /\ AnzResultOk(events, to, stored, own, result, ghost)
  <2>1. /\ AnzOwnOk(events, job, own, gen, token) /\ AnzRowOk(events, job, running, gen, token)
        /\ AnzResultOk(events, job, stored, own, result, ghost) BY <1>7 DEF AnzRunsOk
  <2>2. \A i \in AnzJobs : /\ AnzAlive(to, i) <=> AnzAlive(job, i)
                           /\ AnzAlive(job, i) => i # j /\ AnzAwaits(events, to, i) = AnzAwaits(events, job, i)
    BY <1>2 DEF AnzAlive, AnzAwaits
  <2>3. own.job # 0 => own.job \in AnzJobs /\ own.job # j BY <2>1 DEF AnzOwnOk, AnzOwnSet
  <2>4. AnzOwnOk(events, to, own, gen, token)
    <3>1. \A i \in AnzJobs : AnzAlive(to, i) =>
            /\ own.job = i /\ ~own.settled /\ own.awaits = AnzAwaits(events, to, i)
            /\ to[i].pc # "answered" => ~AnzIsTold(events, "ui") BY <1>2, <2>1, <2>2 DEF AnzOwnOk
    <3> QED BY <1>2, <2>1, <2>3, <3>1 DEF AnzOwnOk
  <2>5. AnzRowOk(events, to, running, gen, token)
    <3>1. (\E i \in AnzJobs : job[i].pc = "runs" /\ job[i].caller = "agent") =>
            \E i \in AnzJobs : to[i].pc = "runs" /\ to[i].caller = "agent" BY <1>2
    <3> QED BY <2>1, <2>2, <3>1 DEF AnzRowOk
  <2>6. AnzResultOk(events, to, stored, own, result, ghost)
    <3>0. \A i \in AnzJobs : job[i].out = "ok" => stored # 0 BY <1>3 DEF AnzJobsOk
    <3>1. AnzAgentResult(events, to, stored, result, ghost)
      BY <1>2, <1>3, <2>1 DEF AnzResultOk, AnzAgentResult
    <3>2. AnzUserResult(events, to, stored, own, result, ghost)
      BY <1>2, <1>3, <2>1 DEF AnzResultOk, AnzUserResult
    <3>3. AnzAnswerResult(to, stored) BY <1>2, <1>3, <2>1, <3>0 DEF AnzResultOk, AnzAnswerResult
    <3> QED BY <3>1, <3>2, <3>3 DEF AnzResultOk
  <2> QED BY <2>4, <2>5, <2>6
<1> QED BY <1>1, <1>5, <1>6, <1>7 DEF AnzRunsOk

\* The user starts a run.
LEMMA AnzRunsByStart ==
    ASSUME NEW events \in Seq(AnzNews), NEW job \in [AnzJobs -> AnzJobSet], NEW j \in AnzJobs,
           NEW stored \in AnzJobs \cup {0}, NEW running, NEW result,
           NEW own \in AnzOwnSet, NEW gen \in Nat, NEW token \in 0 .. gen, NEW ghost, NEW seen,
           job[j].pc = "none", NEW rec, rec.pc = "set", rec.caller = "ui", rec.out = "none", rec.gen = gen + 1,
           {"missed", "emptied"} \cap seen = {} => {"missed", "emptied"} \cap ghost = {},
           "overlap" \notin seen =>
             /\ "overlap" \notin ghost
             /\ ~AnzIsTold(events, "ui") /\ \A i \in AnzJobs : ~AnzAlive(job, i),
           AnzRunsOk(events, job, stored, running, result, own, gen, token, ghost)
    PROVE  AnzRunsOk(events, [job EXCEPT ![j] = rec], stored, TRUE, result,
                     [job |-> j, settled |-> FALSE, awaits |-> 0], gen + 1, token, seen)
<1>1. PICK to, mine : /\ to = [job EXCEPT ![j] = rec]
                      /\ mine = [job |-> j, settled |-> FALSE, awaits |-> 0]
  OBVIOUS
<1>2. to[j] = rec /\ \A i \in AnzJobs : i # j => to[i] = job[i] BY <1>1
<1>3. /\ AnzJobsOk(job, stored, result) /\ AnzNewsOk(events, job)
      /\ job[j].out = "none" /\ (stored # 0 => stored \in AnzJobs /\ stored # j)
  BY DEF AnzRunsOk, AnzJobsOk
<1>4. \A k \in DOMAIN events : events[k].ev = "complete" => events[k].job \in AnzJobs /\ events[k].job # j
  <2>1. \A k \in DOMAIN events : events[k] \in AnzNews OBVIOUS
  <2>2. \A k \in DOMAIN events : events[k].ev = "complete" => events[k].job \in AnzJobs /\ events[k].out \in AnzOuts
    BY <2>1, AnzNewsFields
  <2> QED BY <1>3, <2>2 DEF AnzNewsOk, AnzOuts
<1>5. AnzJobsOk(to, stored, result) BY <1>2, <1>3 DEF AnzJobsOk
<1>6. AnzNewsOk(events, to)
  <2>1. (\E i \in AnzJobs : job[i].pc = "runs") => \E i \in AnzJobs : to[i].pc = "runs" BY <1>2
  <2> QED BY <1>2, <1>3, <1>4, <2>1 DEF AnzNewsOk
<1>7. ASSUME "overlap" \notin seen
      PROVE  /\ AnzOwnOk(events, to, mine, gen + 1, token) /\ AnzRowOk(events, to, TRUE, gen + 1, token)
             /\ AnzResultOk(events, to, stored, mine, result, seen)
  <2>1. /\ AnzOwnOk(events, job, own, gen, token) /\ AnzRowOk(events, job, running, gen, token)
        /\ AnzResultOk(events, job, stored, own, result, ghost) BY <1>7 DEF AnzRunsOk
  <2>2. ~AnzIsTold(events, "ui") /\ \A i \in AnzJobs : ~AnzAlive(job, i) BY <1>7
  <2>3. AnzAlive(to, j) /\ \A i \in AnzJobs : AnzAlive(to, i) => i = j BY <1>2, <2>2 DEF AnzAlive
  <2>4. \A k \in DOMAIN events : ~AnzTold(events, k, "ui") BY <2>2 DEF AnzIsTold
  <2>5. AnzOwnOk(events, to, mine, gen + 1, token)
    <3>1. AnzAwaits(events, to, j) = 0 /\ mine.job = j /\ j # 0
      BY <1>1, <1>2, AnzJobsAreNat DEF AnzAwaits
    <3>2. \A i \in AnzJobs : AnzAlive(to, i) =>
            /\ mine.job = i /\ ~mine.settled /\ mine.awaits = AnzAwaits(events, to, i)
            /\ to[i].pc # "answered" => ~AnzIsTold(events, "ui") BY <1>1, <2>2, <2>3, <3>1
    <3>3. token < gen + 1 OBVIOUS
    <3> QED BY <1>2, <2>4, <3>1, <3>2, <3>3 DEF AnzOwnOk
  <2>6. AnzRowOk(events, to, TRUE, gen + 1, token)
    <3>1. (\E i \in AnzJobs : job[i].pc = "runs" /\ job[i].caller = "agent") =>
            \E i \in AnzJobs : to[i].pc = "runs" /\ to[i].caller = "agent" BY <1>2
    <3> QED BY <2>1, <2>3, <3>1 DEF AnzRowOk
  <2>7. AnzResultOk(events, to, stored, mine, result, seen)
    <3>0. \A i \in AnzJobs : job[i].out = "ok" => stored # 0 BY <1>3 DEF AnzJobsOk
    <3>1. AnzAgentResult(events, to, stored, result, seen)
      BY <1>2, <1>3, <2>1 DEF AnzResultOk, AnzAgentResult
    <3>2. AnzUserResult(events, to, stored, mine, result, seen)
      BY <1>2, <1>3, <2>1, <2>4 DEF AnzResultOk, AnzUserResult
    <3>3. AnzAnswerResult(to, stored) BY <1>2, <1>3, <2>1, <3>0 DEF AnzResultOk, AnzAnswerResult
    <3> QED BY <3>1, <3>2, <3>3 DEF AnzResultOk
  <2> QED BY <2>5, <2>6, <2>7
<1> QED BY <1>1, <1>5, <1>6, <1>7 DEF AnzRunsOk

\* A run is over, and tells so.
LEMMA AnzRunsByOver ==
    ASSUME NEW events \in Seq(AnzNews), NEW job \in [AnzJobs -> AnzJobSet], NEW j \in AnzJobs,
           NEW stored \in AnzJobs \cup {0}, NEW running, NEW result,
           NEW own \in AnzOwnSet, NEW gen, NEW token, NEW ghost,
           NEW out \in AnzOuts, NEW e \in AnzNews,
           e.ev = "complete", e.caller = job[j].caller, e.job = j, e.out = out,
           \/ job[j].pc = "asked" /\ out # "ok" /\ \A i \in AnzJobs : job[i].pc # "runs"
           \/ job[j].pc = "runs" /\ out = "ok",
           AnzRunsOk(events, job, stored, running, result, own, gen, token, ghost)
    PROVE  AnzRunsOk(Append(events, e),
                     [job EXCEPT ![j] = [job[j] EXCEPT !.out = out,
                        !.pc = IF job[j].caller = "agent" \/ job[j].pc = "none" THEN "done" ELSE "answered"]],
                     IF out = "ok" THEN j ELSE stored, running, result, own, gen, token, ghost)
<1>1. PICK to, kept : /\ to = [job EXCEPT ![j] = [job[j] EXCEPT !.out = out,
                                 !.pc = IF job[j].caller = "agent" \/ job[j].pc = "none" THEN "done" ELSE "answered"]]
                      /\ kept = IF out = "ok" THEN j ELSE stored
  OBVIOUS
<1>2. /\ \A i \in AnzJobs : i # j => to[i] = job[i]
      /\ to[j].caller = job[j].caller /\ to[j].gen = job[j].gen /\ to[j].out = out
      /\ to[j].pc = IF job[j].caller = "agent" THEN "done" ELSE "answered"
      /\ job[j].caller \in {"ui", "agent"}
  <2>1. job[j] \in AnzJobSet OBVIOUS
  <2>2. PICK x : x = IF job[j].caller = "agent" \/ job[j].pc = "none" THEN "done" ELSE "answered"
    OBVIOUS
  <2>3. PICK rec : rec = [job[j] EXCEPT !.out = out, !.pc = x] OBVIOUS
  <2>4. rec.caller = job[j].caller /\ rec.gen = job[j].gen /\ rec.out = out /\ rec.pc = x /\ job[j].caller \in {"ui", "agent"}
    BY <2>1, <2>3 DEF AnzJobSet
  <2>5. to = [job EXCEPT ![j] = rec] BY <1>1, <2>2, <2>3
  <2> QED BY <2>2, <2>4, <2>5
<1>3. PICK n, t : n = Len(events) /\ t = Append(events, e) OBVIOUS
<1>4. /\ n \in Nat /\ DOMAIN events = 1 .. n /\ DOMAIN t = 1 .. n + 1 /\ t[n + 1] = e
      /\ \A k \in 1 .. n : t[k] = events[k] BY <1>3, AnzAppended
<1>5. \A k \in DOMAIN t : k = n + 1 \/ (k \in DOMAIN events /\ t[k] = events[k]) BY <1>4
<1>6. n + 1 \in DOMAIN t /\ \A k \in DOMAIN events : k \in DOMAIN t /\ t[k] = events[k] /\ n + 1 > k
  BY <1>4
<1>7. /\ AnzJobsOk(job, stored, result) /\ AnzNewsOk(events, job)
      /\ job[j].out = "none" /\ (stored # 0 => stored \in AnzJobs /\ stored # j)
  BY DEF AnzRunsOk, AnzJobsOk
<1>8. \A k \in DOMAIN events : events[k].ev = "complete" => events[k].job \in AnzJobs /\ events[k].job # j
  <2>1. \A k \in DOMAIN events : events[k] \in AnzNews OBVIOUS
  <2>2. \A k \in DOMAIN events : events[k].ev = "complete" => events[k].job \in AnzJobs /\ events[k].out \in AnzOuts
    BY <2>1, AnzNewsFields
  <2> QED BY <1>7, <2>2 DEF AnzNewsOk, AnzOuts
<1>9. AnzJobsOk(to, kept, result)
  <2>1. \A i, k \in AnzJobs : to[i].pc = "runs" /\ to[k].pc = "runs" => i = k
    BY <1>2, <1>7 DEF AnzJobsOk
  <2>2. j # 0 /\ out # "none" BY AnzJobsAreNat DEF AnzOuts
  <2>3. \A i \in AnzJobs :
         /\ to[i].out # "none" <=> to[i].pc \in {"answered", "done"}
         /\ to[i].pc \in {"set", "ready", "answered"} => to[i].caller = "ui"
         /\ to[i].out = "ok" => kept # 0
    <3> TAKE i \in AnzJobs
    <3>1. CASE i = j BY <1>1, <1>2, <2>2, <3>1
    <3>2. CASE i # j BY <1>1, <1>2, <1>7, <2>2, <3>2 DEF AnzJobsOk
    <3> QED BY <3>1, <3>2
  <2> QED BY <1>1, <1>2, <1>7, <2>1, <2>2, <2>3 DEF AnzJobsOk
<1>10. AnzNewsOk(t, to)
  <2>1. ASSUME NEW k \in DOMAIN t, t[k].ev = "complete"
        PROVE  to[t[k].job].caller = t[k].caller /\ to[t[k].job].out = t[k].out
    <3>1. CASE k = n + 1 BY <1>2, <1>4, <3>1
    <3>2. CASE k # n + 1 BY <1>2, <1>5, <1>7, <1>8, <2>1, <3>2 DEF AnzNewsOk
    <3> QED BY <3>1, <3>2
  <2>2. ASSUME NEW k \in DOMAIN t, t[k].ev = "progress" PROVE AnzEndsAfter(t, k)
    <3>1. k \in DOMAIN events /\ t[k] = events[k] BY <1>4, <1>5, <2>2
    <3>2. CASE out = "ok" BY <1>4, <1>6, <3>1, <3>2 DEF AnzEndsAfter, AnzFails
    <3>3. CASE out # "ok"
      <4>1. AnzEndsAfter(events, k) BY <1>7, <2>2, <3>1, <3>3 DEF AnzNewsOk
      <4> QED BY <1>6, <4>1 DEF AnzEndsAfter
    <3> QED BY <3>2, <3>3
  <2> QED BY <2>1, <2>2 DEF AnzNewsOk
<1>11. \A c : AnzIsTold(t, c) <=> AnzIsTold(events, c) \/ job[j].caller = c BY <1>3, AnzToldByEvent
<1>12. ASSUME "overlap" \notin ghost
       PROVE  /\ AnzOwnOk(t, to, own, gen, token) /\ AnzRowOk(t, to, running, gen, token)
              /\ AnzResultOk(t, to, kept, own, result, ghost)
  <2>1. /\ AnzOwnOk(events, job, own, gen, token) /\ AnzRowOk(events, job, running, gen, token)
        /\ AnzResultOk(events, job, stored, own, result, ghost) BY <1>12 DEF AnzRunsOk
  <2>2. \A i \in AnzJobs : AnzAlive(to, i) <=> AnzAlive(job, i) BY <1>2 DEF AnzAlive
  <2>3. ASSUME job[j].caller = "ui"
        PROVE  /\ AnzAlive(job, j) /\ ~AnzIsTold(events, "ui") /\ own.job = j
               /\ own.job = j /\ ~own.settled /\ own.awaits = 1
    <3>1. AnzAlive(job, j) /\ AnzAwaits(events, job, j) = 1 BY <2>3 DEF AnzAlive, AnzAwaits
    <3> QED BY <2>1, <3>1 DEF AnzOwnOk
  <2>4. \A k \in DOMAIN t : AnzTold(t, k, "ui") =>
          \/ k = n + 1 /\ job[j].caller = "ui"
          \/ k \in DOMAIN events /\ AnzTold(events, k, "ui") /\ t[k] = events[k] /\ job[j].caller # "ui"
    <3> SUFFICES ASSUME NEW k \in DOMAIN t, AnzTold(t, k, "ui")
                 PROVE  \/ k = n + 1 /\ job[j].caller = "ui"
                        \/ k \in DOMAIN events /\ AnzTold(events, k, "ui") /\ t[k] = events[k] /\ job[j].caller # "ui"
      OBVIOUS
    <3>1. CASE k = n + 1 BY <1>4, <3>1 DEF AnzTold
    <3>2. CASE k # n + 1
      <4>1. k \in DOMAIN events /\ AnzTold(events, k, "ui") /\ t[k] = events[k]
        BY <1>5, <3>2 DEF AnzTold
      <4> QED BY <2>3, <4>1 DEF AnzIsTold
    <3> QED BY <3>1, <3>2
  <2>5. AnzOwnOk(t, to, own, gen, token)
    <3>1. \A i \in AnzJobs : AnzAlive(to, i) =>
            /\ own.job = i /\ ~own.settled /\ own.awaits = AnzAwaits(t, to, i)
            /\ to[i].pc # "answered" => ~AnzIsTold(t, "ui")
      <4> SUFFICES ASSUME NEW i \in AnzJobs, AnzAlive(to, i)
                   PROVE  /\ own.job = i /\ ~own.settled /\ own.awaits = AnzAwaits(t, to, i)
                          /\ to[i].pc # "answered" => ~AnzIsTold(t, "ui")
        OBVIOUS
      <4>0. /\ own.job = i /\ ~own.settled /\ own.awaits = AnzAwaits(events, job, i)
            /\ job[i].pc # "answered" => ~AnzIsTold(events, "ui") BY <2>1, <2>2 DEF AnzOwnOk
      <4>1. CASE job[j].caller = "ui"
        <5>1. i = j BY <2>3, <4>0, <4>1
        <5>2. to[j].pc = "answered" /\ AnzIsTold(t, "ui") BY <1>2, <1>11, <4>1
        <5>3. AnzAwaits(t, to, j) = 1 BY <5>2 DEF AnzAwaits
        <5> QED BY <2>3, <4>1, <5>1, <5>2, <5>3
      <4>2. CASE job[j].caller # "ui"
        <5>1. i # j /\ (AnzIsTold(t, "ui") <=> AnzIsTold(events, "ui"))
          BY <1>2, <1>11, <4>2 DEF AnzAlive
        <5>2. AnzAwaits(t, to, i) = AnzAwaits(events, job, i) BY <1>2, <5>1 DEF AnzAwaits
        <5> QED BY <1>2, <4>0, <5>1, <5>2
      <4> QED BY <4>1, <4>2
    <3>2. own.job # 0 =>
         /\ to[own.job].caller = "ui" /\ to[own.job].gen = gen /\ token < gen
         /\ to[own.job].pc # "none"
         /\ to[own.job].pc = "done" =>
              own.settled /\ own.awaits = 1 /\ AnzIsTold(t, "ui")
      <4>1. CASE own.job = j BY <1>2, <2>1, <4>1 DEF AnzOwnOk
      <4>2. CASE own.job # j BY <1>2, <1>11, <2>1, <4>2 DEF AnzOwnOk, AnzOwnSet
      <4> QED BY <4>1, <4>2
    <3>3. \A i, k \in DOMAIN t : AnzTold(t, i, "ui") /\ AnzTold(t, k, "ui") => i = k
      BY <2>1, <2>4 DEF AnzOwnOk
    <3>4. \A k \in DOMAIN t : AnzTold(t, k, "ui") /\ ~AnzFails(t[k].out) => own.job = t[k].job
      BY <1>4, <2>1, <2>3, <2>4 DEF AnzOwnOk
    <3> QED BY <2>1, <3>1, <3>2, <3>3, <3>4 DEF AnzOwnOk
  <2>6. AnzRowOk(t, to, running, gen, token)
    <3>1. ASSUME NEW i \in AnzJobs, job[i].pc = "runs", job[i].caller = "agent"
          PROVE  AnzIsTold(t, "agent") \/ (to[i].pc = "runs" /\ to[i].caller = "agent")
      BY <1>2, <1>11, <3>1
    <3> QED BY <1>11, <2>1, <2>2, <3>1 DEF AnzRowOk
  <2>7. AnzResultOk(t, to, kept, own, result, ghost)
    <3>0. \A i \in AnzJobs : job[i].out = "ok" => stored # 0 BY <1>7 DEF AnzJobsOk
    <3>1. \A k \in DOMAIN events : /\ AnzBrings(t, k) <=> AnzBrings(events, k)
                                   /\ AnzTold(t, k, "ui") <=> AnzTold(events, k, "ui")
      BY <1>6 DEF AnzBrings, AnzTold
    <3>2. AnzBrings(t, n + 1) <=> job[j].caller = "agent" /\ out = "ok"
      BY <1>4 DEF AnzBrings, AnzTold
    <3>3. CASE out # "ok"
      <4>1. kept = stored BY <1>1, <3>3
      <4>2. \A k \in DOMAIN t : AnzBrings(t, k) => k \in DOMAIN events /\ AnzBrings(events, k) /\ t[k] = events[k]
        BY <1>5, <3>1, <3>2, <3>3
      <4>3. AnzNoneBrings(t) => AnzNoneBrings(events) BY <1>6, <3>1 DEF AnzNoneBrings
      <4>4. AnzAgentResult(t, to, stored, result, ghost)
        <5>1. ASSUME stored # 0, to[stored].caller = "agent", NEW k \in DOMAIN t, AnzBrings(t, k),
                     \A l \in DOMAIN t : l > k => ~AnzBrings(t, l)
              PROVE  t[k].job = stored
          <6>1. k \in DOMAIN events /\ AnzBrings(events, k) /\ t[k] = events[k] BY <4>2, <5>1
          <6>2. \A l \in DOMAIN events : l > k => ~AnzBrings(events, l) BY <1>6, <3>1, <5>1
          <6>3. job[stored].caller = "agent" BY <1>2, <1>7, <5>1
          <6> QED BY <2>1, <5>1, <6>1, <6>2, <6>3 DEF AnzResultOk, AnzAgentResult
        <5>2. ASSUME stored # 0, to[stored].caller = "agent", {"missed", "emptied"} \cap ghost = {}, AnzNoneBrings(t)
              PROVE  /\ result = stored
                     /\ \A i \in AnzJobs : ~(to[i].pc = "answered" /\ to[i].out = "ok")
          <6>1. job[stored].caller = "agent" BY <1>2, <1>7, <5>2
          <6>2. /\ result = stored
                /\ \A i \in AnzJobs : ~(job[i].pc = "answered" /\ job[i].out = "ok")
            BY <2>1, <4>3, <5>2, <6>1 DEF AnzResultOk, AnzAgentResult
          <6> QED BY <1>2, <3>3, <6>2
        <5> QED BY <5>1, <5>2 DEF AnzAgentResult
      <4>5. AnzUserResult(t, to, stored, own, result, ghost)
        <5>1. ASSUME stored # 0, to[stored].caller = "ui", NEW k \in DOMAIN t, AnzBrings(t, k)
              PROVE  own.job = stored /\ \E l \in DOMAIN t : l > k /\ AnzTold(t, l, "ui")
          <6>1. k \in DOMAIN events /\ AnzBrings(events, k) /\ job[stored].caller = "ui"
            BY <1>2, <1>7, <4>2, <5>1
          <6>2. own.job = stored /\ \E l \in DOMAIN events : l > k /\ AnzTold(events, l, "ui")
            BY <2>1, <5>1, <6>1 DEF AnzResultOk, AnzUserResult
          <6> QED BY <1>6, <3>1, <6>2
        <5> QED BY <1>2, <1>7, <2>1, <5>1 DEF AnzResultOk, AnzUserResult
      <4>6. AnzAnswerResult(to, stored)
        BY <1>2, <1>7, <2>1, <3>0, <3>3 DEF AnzResultOk, AnzAnswerResult
      <4> QED BY <4>1, <4>4, <4>5, <4>6 DEF AnzResultOk
    <3>4. CASE out = "ok"
      <4>1. kept = j /\ j # 0 BY <1>1, <3>4, AnzJobsAreNat
      <4>2. AnzAgentResult(t, to, j, result, ghost)
        <5>1. ASSUME to[j].caller = "agent" PROVE ~AnzNoneBrings(t) /\ AnzBrings(t, n + 1)
          BY <1>2, <1>6, <3>2, <3>4, <5>1 DEF AnzNoneBrings
        <5>2. ASSUME to[j].caller = "agent", NEW k \in DOMAIN t, \A l \in DOMAIN t : l > k => ~AnzBrings(t, l)
              PROVE  t[k].job = j
          <6>1. k = n + 1 BY <1>5, <1>6, <5>1, <5>2
          <6> QED BY <1>4, <6>1
        <5> QED BY <5>1, <5>2 DEF AnzAgentResult
      <4>3. AnzUserResult(t, to, j, own, result, ghost)
        <5>1. ASSUME to[j].caller = "ui", NEW k \in DOMAIN t, AnzBrings(t, k)
              PROVE  own.job = j /\ \E l \in DOMAIN t : l > k /\ AnzTold(t, l, "ui")
          <6>1. job[j].caller = "ui" /\ k \in DOMAIN events BY <1>2, <1>5, <3>2, <5>1
          <6>2. AnzTold(t, n + 1, "ui") BY <1>4, <6>1 DEF AnzTold
          <6> QED BY <1>6, <2>3, <6>1, <6>2
        <5>2. to[j].caller = "ui" => to[j].pc # "done" BY <1>2
        <5> QED BY <5>1, <5>2 DEF AnzUserResult
      <4>4. AnzAnswerResult(to, j)
        <5> SUFFICES ASSUME NEW i \in AnzJobs, to[i].pc = "answered", i # j, job[j].caller # "agent" PROVE FALSE
          BY <1>2 DEF AnzAnswerResult
        <5>1. job[j].caller = "ui" /\ job[i].pc = "answered" BY <1>2
        <5>2. AnzAlive(job, i) BY <1>7, <5>1 DEF AnzJobsOk, AnzAlive
        <5>3. own.job = i BY <2>1, <5>2 DEF AnzOwnOk
        <5> QED BY <2>3, <5>1, <5>3
      <4> QED BY <4>1, <4>2, <4>3, <4>4 DEF AnzResultOk
    <3> QED BY <3>3, <3>4
  <2> QED BY <2>5, <2>6, <2>7
<1> QED BY <1>1, <1>3, <1>9, <1>10, <1>12 DEF AnzRunsOk

\* A run is answered.
AnzOwed(own, job, j) ==
    IF own.job = j /\ AnzFails(job[j].out) THEN [own EXCEPT !.awaits = own.awaits - 1] ELSE own
AnzOwnAfter(own, job, j, gen) ==
    IF job[j].gen # gen THEN AnzOwed(own, job, j)
    ELSE IF AnzOwed(own, job, j).job = j THEN AnzOwnDone([AnzOwed(own, job, j) EXCEPT !.settled = TRUE])
    ELSE AnzOwed(own, job, j)
AnzSeenAfter(ghost, job, j, stored) ==
    CASE job[j].out = "cancelled" -> ghost \cup {"emptied"}
      [] job[j].out = "ok" /\ stored = j -> ghost \ {"missed"}
      [] OTHER -> ghost

LEMMA AnzRunsByAnswer ==
    ASSUME NEW events \in Seq(AnzNews), NEW job \in [AnzJobs -> AnzJobSet], NEW j \in AnzJobs,
           NEW stored \in AnzJobs \cup {0}, NEW running, NEW result,
           NEW own \in AnzOwnSet, NEW gen, NEW token, NEW ghost,
           NEW left, NEW shown, job[j].pc = "answered",
           job[j].gen = gen => /\ ~left
                               /\ shown = IF AnzFails(job[j].out) THEN result ELSE IF job[j].out = "ok" THEN j ELSE 0,
           job[j].gen # gen => shown = result /\ (left => running),
           AnzRunsOk(events, job, stored, running, result, own, gen, token, ghost)
    PROVE  AnzRunsOk(events, [job EXCEPT ![j].pc = "done"], stored, left, shown,
                     AnzOwnAfter(own, job, j, gen), gen, token, AnzSeenAfter(ghost, job, j, stored))
<1>1. PICK to : to = [job EXCEPT ![j].pc = "done"] OBVIOUS
<1>0. PICK mid, won, seen :
        mid = AnzOwed(own, job, j) /\ won = AnzOwnAfter(own, job, j, gen) /\ seen = AnzSeenAfter(ghost, job, j, stored)
  OBVIOUS
<1>10. /\ mid = IF own.job = j /\ AnzFails(job[j].out) THEN [own EXCEPT !.awaits = own.awaits - 1] ELSE own
       /\ job[j].gen = gen => won = IF mid.job = j THEN AnzOwnDone([mid EXCEPT !.settled = TRUE]) ELSE mid
       /\ seen = CASE job[j].out = "cancelled" -> ghost \cup {"emptied"}
                   [] job[j].out = "ok" /\ stored = j -> ghost \ {"missed"}
                   [] OTHER -> ghost BY <1>0 DEF AnzOwed, AnzOwnAfter, AnzSeenAfter
<1>2. /\ \A i \in AnzJobs : /\ to[i].caller = job[i].caller /\ to[i].out = job[i].out /\ to[i].gen = job[i].gen
                            /\ i # j => to[i].pc = job[i].pc
      /\ to[j].pc = "done" BY <1>1 DEF AnzJobSet
<1>3. /\ AnzJobsOk(job, stored, result) /\ AnzNewsOk(events, job)
      /\ job[j].caller = "ui" /\ job[j].out # "none" /\ (stored # 0 => stored \in AnzJobs)
  BY DEF AnzRunsOk, AnzJobsOk
<1>4. \A k \in DOMAIN events : events[k].ev = "complete" => events[k].job \in AnzJobs
  <2>1. \A k \in DOMAIN events : events[k] \in AnzNews OBVIOUS
  <2> QED BY <2>1, AnzNewsFields
<1>5. AnzJobsOk(to, stored, shown)
  <2>1. shown # 0 => stored # 0 BY <1>3 DEF AnzJobsOk
  <2>2. \A i \in AnzJobs : /\ to[i].pc = "runs" <=> job[i].pc = "runs"
                           /\ to[i].pc \in {"answered", "done"} <=> job[i].pc \in {"answered", "done"}
                           /\ to[i].pc \in {"set", "ready", "answered"} => job[i].pc \in {"set", "ready", "answered"}
    BY <1>2
  <2> QED BY <1>2, <1>3, <2>1, <2>2 DEF AnzJobsOk
<1>6. AnzNewsOk(events, to)
  <2>1. (\E i \in AnzJobs : job[i].pc = "runs") => \E i \in AnzJobs : to[i].pc = "runs" BY <1>2
  <2> QED BY <1>2, <1>3, <1>4, <2>1 DEF AnzNewsOk
<1>7. "overlap" \notin seen => "overlap" \notin ghost BY <1>10
<1>8. ASSUME "overlap" \notin seen
      PROVE  /\ AnzOwnOk(events, to, won, gen, token) /\ AnzRowOk(events, to, left, gen, token)
             /\ AnzResultOk(events, to, stored, won, shown, seen)
  <2>1. /\ AnzOwnOk(events, job, own, gen, token) /\ AnzRowOk(events, job, running, gen, token)
        /\ AnzResultOk(events, job, stored, own, result, ghost) BY <1>7, <1>8 DEF AnzRunsOk
  <2>2. AnzAlive(job, j) /\ j # 0 BY <1>3, AnzJobsAreNat DEF AnzAlive
  <2>3. /\ own.job = j /\ ~own.settled /\ own.awaits = IF AnzIsTold(events, "ui") THEN 1 ELSE 0
        /\ job[j].gen = gen /\ token < gen
    <3>1. AnzAwaits(events, job, j) = IF AnzIsTold(events, "ui") THEN 1 ELSE 0 BY DEF AnzAwaits
    <3>2. own.job = j /\ ~own.settled /\ own.awaits = AnzAwaits(events, job, j)
      BY <2>1, <2>2 DEF AnzOwnOk
    <3> QED BY <2>1, <2>2, <3>1, <3>2 DEF AnzOwnOk
  <2>4. \A i \in AnzJobs : ~AnzAlive(to, i)
    <3> SUFFICES ASSUME NEW i \in AnzJobs, AnzAlive(to, i) PROVE FALSE OBVIOUS
    <3>1. i # j /\ AnzAlive(job, i) BY <1>2 DEF AnzAlive
    <3>2. own.job = i BY <2>1, <3>1 DEF AnzOwnOk
    <3> QED BY <2>3, <3>1, <3>2
  <2>5. IF AnzIsTold(events, "ui") /\ ~AnzFails(job[j].out)
        THEN won.job = j /\ won.settled /\ won.awaits = 1 ELSE won = AnzNoOwn
    <3>1. PICK a : a = IF AnzFails(job[j].out) THEN own.awaits - 1 ELSE own.awaits OBVIOUS
    <3>2. a \in Int /\ own.awaits - 1 \in Int BY <3>1 DEF AnzOwnSet
    <3>3. mid \in AnzOwnSet /\ mid.job = j /\ mid.awaits = a
      <4>1. CASE AnzFails(job[j].out)
        <5>1. mid = [own EXCEPT !.awaits = own.awaits - 1] BY <1>10, <2>3, <4>1
        <5>2. mid \in AnzOwnSet /\ mid.job = own.job /\ mid.awaits = own.awaits - 1
          BY <3>2, <5>1, AnzOwnFields
        <5> QED BY <2>3, <3>1, <4>1, <5>2
      <4>2. CASE ~AnzFails(job[j].out) BY <1>10, <2>3, <3>1, <4>2
      <4> QED BY <4>1, <4>2
    <3>4. PICK m : m = [mid EXCEPT !.settled = TRUE] OBVIOUS
    <3>5. m \in AnzOwnSet /\ m.job = j /\ m.settled /\ m.awaits = a
      BY <3>2, <3>3, <3>4, AnzOwnFields
    <3>6. won = AnzOwnDone(m) BY <1>10, <2>3, <3>3, <3>4
    <3>7. won = IF m.settled /\ m.awaits <= 0 THEN AnzNoOwn ELSE m BY <3>2, <3>5, <3>6, AnzOwnFields
    <3>8. IF AnzIsTold(events, "ui") /\ ~AnzFails(job[j].out) THEN a = 1 ELSE a <= 0 BY <2>3, <3>1
    <3> QED BY <3>5, <3>7, <3>8
  <2>6. \A k \in DOMAIN events : AnzTold(events, k, "ui") /\ ~AnzFails(events[k].out) =>
          events[k].job = j /\ ~AnzFails(job[j].out) /\ AnzIsTold(events, "ui")
    <3> SUFFICES ASSUME NEW k \in DOMAIN events, AnzTold(events, k, "ui"), ~AnzFails(events[k].out)
                 PROVE  events[k].job = j /\ ~AnzFails(job[j].out) /\ AnzIsTold(events, "ui")
      OBVIOUS
    <3>1. events[k].job = own.job BY <2>1 DEF AnzOwnOk
    <3>2. job[events[k].job].out = events[k].out BY <1>3 DEF AnzNewsOk, AnzTold
    <3> QED BY <2>3, <3>1, <3>2 DEF AnzIsTold
  <2>7. AnzOwnOk(events, to, won, gen, token)
    <3>1. CASE AnzIsTold(events, "ui") /\ ~AnzFails(job[j].out)
      <4>1. won.job = j /\ won.settled /\ won.awaits = 1 BY <2>5, <3>1
      <4> QED BY <1>2, <1>3, <2>1, <2>2, <2>3, <2>4, <2>6, <3>1, <4>1 DEF AnzOwnOk
    <3>2. CASE ~(AnzIsTold(events, "ui") /\ ~AnzFails(job[j].out))
      <4>1. won = AnzNoOwn /\ won.job = 0 BY <2>5, <3>2 DEF AnzNoOwn
      <4> QED BY <2>1, <2>4, <2>6, <3>2, <4>1 DEF AnzOwnOk
    <3> QED BY <3>1, <3>2
  <2>8. AnzRowOk(events, to, left, gen, token)
    <3>1. (\E i \in AnzJobs : job[i].pc = "runs" /\ job[i].caller = "agent") =>
            \E i \in AnzJobs : to[i].pc = "runs" /\ to[i].caller = "agent" BY <1>2
    <3>2. ~left BY <2>3
    <3> QED BY <2>1, <3>1, <3>2 DEF AnzRowOk
  <2>9. AnzResultOk(events, to, stored, won, shown, seen)
    <3>0. \A i \in AnzJobs : job[i].out = "ok" => stored # 0 BY <1>3 DEF AnzJobsOk
    <3>1. shown = IF AnzFails(job[j].out) THEN result ELSE IF job[j].out = "ok" THEN j ELSE 0
      BY <2>3
    <3>2. job[j].out \in AnzOuts BY <1>3 DEF AnzJobSet
    <3>3. \/ AnzFails(job[j].out) /\ seen = ghost /\ shown = result
          \/ job[j].out = "cancelled" /\ "emptied" \in seen
          \/ job[j].out = "ok" /\ stored = j /\ shown = j
          \/ job[j].out = "ok" /\ stored # j /\ seen = ghost
      <4>1. CASE AnzFails(job[j].out) BY <1>10, <3>1, <4>1 DEF AnzFails
      <4>2. CASE job[j].out = "cancelled" BY <1>10, <4>2
      <4>3. CASE job[j].out = "ok" BY <1>10, <3>1, <4>3 DEF AnzFails
      <4> QED BY <3>2, <4>1, <4>2, <4>3 DEF AnzOuts, AnzFails
    <3>4. AnzAnswerResult(to, stored) BY <1>2, <1>3, <2>1, <3>0 DEF AnzResultOk, AnzAnswerResult
    <3>5. AnzAgentResult(events, to, stored, shown, seen)
      <4> SUFFICES ASSUME stored # 0, to[stored].caller = "agent"
                   PROVE  /\ \A k \in DOMAIN events :
                               AnzBrings(events, k) /\ (\A l \in DOMAIN events : l > k => ~AnzBrings(events, l)) =>
                                 events[k].job = stored
                          /\ {"missed", "emptied"} \cap seen = {} /\ AnzNoneBrings(events) =>
                               /\ shown = stored
                               /\ \A i \in AnzJobs : ~(to[i].pc = "answered" /\ to[i].out = "ok")
        BY DEF AnzAgentResult
      <4>1. job[stored].caller = "agent" /\ stored # j BY <1>2, <1>3
      <4>2. \A k \in DOMAIN events :
              AnzBrings(events, k) /\ (\A l \in DOMAIN events : l > k => ~AnzBrings(events, l)) =>
                events[k].job = stored BY <2>1, <4>1 DEF AnzResultOk, AnzAgentResult
      <4>3. ASSUME {"missed", "emptied"} \cap seen = {}, AnzNoneBrings(events)
            PROVE  /\ shown = stored
                   /\ \A i \in AnzJobs : ~(to[i].pc = "answered" /\ to[i].out = "ok")
        <5>1. seen = ghost BY <3>3, <4>1, <4>3
        <5>2. /\ result = stored
              /\ \A i \in AnzJobs : ~(job[i].pc = "answered" /\ job[i].out = "ok")
          BY <2>1, <4>1, <4>3, <5>1 DEF AnzResultOk, AnzAgentResult
        <5>3. shown = result BY <3>3, <4>3, <5>2
        <5> QED BY <1>2, <5>2, <5>3
      <4> QED BY <4>2, <4>3
    <3>6. AnzUserResult(events, to, stored, won, shown, seen)
      <4> SUFFICES ASSUME stored # 0, to[stored].caller = "ui"
                   PROVE  /\ \A k \in DOMAIN events : AnzBrings(events, k) =>
                               won.job = stored /\ \E l \in DOMAIN events : l > k /\ AnzTold(events, l, "ui")
                          /\ {"missed", "emptied"} \cap seen = {} /\ to[stored].pc = "done" => shown = stored
        BY DEF AnzUserResult
      <4>1. job[stored].caller = "ui" /\ job[stored].out = "ok" BY <1>2, <1>3 DEF AnzJobsOk
      <4>2. ASSUME NEW k \in DOMAIN events, AnzBrings(events, k)
            PROVE  won.job = stored /\ \E l \in DOMAIN events : l > k /\ AnzTold(events, l, "ui")
        <5>1. own.job = stored /\ \E l \in DOMAIN events : l > k /\ AnzTold(events, l, "ui")
          BY <2>1, <4>1, <4>2 DEF AnzResultOk, AnzUserResult
        <5>2. stored = j /\ AnzIsTold(events, "ui") BY <2>3, <5>1 DEF AnzIsTold
        <5>3. ~AnzFails(job[j].out) BY <4>1, <5>2 DEF AnzFails
        <5> QED BY <2>5, <5>1, <5>2, <5>3
      <4>3. ASSUME {"missed", "emptied"} \cap seen = {}, to[stored].pc = "done" PROVE shown = stored
        <5>1. CASE stored = j BY <3>3, <4>1, <4>3, <5>1 DEF AnzFails
        <5>2. CASE stored # j
          <6>1. job[j].out # "ok" BY <1>3, <2>1, <4>1, <5>2 DEF AnzResultOk, AnzAnswerResult
          <6>2. seen = ghost /\ shown = result BY <3>3, <4>3, <6>1
          <6>3. job[stored].pc = "done" BY <1>2, <1>3, <4>3, <5>2
          <6> QED BY <2>1, <4>1, <4>3, <6>2, <6>3 DEF AnzResultOk, AnzUserResult
        <5> QED BY <5>1, <5>2
      <4> QED BY <4>2, <4>3
    <3> QED BY <3>4, <3>5, <3>6 DEF AnzResultOk
  <2> QED BY <2>7, <2>8, <2>9
<1> QED BY <1>0, <1>1, <1>5, <1>6, <1>8 DEF AnzRunsOk

\* A row that stops running, and what else happens, change nothing.
LEMMA AnzRunsByGhost ==
    ASSUME NEW events, NEW job, NEW stored, NEW running, NEW left, NEW result, NEW own, NEW gen, NEW token,
           NEW ghost, NEW seen, left => running,
           "overlap" \notin seen => "overlap" \notin ghost,
           {"missed", "emptied"} \cap seen = {} => {"missed", "emptied"} \cap ghost = {},
           AnzRunsOk(events, job, stored, running, result, own, gen, token, ghost)
    PROVE  AnzRunsOk(events, job, stored, left, result, own, gen, token, seen)
<1>1. ASSUME "overlap" \notin seen
      PROVE  /\ AnzOwnOk(events, job, own, gen, token) /\ AnzRowOk(events, job, left, gen, token)
             /\ AnzResultOk(events, job, stored, own, result, seen)
  <2>1. /\ AnzOwnOk(events, job, own, gen, token) /\ AnzRowOk(events, job, running, gen, token)
        /\ AnzResultOk(events, job, stored, own, result, ghost) BY <1>1 DEF AnzRunsOk
  <2>2. AnzRowOk(events, job, left, gen, token) BY <2>1 DEF AnzRowOk
  <2>3. AnzResultOk(events, job, stored, own, result, seen)
    BY <2>1 DEF AnzResultOk, AnzAgentResult, AnzUserResult
  <2> QED BY <2>1, <2>2, <2>3
<1> QED BY <1>1 DEF AnzRunsOk

\* Progress that is heard while nothing runs is of an agent's run.
LEMMA AnzRunsByProgress ==
    ASSUME NEW events \in Seq(AnzNews), NEW job \in [AnzJobs -> AnzJobSet], NEW stored, NEW running, NEW result,
           NEW own, own.job = 0, NEW gen \in Nat, NEW token, NEW ghost, NEW left,
           events # <<>>, Head(events).ev = "progress",
           AnzRunsOk(events, job, stored, running, result, own, gen, token, ghost)
    PROVE  AnzRunsOk(Tail(events), job, stored, left, result, own, gen + 1, gen + 1, ghost)
<1>1. PICK t : t = Tail(events) OBVIOUS
<1>2. AnzRunsOk(t, job, stored, running, result, own, gen, token, ghost) BY <1>1, AnzRunsByHearing
<1>3. ASSUME "overlap" \notin ghost
      PROVE  /\ AnzOwnOk(t, job, own, gen + 1, gen + 1) /\ AnzRowOk(t, job, left, gen + 1, gen + 1)
             /\ AnzResultOk(t, job, stored, own, result, ghost)
  <2>1. /\ AnzOwnOk(t, job, own, gen, token) /\ AnzResultOk(t, job, stored, own, result, ghost)
        /\ AnzOwnOk(events, job, own, gen, token) /\ AnzNewsOk(events, job)
    BY <1>2, <1>3 DEF AnzRunsOk
  <2>2. AnzOwnOk(t, job, own, gen + 1, gen + 1) BY <2>1 DEF AnzOwnOk
  <2>3. \A j \in AnzJobs : ~AnzAlive(job, j) BY <2>1, AnzJobsAreNat DEF AnzOwnOk
  <2>4. 1 \in DOMAIN events /\ events[1].ev = "progress" BY AnzTailIs
  <2>5. AnzIsTold(t, "agent") \/ \E j \in AnzJobs : job[j].pc = "runs" /\ job[j].caller = "agent"
    <3>1. CASE \E j \in AnzJobs : job[j].pc = "runs"
      <4>1. PICK j \in AnzJobs : job[j].pc = "runs" BY <3>1
      <4>2. job[j].caller \in {"ui", "agent"} /\ job[j].caller # "ui"
        BY <2>3, <4>1 DEF AnzAlive, AnzJobSet
      <4> QED BY <4>1, <4>2
    <3>2. CASE AnzEndsAfter(events, 1)
      <4>1. PICK l \in DOMAIN events : /\ l > 1 /\ events[l].ev = "complete"
                                       /\ events[l].caller = "ui" => ~AnzFails(events[l].out)
        BY <3>2 DEF AnzEndsAfter
      <4>2. events[l] \in AnzNews OBVIOUS
      <4>3. events[l].job \in AnzJobs /\ events[l].caller \in {"ui", "agent"}
        BY <4>1, <4>2, AnzNewsFields
      <4>4. events[l].caller # "ui" BY <2>1, <4>1, <4>3, AnzJobsAreNat DEF AnzOwnOk, AnzTold
      <4>5. l # 1 /\ l - 1 \in DOMAIN t /\ t[l - 1] = events[l] BY <1>1, <4>1, AnzTailIs
      <4> QED BY <4>1, <4>3, <4>4, <4>5 DEF AnzIsTold, AnzTold
    <3> QED BY <2>1, <2>4, <3>1, <3>2 DEF AnzNewsOk
  <2>6. gen + 1 # 0 OBVIOUS
  <2> QED BY <2>1, <2>2, <2>5, <2>6 DEF AnzRowOk
<1> QED BY <1>1, <1>2, <1>3 DEF AnzRunsOk

\* The end of the own run is heard.
LEMMA AnzRunsByOwnNews ==
    ASSUME NEW events \in Seq(AnzNews), NEW job, NEW stored, NEW running, NEW result,
           NEW own \in AnzOwnSet, NEW gen, NEW token, NEW ghost, NEW won,
           events # <<>>, Head(events).ev = "complete", Head(events).caller = "ui",
           won = IF own.job = 0 THEN own ELSE AnzOwnDone([own EXCEPT !.awaits = own.awaits - 1]),
           AnzRunsOk(events, job, stored, running, result, own, gen, token, ghost)
    PROVE  AnzRunsOk(Tail(events), job, stored, running, result, won, gen, token, ghost)
<1>1. PICK t : t = Tail(events) OBVIOUS
<1>2. 1 \in DOMAIN events /\ AnzTold(events, 1, "ui") /\ ~AnzBrings(events, 1) /\ ~AnzTold(events, 1, "agent")
  BY AnzTailIs DEF AnzTold, AnzBrings
<1>3. /\ AnzJobsOk(job, stored, result) /\ AnzNewsOk(t, job) BY <1>1, AnzNewsByHearing DEF AnzRunsOk
<1>4. \A k \in DOMAIN t : k + 1 \in DOMAIN events /\ t[k] = events[k + 1] /\ k + 1 # 1
  BY <1>1, AnzTailIs
<1>5. \A l \in DOMAIN events, k \in DOMAIN t : l > k + 1 => l # 1 BY <1>1, AnzTailIs
<1>6. ASSUME "overlap" \notin ghost
      PROVE  /\ AnzOwnOk(t, job, won, gen, token) /\ AnzRowOk(t, job, running, gen, token)
             /\ AnzResultOk(t, job, stored, won, result, ghost)
  <2>1. /\ AnzOwnOk(events, job, own, gen, token) /\ AnzRowOk(events, job, running, gen, token)
        /\ AnzResultOk(events, job, stored, own, result, ghost) BY <1>6 DEF AnzRunsOk
  <2>2. \A k \in DOMAIN events : AnzTold(events, k, "ui") => k = 1 BY <1>2, <2>1 DEF AnzOwnOk
  <2>3. \A k \in DOMAIN t : ~AnzTold(t, k, "ui") BY <1>4, <2>2 DEF AnzTold
  <2>4. AnzIsTold(events, "ui") /\ ~AnzIsTold(t, "ui") /\ (AnzIsTold(t, "agent") <=> AnzIsTold(events, "agent"))
    <3>1. AnzIsTold(events, "agent") <=> AnzIsTold(t, "agent") \/ AnzTold(events, 1, "agent")
      BY <1>1, AnzToldByHearing
    <3> QED BY <1>2, <2>3, <3>1 DEF AnzIsTold
  <2>5. ASSUME own.job # 0
        PROVE  IF own.settled /\ own.awaits <= 1 THEN won = AnzNoOwn
               ELSE won.job = own.job /\ (won.settled <=> own.settled) /\ won.awaits = own.awaits - 1
    <3>1. PICK m : m = [own EXCEPT !.awaits = own.awaits - 1] OBVIOUS
    <3>2. own.awaits - 1 \in Int /\ own.awaits \in Int BY DEF AnzOwnSet
    <3>3. m \in AnzOwnSet /\ m.job = own.job /\ (m.settled <=> own.settled) /\ m.awaits = own.awaits - 1
      BY <3>1, <3>2, AnzOwnFields
    <3>4. won = AnzOwnDone(m) BY <2>5, <3>1
    <3>5. won = IF m.settled /\ m.awaits <= 0 THEN AnzNoOwn ELSE m BY <3>2, <3>3, <3>4, AnzOwnFields
    <3>6. m.awaits <= 0 <=> own.awaits <= 1 BY <3>2, <3>3
    <3> QED BY <3>3, <3>5, <3>6
  <2>6. own.job = 0 => won = own /\ won = AnzNoOwn BY <2>1 DEF AnzOwnOk
  <2>7. AnzOwnOk(t, job, won, gen, token)
    <3>1. ASSUME NEW j \in AnzJobs, AnzAlive(job, j)
          PROVE  won.job = j /\ ~won.settled /\ won.awaits = AnzAwaits(t, job, j)
      <4>1. own.job = j /\ ~own.settled /\ own.awaits = AnzAwaits(events, job, j) /\ job[j].pc = "answered"
        BY <2>1, <2>4, <3>1 DEF AnzOwnOk
      <4>2. own.awaits = 1 /\ AnzAwaits(t, job, j) = 0 BY <2>4, <4>1 DEF AnzAwaits
      <4>3. own.job # 0 BY <4>1, AnzJobsAreNat
      <4>4. won.job = own.job /\ (won.settled <=> own.settled) /\ won.awaits = own.awaits - 1
        BY <2>5, <4>1, <4>3
      <4>5. ~won.settled BY <4>1, <4>4, Zenon
      <4>6. won.job = j /\ won.awaits = AnzAwaits(t, job, j) BY <4>1, <4>2, <4>4
      <4> QED BY <4>5, <4>6, Zenon
    <3>2. won.job = 0 => won = AnzNoOwn BY <2>5, <2>6
    <3>3. ASSUME won.job # 0
          PROVE  /\ job[won.job].caller = "ui" /\ job[won.job].gen = gen /\ token < gen
                 /\ job[won.job].pc # "none" /\ job[won.job].pc # "done"
      <4>1. own.job # 0 /\ won # AnzNoOwn BY <2>6, <3>3 DEF AnzNoOwn
      <4>2. won.job = own.job BY <2>5, <4>1
      <4>3. job[own.job].pc # "done" BY <2>1, <2>5, <4>1 DEF AnzOwnOk
      <4> QED BY <2>1, <4>1, <4>2, <4>3 DEF AnzOwnOk
    <3> QED BY <2>3, <2>4, <3>1, <3>2, <3>3 DEF AnzOwnOk
  <2>8. AnzRowOk(t, job, running, gen, token) BY <2>1, <2>4 DEF AnzRowOk
  <2>9. AnzResultOk(t, job, stored, won, result, ghost)
    <3>1. AnzAgentResult(t, job, stored, result, ghost)
      <4>1. AnzNoneBrings(t) => AnzNoneBrings(events) BY <1>1, <1>2, <2>1, AnzResultOfTail
      <4>2. ASSUME stored # 0, job[stored].caller = "agent", NEW k \in DOMAIN t, AnzBrings(t, k),
                   \A l \in DOMAIN t : l > k => ~AnzBrings(t, l)
            PROVE  t[k].job = stored BY <1>1, <2>1, <4>2, AnzResultOfTail
      <4> QED BY <2>1, <4>1, <4>2 DEF AnzAgentResult, AnzResultOk
    <3>2. AnzUserResult(t, job, stored, won, result, ghost)
      <4>1. ASSUME stored # 0, job[stored].caller = "ui", NEW k \in DOMAIN t, AnzBrings(t, k) PROVE FALSE
        <5>1. PICK l \in DOMAIN events : l > k + 1 /\ AnzTold(events, l, "ui")
          BY <1>1, <2>1, <4>1, AnzResultOfTail
        <5> QED BY <1>5, <2>2, <5>1
      <4> QED BY <2>1, <4>1 DEF AnzUserResult, AnzResultOk
    <3> QED BY <2>1, <3>1, <3>2 DEF AnzResultOk
  <2> QED BY <2>7, <2>8, <2>9
<1> QED BY <1>1, <1>3, <1>6 DEF AnzRunsOk

\* The end of an agent's run is heard; it lands, or not.
LEMMA AnzRunsByForeignNews ==
    ASSUME NEW events \in Seq(AnzNews), NEW job, NEW stored, NEW running, NEW result,
           NEW own \in AnzOwnSet, NEW gen \in Nat, NEW token \in 0 .. gen, NEW ghost,
           events # <<>>, Head(events).ev = "complete", Head(events).caller = "agent",
           NEW left, NEW shown, NEW next, NEW seen,
           \/ /\ own.job = 0 \/ token = gen
              /\ ~left /\ next = gen + 1 /\ seen = ghost
              /\ shown = IF Head(events).out = "ok" THEN Head(events).job ELSE result
           \/ /\ token # 0 => token # gen
              /\ left <=> running
              /\ next = gen /\ shown = result
              /\ seen = IF Head(events).out = "ok" THEN ghost \cup {"missed"} ELSE ghost,
           AnzRunsOk(events, job, stored, running, result, own, gen, token, ghost)
    PROVE  AnzRunsOk(Tail(events), job, stored, left, shown, own, next, 0, seen)
<1>1. PICK t, e : t = Tail(events) /\ e = Head(events) OBVIOUS
<1>2. 1 \in DOMAIN events /\ e = events[1] /\ e \in AnzNews /\ (AnzBrings(events, 1) <=> e.out = "ok")
      /\ ~AnzTold(events, 1, "ui") BY <1>1, AnzTailIs DEF AnzTold, AnzBrings
<1>3. e.job \in AnzJobs /\ e.out \in AnzOuts BY <1>1, <1>2, AnzNewsFields
<1>4. AnzJobsOk(job, stored, shown)
  <2>1. AnzJobsOk(job, stored, result) /\ AnzNewsOk(events, job) BY DEF AnzRunsOk
  <2>2. job[e.job].out = e.out BY <1>1, <1>2, <2>1 DEF AnzNewsOk
  <2>3. shown # 0 => stored # 0 BY <1>1, <1>3, <2>1, <2>2 DEF AnzJobsOk
  <2> QED BY <2>1, <2>3 DEF AnzJobsOk
<1>5. AnzNewsOk(t, job) BY <1>1, AnzNewsByHearing DEF AnzRunsOk
<1>6. \A k \in DOMAIN t : k + 1 \in DOMAIN events /\ t[k] = events[k + 1] /\ k \in Nat
  BY <1>1, AnzTailIs
<1>7. "overlap" \notin seen => "overlap" \notin ghost OBVIOUS
<1>8. ASSUME "overlap" \notin seen
      PROVE  /\ AnzOwnOk(t, job, own, next, 0) /\ AnzRowOk(t, job, left, next, 0)
             /\ AnzResultOk(t, job, stored, own, shown, seen)
  <2>1. /\ AnzOwnOk(events, job, own, gen, token) /\ AnzRowOk(events, job, running, gen, token)
        /\ AnzResultOk(events, job, stored, own, result, ghost)
        /\ AnzJobsOk(job, stored, result) BY <1>7, <1>8 DEF AnzRunsOk
  <2>2. AnzIsTold(t, "ui") <=> AnzIsTold(events, "ui")
    <3>1. AnzIsTold(events, "ui") <=> AnzIsTold(t, "ui") \/ AnzTold(events, 1, "ui")
      BY <1>1, AnzToldByHearing
    <3> QED BY <1>2, <3>1
  <2>3. \A j \in AnzJobs : AnzAwaits(t, job, j) = AnzAwaits(events, job, j) BY <2>2 DEF AnzAwaits
  <2>4. \/ /\ own.job = 0 /\ ~left /\ seen = ghost
           /\ shown = IF e.out = "ok" THEN e.job ELSE result
        \/ /\ token # 0 => token # gen
           /\ left <=> running
           /\ next = gen /\ shown = result
           /\ seen = IF e.out = "ok" THEN ghost \cup {"missed"} ELSE ghost
    <3>1. token = gen => own.job = 0 BY <2>1 DEF AnzOwnOk
    <3> QED BY <1>1, <3>1
  <2>5. AnzOwnOk(t, job, own, next, 0)
    <3>1. \A i, k \in DOMAIN t : AnzTold(t, i, "ui") /\ AnzTold(t, k, "ui") => i = k
      <4> SUFFICES ASSUME NEW i \in DOMAIN t, NEW k \in DOMAIN t, AnzTold(t, i, "ui"), AnzTold(t, k, "ui")
                   PROVE  i = k
        OBVIOUS
      <4>1. i + 1 = k + 1 BY <1>6, <2>1 DEF AnzOwnOk, AnzTold
      <4> QED BY <1>6, <4>1
    <3>2. \A k \in DOMAIN t : AnzTold(t, k, "ui") /\ ~AnzFails(t[k].out) => own.job = t[k].job
      BY <1>6, <2>1 DEF AnzOwnOk, AnzTold
    <3>3. own.job # 0 => next = gen /\ 0 < gen
      <4>1. own.job # 0 => token < gen BY <2>1 DEF AnzOwnOk
      <4> QED BY <2>4, <4>1
    <3> QED BY <2>1, <2>2, <2>3, <3>1, <3>2, <3>3 DEF AnzOwnOk
  <2>6. AnzRowOk(t, job, left, next, 0) BY <2>1, <2>4 DEF AnzRowOk
  <2>7. e.out # "ok" /\ AnzNoneBrings(t) => AnzNoneBrings(events)
    BY <1>1, <1>2, <2>1, AnzResultOfTail
  <2>8. AnzAgentResult(t, job, stored, shown, seen)
    <3>1. ASSUME stored # 0, job[stored].caller = "agent", NEW k \in DOMAIN t, AnzBrings(t, k),
                 \A l \in DOMAIN t : l > k => ~AnzBrings(t, l)
          PROVE  t[k].job = stored BY <1>1, <2>1, <3>1, AnzResultOfTail
    <3>2. ASSUME stored # 0, job[stored].caller = "agent", {"missed", "emptied"} \cap seen = {}, AnzNoneBrings(t)
          PROVE  /\ shown = stored
                 /\ \A j \in AnzJobs : ~(job[j].pc = "answered" /\ job[j].out = "ok")
      <4>1. CASE e.out # "ok"
        <5>1. AnzNoneBrings(events) /\ seen = ghost /\ shown = result BY <2>4, <2>7, <3>2, <4>1
        <5> QED BY <2>1, <3>2, <5>1 DEF AnzResultOk, AnzAgentResult
      <4>2. CASE e.out = "ok"
        <5>1. own.job = 0 /\ shown = e.job BY <2>4, <3>2, <4>2
        <5>2. \A l \in DOMAIN events : l > 1 => ~AnzBrings(events, l)
          <6> SUFFICES ASSUME NEW l \in DOMAIN events, l > 1, AnzBrings(events, l) PROVE FALSE
            OBVIOUS
          <6>1. l # 1 /\ l - 1 \in DOMAIN t /\ t[l - 1] = events[l] BY <1>1, AnzTailIs
          <6> QED BY <3>2, <6>1 DEF AnzNoneBrings, AnzBrings, AnzTold
        <5>3. e.job = stored BY <1>2, <2>1, <3>2, <4>2, <5>2 DEF AnzResultOk, AnzAgentResult
        <5>4. ASSUME NEW j \in AnzJobs, job[j].pc = "answered" PROVE FALSE
          <6>1. AnzAlive(job, j) BY <2>1, <5>4 DEF AnzJobsOk, AnzAlive
          <6> QED BY <2>1, <5>1, <6>1, AnzJobsAreNat DEF AnzOwnOk
        <5> QED BY <5>1, <5>3, <5>4
      <4> QED BY <4>1, <4>2
    <3> QED BY <3>1, <3>2 DEF AnzAgentResult
  <2>9. AnzUserResult(t, job, stored, own, shown, seen)
    <3>1. ASSUME stored # 0, job[stored].caller = "ui", NEW k \in DOMAIN t, AnzBrings(t, k)
          PROVE  own.job = stored /\ \E l \in DOMAIN t : l > k /\ AnzTold(t, l, "ui")
      BY <1>1, <2>1, <3>1, AnzResultOfTail
    <3>2. ASSUME stored # 0, job[stored].caller = "ui", {"missed", "emptied"} \cap seen = {},
                 job[stored].pc = "done"
          PROVE  shown = stored
      <4>1. result = stored BY <2>1, <2>4, <3>2 DEF AnzResultOk, AnzUserResult
      <4>2. own.job = 0 => e.out # "ok" BY <1>2, <2>1, <3>2 DEF AnzResultOk, AnzUserResult
      <4> QED BY <2>4, <4>1, <4>2
    <3> QED BY <3>1, <3>2 DEF AnzUserResult
  <2> QED BY <2>1, <2>5, <2>6, <2>8, <2>9 DEF AnzResultOk
<1> QED BY <1>1, <1>4, <1>5, <1>8 DEF AnzRunsOk

----------------------------------------
\* The pushes of the runs.
LEMMA AnzPushesByJobs ==
    ASSUME NEW sent, NEW job, NEW to, AnzPushesOk(sent, job),
           \A j \in AnzJobs : job[j].pc = "set" => to[j].pc = "set"
    PROVE  AnzPushesOk(sent, to) BY DEF AnzPushesOk

LEMMA AnzPushesByCommand ==
    ASSUME NEW sent \in Seq(AnzCommands), NEW job, NEW to, NEW c \in AnzCommands, AnzPushesOk(sent, job),
           \A j \in AnzJobs : job[j].pc = "set" => to[j].pc = "set",
           c.op = "set" /\ c.job # 0 => job[c.job].pc # "set" /\ to[c.job].pc = "set"
    PROVE  AnzPushesOk(Append(sent, c), to)
<1>1. PICK n, t : n = Len(sent) /\ t = Append(sent, c) OBVIOUS
<1>2. /\ n \in Nat /\ DOMAIN sent = 1 .. n /\ DOMAIN t = 1 .. n + 1 /\ t[n + 1] = c
      /\ \A k \in 1 .. n : t[k] = sent[k] BY <1>1, AnzAppended
<1>3. \A k \in DOMAIN t : k = n + 1 \/ (k \in DOMAIN sent /\ t[k] = sent[k]) BY <1>2
<1>4. \A j \in AnzJobs, k \in DOMAIN t : AnzPushes(t, k, j) =>
        \/ k = n + 1 /\ c.op = "set" /\ c.job = j /\ job[j].pc # "set" /\ to[j].pc = "set"
        \/ k \in DOMAIN sent /\ AnzPushes(sent, k, j) /\ job[j].pc = "set" /\ to[j].pc = "set"
  <2> TAKE j \in AnzJobs, k \in DOMAIN t
  <2>1. j # 0 BY AnzJobsAreNat
  <2>2. CASE k = n + 1 BY <1>2, <2>1, <2>2 DEF AnzPushes
  <2>3. CASE k # n + 1 BY <1>3, <2>3 DEF AnzPushes, AnzPushesOk
  <2> QED BY <2>2, <2>3
<1>5. \A j \in AnzJobs, k, l \in DOMAIN t : AnzPushes(t, k, j) /\ AnzPushes(t, l, j) => k = l
  BY <1>4 DEF AnzPushesOk
<1> QED BY <1>1, <1>4, <1>5 DEF AnzPushesOk

LEMMA AnzPushesByReceive ==
    ASSUME NEW sent \in Seq(AnzCommands), sent # <<>>, NEW job, NEW to, AnzPushesOk(sent, job),
           \A j \in AnzJobs : job[j].pc = "set" => to[j].pc = "set" \/ AnzPushes(sent, 1, j)
    PROVE  AnzPushesOk(Tail(sent), to)
<1>1. PICK n \in Nat : n = Len(sent) OBVIOUS
<1>2. PICK t : t = Tail(sent) OBVIOUS
<1>3. /\ n >= 1 /\ DOMAIN sent = 1 .. n /\ DOMAIN t = 1 .. n - 1
      /\ \A k \in 1 .. n - 1 : t[k] = sent[k + 1] BY <1>1, <1>2, ArtHeadTail
<1>4. \A k \in DOMAIN t : /\ k + 1 \in DOMAIN sent /\ k + 1 # 1 /\ k \in Nat
                          /\ \A j : AnzPushes(t, k, j) <=> AnzPushes(sent, k + 1, j)
  BY <1>3 DEF AnzPushes
<1>5. 1 \in DOMAIN sent BY <1>3
<1>6. ASSUME NEW j \in AnzJobs, NEW k \in DOMAIN t, AnzPushes(t, k, j)
      PROVE  to[j].pc = "set" /\ \A l \in DOMAIN t : AnzPushes(t, l, j) => l = k
  <2>1. job[j].pc = "set" /\ ~AnzPushes(sent, 1, j) BY <1>4, <1>5, <1>6 DEF AnzPushesOk
  <2>2. \A l \in DOMAIN t : AnzPushes(t, l, j) => l + 1 = k + 1 BY <1>4, <1>6 DEF AnzPushesOk
  <2> QED BY <1>4, <2>1, <2>2
<1> QED BY <1>2, <1>6 DEF AnzPushesOk

----------------------------------------
\* The runs, step by step.
AnzRunsRight ==
    /\ AnzRunsOk(anzEvents, anzJob, anzStored, anzRow.running, anzRow.result, anzOwn, anzGen, anzToken, anzGhost)
    /\ AnzPushesOk(anzSent, anzJob)

LEMMA AnzRunsInit == AnzInit => AnzRunsRight
<1> SUFFICES ASSUME AnzInit PROVE AnzRunsRight OBVIOUS
<1>1. \A k \in DOMAIN anzEvents : anzEvents[k].ev = "restored"
  <2>1. PICK e : e = [ev |-> "restored", chain |-> anzChain] OBVIOUS
  <2>2. e.ev = "restored" /\ (anzEvents = <<>> \/ anzEvents = <<e>>) BY <2>1 DEF AnzInit
  <2> QED BY <2>2
<1>2. \A k \in DOMAIN anzSent : anzSent[k].op = "get"
  <2>1. PICK c : c = [op |-> "get", chain |-> AnzEmpty, job |-> 0] OBVIOUS
  <2>2. c.op = "get" /\ anzSent = <<c>> BY <2>1 DEF AnzInit
  <2> QED BY <2>2
<1>3. \A j \in AnzJobs : anzJob[j].pc = "none" /\ anzJob[j].out = "none" BY DEF AnzInit, AnzNoJob
<1>4. /\ anzStored = 0 /\ anzRow.running = FALSE /\ anzRow.result = 0
      /\ anzOwn = AnzNoOwn /\ anzOwn.job = 0 /\ anzToken = 0 BY DEF AnzInit, AnzNoOwn
<1>5. AnzJobsOk(anzJob, anzStored, anzRow.result) /\ AnzNewsOk(anzEvents, anzJob)
  BY <1>1, <1>3, <1>4 DEF AnzJobsOk, AnzNewsOk
<1>6. AnzOwnOk(anzEvents, anzJob, anzOwn, anzGen, anzToken)
  BY <1>1, <1>3, <1>4 DEF AnzOwnOk, AnzAlive, AnzTold
<1>7. AnzRowOk(anzEvents, anzJob, anzRow.running, anzGen, anzToken) BY <1>4 DEF AnzRowOk
<1>8. AnzResultOk(anzEvents, anzJob, anzStored, anzOwn, anzRow.result, anzGhost)
  BY <1>3, <1>4 DEF AnzResultOk, AnzAgentResult, AnzUserResult, AnzAnswerResult
<1>9. AnzPushesOk(anzSent, anzJob) BY <1>2 DEF AnzPushesOk, AnzPushes
<1> QED BY <1>5, <1>6, <1>7, <1>8, <1>9 DEF AnzRunsRight, AnzRunsOk

LEMMA AnzOverlapsOf ==
    ASSUME anzGhost \in SUBSET anzGhost'
    PROVE  /\ "overlap" \notin anzGhost' => "overlap" \notin anzGhost
           /\ {"missed", "emptied"} \cap anzGhost' = {} => {"missed", "emptied"} \cap anzGhost = {}
OBVIOUS

\* The types, as the lemmas above take them.
LEMMA AnzRunTypes ==
    ASSUME AnzTypes
    PROVE  /\ anzEvents \in Seq(AnzNews) /\ anzSent \in Seq(AnzCommands) /\ anzJob \in [AnzJobs -> AnzJobSet]
           /\ anzStored \in AnzJobs \cup {0} /\ anzOwn \in AnzOwnSet /\ anzGen \in Nat /\ anzToken \in 0 .. anzGen
BY DEF AnzTypes

\* Nothing of the runs but a command on its way.
LEMMA AnzRunsByWindow ==
    ASSUME AnzTypes, AnzRunsRight, UNCHANGED <<anzEvents, anzJob, anzStored, anzOwn, anzGen, anzToken>>,
           anzRow'.result = anzRow.result, anzRow'.running => anzRow.running,
           "overlap" \notin anzGhost' => "overlap" \notin anzGhost,
           {"missed", "emptied"} \cap anzGhost' = {} => {"missed", "emptied"} \cap anzGhost = {},
           \/ anzSent' = anzSent
           \/ \E c \in AnzCommands : (c.op = "set" => c.job = 0) /\ anzSent' = Append(anzSent, c)
    PROVE  AnzRunsRight'
<1>1. AnzRunsOk(anzEvents, anzJob, anzStored, anzRow'.running, anzRow.result, anzOwn, anzGen, anzToken, anzGhost')
  BY AnzRunsByGhost DEF AnzRunsRight
<1>2. AnzPushesOk(anzSent', anzJob)
  <2>1. CASE anzSent' = anzSent BY <2>1 DEF AnzRunsRight
  <2>2. ASSUME NEW c \in AnzCommands, c.op = "set" => c.job = 0, anzSent' = Append(anzSent, c)
        PROVE  AnzPushesOk(anzSent', anzJob)
    BY <2>2, AnzRunTypes, AnzPushesByCommand DEF AnzRunsRight
  <2> QED BY <2>1, <2>2
<1> QED BY <1>1, <1>2 DEF AnzRunsRight

LEMMA AnzPushedIs ==
    ASSUME AnzTypes, NEW chain \in AnzProper, anzSent' = AnzPushed(chain, 0)
    PROVE  \E c \in AnzCommands : (c.op = "set" => c.job = 0) /\ anzSent' = Append(anzSent, c)
<1>1. PICK c : c = [op |-> "set", chain |-> chain, job |-> 0] OBVIOUS
<1>2. c \in AnzCommands /\ c.job = 0 /\ anzSent' = Append(anzSent, c)
  BY <1>1, AnzPushIs DEF AnzPushed
<1> QED BY <1>2

LEMMA AnzRunsEdit == AnzTypes /\ AnzRunsRight /\ AnzEdit => AnzRunsRight'
<1> SUFFICES ASSUME AnzTypes, AnzRunsRight, AnzEdit PROVE AnzRunsRight' OBVIOUS
<1>1. PICK next \in AnzProper : anzSent' = AnzPushed(next, 0) BY AnzEditIs
<1>2. \E c \in AnzCommands : (c.op = "set" => c.job = 0) /\ anzSent' = Append(anzSent, c)
  BY <1>1, AnzPushedIs
<1>3. UNCHANGED <<anzEvents, anzJob, anzStored, anzOwn, anzGen, anzToken, anzRow>>
  BY DEF AnzEdit, anzBack, anzRuns
<1>4. /\ "overlap" \notin anzGhost' => "overlap" \notin anzGhost
      /\ {"missed", "emptied"} \cap anzGhost' = {} => {"missed", "emptied"} \cap anzGhost = {}
  <2>1. anzGhost \in SUBSET anzGhost' BY AnzEditIs
  <2> QED BY <2>1, AnzOverlapsOf
<1> QED BY <1>2, <1>3, <1>4, AnzRunsByWindow

LEMMA AnzRunsHydrate == AnzTypes /\ AnzRunsRight /\ AnzHydrate => AnzRunsRight'
<1> SUFFICES ASSUME AnzTypes, AnzRunsRight, AnzHydrate PROVE AnzRunsRight' OBVIOUS
<1>1. anzSent' = anzSent \/ \E c \in AnzCommands : (c.op = "set" => c.job = 0) /\ anzSent' = Append(anzSent, c)
  <2>1. CASE anzMine = AnzUnset /\ anzAsk.chain.members # {}
    <3>1. PICK next \in AnzProper : next = anzAsk.chain BY DEF AnzTypes
    <3>2. anzSent' = AnzPushed(next, 0) BY <2>1, <3>1 DEF AnzHydrate
    <3> QED BY <3>2, AnzPushedIs
  <2>2. CASE ~(anzMine = AnzUnset /\ anzAsk.chain.members # {}) BY <2>2 DEF AnzHydrate
  <2> QED BY <2>1, <2>2
<1>2. UNCHANGED <<anzEvents, anzJob, anzStored, anzOwn, anzGen, anzToken, anzRow>>
  BY DEF AnzHydrate, anzBack, anzRuns
<1>3. /\ "overlap" \notin anzGhost' => "overlap" \notin anzGhost
      /\ {"missed", "emptied"} \cap anzGhost' = {} => {"missed", "emptied"} \cap anzGhost = {}
  <2>1. anzGhost \in SUBSET anzGhost' BY DEF AnzHydrate
  <2> QED BY <2>1, AnzOverlapsOf
<1> QED BY <1>1, <1>2, <1>3, AnzRunsByWindow

LEMMA AnzRunsWindow ==
    ASSUME AnzTypes, AnzRunsRight, AnzStopSent \/ AnzStopAnswered \/ AnzFetch PROVE AnzRunsRight'
<1>1. UNCHANGED <<anzEvents, anzJob, anzStored, anzOwn, anzGen, anzToken, anzGhost>>
  BY DEF AnzStopSent, AnzStopAnswered, AnzFetch, anzBack, anzHist
<1>2. anzRow'.result = anzRow.result /\ (anzRow'.running => anzRow.running)
  <2>1. CASE AnzStopSent \/ AnzFetch BY <2>1 DEF AnzStopSent, AnzFetch
  <2>2. CASE AnzStopAnswered
    <3>1. anzRow' = [anzRow EXCEPT !.running = FALSE] BY <2>2 DEF AnzStopAnswered
    <3> QED BY <3>1 DEF AnzTypes
  <2> QED BY <2>1, <2>2
<1>3. anzSent' = anzSent \/ \E c \in AnzCommands : (c.op = "set" => c.job = 0) /\ anzSent' = Append(anzSent, c)
  <2>1. CASE AnzStopSent
    <3>1. PICK c : c = [op |-> "stop", chain |-> AnzEmpty, job |-> 0] OBVIOUS
    <3>2. c \in AnzCommands /\ c.op # "set" /\ anzSent' = Append(anzSent, c)
      BY <2>1, <3>1, AnzEmptyIs DEF AnzCommands, AnzStopSent
    <3> QED BY <3>2
  <2>2. CASE AnzStopAnswered \/ AnzFetch BY <2>2 DEF AnzStopAnswered, AnzFetch
  <2> QED BY <2>1, <2>2
<1> QED BY <1>1, <1>2, <1>3, AnzRunsByWindow

LEMMA AnzRunsNews ==
    ASSUME AnzTypes, AnzCallTypes, AnzRunsRight, NEW j,
           \/ AnzAgentEdit \/ AnzJoinReads(j) \/ AnzJoinStores \/ AnzTell \/ AnzRefresh \/ AnzUninstall
    PROVE  AnzRunsRight'
<1>1. UNCHANGED <<anzSent, anzJob, anzStored, anzOwn, anzGen, anzToken, anzRow>>
  BY DEF AnzAgentEdit, AnzJoinReads, AnzJoinStores, AnzTell, AnzRefresh, AnzUninstall, anzBack, anzRuns
<1>2. /\ "overlap" \notin anzGhost' => "overlap" \notin anzGhost
      /\ {"missed", "emptied"} \cap anzGhost' = {} => {"missed", "emptied"} \cap anzGhost = {}
  <2>1. anzGhost \in SUBSET anzGhost'
    BY DEF AnzAgentEdit, AnzJoinReads, AnzJoinStores, AnzStores, AnzTell, AnzRefresh, AnzUninstall, anzHist
  <2> QED BY <2>1, AnzOverlapsOf
<1>3. anzEvents' = anzEvents \/ \E e \in AnzNews : e.ev \in {"chain", "uninstall"} /\ anzEvents' = Append(anzEvents, e)
  <2>1. CASE AnzAgentEdit \/ AnzJoinReads(j) \/ AnzJoinStores \/ AnzRefresh
    BY <2>1 DEF AnzAgentEdit, AnzJoinReads, AnzJoinStores, AnzRefresh
  <2>3. CASE AnzTell
    <3>1. PICK i \in DOMAIN anzUntold :
            anzEvents' = Append(anzEvents, [ev |-> "chain", chain |-> anzUntold[i].chain])
      BY <2>3 DEF AnzTell
    <3>2. anzUntold[i].chain \in AnzProper BY AnzUntoldIs
    <3>3. PICK e : e = [ev |-> "chain", chain |-> anzUntold[i].chain] OBVIOUS
    <3>4. e \in AnzNews /\ e.ev = "chain" BY <3>2, <3>3 DEF AnzNews
    <3> QED BY <3>1, <3>3, <3>4
  <2>2. CASE AnzUninstall
    <3>1. PICK p \in anzInstalled : anzEvents' = Append(anzEvents, [ev |-> "uninstall", id |-> p])
      BY <2>2 DEF AnzUninstall
    <3>2. PICK e : e = [ev |-> "uninstall", id |-> p] OBVIOUS
    <3>3. e \in AnzNews /\ e.ev = "uninstall" BY <3>2 DEF AnzNews, AnzTypes
    <3> QED BY <3>1, <3>2, <3>3
  <2> QED BY <2>1, <2>2, <2>3
<1>4. AnzRunsOk(anzEvents', anzJob, anzStored, anzRow.running, anzRow.result, anzOwn, anzGen, anzToken, anzGhost)
  <2>1. ASSUME NEW e \in AnzNews, e.ev \in {"chain", "uninstall"}
        PROVE  AnzRunsOk(Append(anzEvents, e), anzJob, anzStored, anzRow.running, anzRow.result,
                         anzOwn, anzGen, anzToken, anzGhost)
    BY <2>1, AnzRunTypes, AnzRunsByNews DEF AnzRunsRight
  <2> QED BY <1>3, <2>1 DEF AnzRunsRight
<1>5. AnzRunsOk(anzEvents', anzJob, anzStored, anzRow.running, anzRow.result, anzOwn, anzGen, anzToken, anzGhost')
  BY <1>2, <1>4, AnzRunsByGhost
<1> QED BY <1>1, <1>5 DEF AnzRunsRight

LEMMA AnzRunsReceive == AnzTypes /\ AnzRunsRight /\ AnzReceive => AnzRunsRight'
<1> SUFFICES ASSUME AnzTypes, AnzRunsRight, AnzReceive PROVE AnzRunsRight' OBVIOUS
<1>1. PICK c : c = Head(anzSent) OBVIOUS
<1>2. /\ anzSent # <<>> /\ anzSent' = Tail(anzSent) /\ anzSent \in Seq(AnzCommands)
      /\ UNCHANGED <<anzEvents, anzStored, anzRow, anzOwn, anzGen, anzToken, anzGhost>>
  BY DEF AnzReceive, anzHist, AnzTypes
<1>3. c \in AnzCommands /\ c = anzSent[1] BY <1>1, <1>2, AnzHeadIs, ArtHeadTail
<1>4. c.op \in {"set", "get", "stop"} /\ c.job \in AnzJobs \cup {0} BY <1>3 DEF AnzCommands
<1>5. CASE c.op = "set" /\ c.job # 0
  <2>1. PICK j \in AnzJobs : j = c.job BY <1>4, <1>5
  <2>2. anzJob' = [anzJob EXCEPT ![j].pc = "ready"] BY <1>1, <1>5, <2>1 DEF AnzReceive
  <2>3. AnzPushes(anzSent, 1, j) /\ 1 \in DOMAIN anzSent
    <3>1. 1 \in DOMAIN anzSent BY <1>2
    <3> QED BY <1>3, <1>5, <2>1, <3>1 DEF AnzPushes
  <2>4. anzJob[j].pc = "set" BY <2>3 DEF AnzRunsRight, AnzPushesOk
  <2>5. AnzRunsOk(anzEvents, anzJob', anzStored, anzRow.running, anzRow.result, anzOwn, anzGen, anzToken, anzGhost)
    BY <2>2, <2>4, AnzRunTypes, AnzRunsByTurn DEF AnzRunsRight
  <2>6. \A i \in AnzJobs : anzJob[i].pc = "set" => anzJob'[i].pc = "set" \/ AnzPushes(anzSent, 1, i)
    BY <2>2, <2>3, AnzRunTypes
  <2>7. AnzPushesOk(Tail(anzSent), anzJob') BY <1>2, <2>6, AnzPushesByReceive DEF AnzRunsRight
  <2> QED BY <1>2, <2>5, <2>7 DEF AnzRunsRight
<1>6. CASE ~(c.op = "set" /\ c.job # 0)
  <2>1. /\ \A j \in AnzJobs : /\ anzJob'[j].pc = anzJob[j].pc /\ anzJob'[j].caller = anzJob[j].caller
                              /\ anzJob'[j].out = anzJob[j].out /\ anzJob'[j].gen = anzJob[j].gen
    <3>1. CASE c.op = "stop"
      <4>1. anzJob' = [j \in AnzJobs |-> [anzJob[j] EXCEPT !.stopped = @ \/ anzJob[j].pc \in {"asked", "runs"}]]
        BY <1>1, <3>1 DEF AnzReceive
      <4>2. \A j \in AnzJobs : anzJob[j] \in AnzJobSet BY AnzRunTypes
      <4> QED BY <4>1, <4>2 DEF AnzJobSet
    <3>2. CASE c.op # "stop"
      <4>1. anzJob' = anzJob BY <1>1, <1>4, <1>6, <3>2 DEF AnzReceive
      <4> QED BY <4>1
    <3> QED BY <3>1, <3>2
  <2>2. AnzRunsOk(anzEvents, anzJob', anzStored, anzRow.running, anzRow.result, anzOwn, anzGen, anzToken, anzGhost)
    BY <2>1, AnzRunTypes, AnzRunsByJobs DEF AnzRunsRight
  <2>3. AnzPushesOk(Tail(anzSent), anzJob') BY <1>2, <2>1, AnzPushesByReceive DEF AnzRunsRight
  <2> QED BY <1>2, <2>2, <2>3 DEF AnzRunsRight
<1> QED BY <1>5, <1>6

LEMMA AnzRunsOfAgents ==
    ASSUME AnzTypes, AnzRunsRight, NEW j \in AnzJobs, AnzAgentRuns(j) \/ AnzChunk(j) PROVE AnzRunsRight'
<1>1. CASE AnzAgentRuns(j)
  <2>1. PICK want \in SUBSET anzInstalled :
          anzJob' = [anzJob EXCEPT ![j] = [AnzNoJob EXCEPT !.pc = "asked", !.caller = "agent",
                                             !.want = want, !.left = AnzChunks]]
    BY <1>1 DEF AnzAgentRuns
  <2>2. PICK rec : rec = [AnzNoJob EXCEPT !.pc = "asked", !.caller = "agent", !.want = want, !.left = AnzChunks]
    OBVIOUS
  <2>3. rec.pc = "asked" /\ rec.caller = "agent" /\ rec.out = "none" BY <2>2 DEF AnzNoJob
  <2>4. anzJob[j].pc = "none" BY <1>1 DEF AnzAgentRuns, AnzNextJob
  <2>5. anzJob' = [anzJob EXCEPT ![j] = rec] BY <2>1, <2>2
  <2>6. AnzRunsOk(anzEvents, anzJob', anzStored, anzRow.running, anzRow.result, anzOwn, anzGen, anzToken, anzGhost)
    BY <2>3, <2>4, <2>5, AnzRunTypes, AnzRunsByAsking DEF AnzRunsRight
  <2>7. \A i \in AnzJobs : anzJob[i].pc = "set" => anzJob'[i].pc = "set" BY <2>4, <2>5, AnzRunTypes
  <2>8. AnzPushesOk(anzSent, anzJob') BY <2>7, AnzPushesByJobs DEF AnzRunsRight
  <2>9. UNCHANGED <<anzEvents, anzSent, anzStored, anzOwn, anzGen, anzToken, anzRow, anzGhost>>
    BY <1>1 DEF AnzAgentRuns, anzBack, anzRuns
  <2> QED BY <2>6, <2>8, <2>9 DEF AnzRunsRight
<1>2. CASE AnzChunk(j)
  <2>1. PICK e : e = [ev |-> "progress"] OBVIOUS
  <2>2. e \in AnzNews /\ e.ev = "progress" /\ anzEvents' = Append(anzEvents, e)
    BY <1>2, <2>1 DEF AnzNews, AnzChunk
  <2>3. anzJob[j].pc = "runs" BY <1>2 DEF AnzChunk
  <2>4. AnzRunsOk(anzEvents', anzJob, anzStored, anzRow.running, anzRow.result, anzOwn, anzGen, anzToken, anzGhost)
    BY <2>2, <2>3, AnzRunTypes, AnzRunsByNews DEF AnzRunsRight
  <2>5. \A i \in AnzJobs : /\ anzJob'[i].pc = anzJob[i].pc /\ anzJob'[i].caller = anzJob[i].caller
                           /\ anzJob'[i].out = anzJob[i].out /\ anzJob'[i].gen = anzJob[i].gen
    <3>1. PICK x : x = anzJob[j].left - 1 OBVIOUS
    <3>2. anzJob' = [anzJob EXCEPT ![j].left = x] /\ anzJob \in [AnzJobs -> AnzJobSet]
      BY <1>2, <3>1, AnzRunTypes DEF AnzChunk
    <3> QED BY <3>2 DEF AnzJobSet
  <2>6. anzEvents' \in Seq(AnzNews) BY <2>2, AnzRunTypes, AnzAppended
  <2>7. AnzRunsOk(anzEvents', anzJob', anzStored, anzRow.running, anzRow.result, anzOwn, anzGen, anzToken, anzGhost)
    BY <2>4, <2>5, <2>6, AnzRunTypes, AnzRunsByJobs
  <2>8. AnzPushesOk(anzSent, anzJob') BY <2>5, AnzPushesByJobs DEF AnzRunsRight
  <2>9. UNCHANGED <<anzSent, anzStored, anzOwn, anzGen, anzToken, anzRow, anzGhost>>
    BY <1>2 DEF AnzChunk, anzBack, anzRuns, anzHist
  <2> QED BY <2>7, <2>8, <2>9 DEF AnzRunsRight
<1> QED BY <1>1, <1>2

LEMMA AnzRunsStore ==
    ASSUME AnzTypes, AnzRunsRight, NEW j \in AnzJobs, AnzStore(j) PROVE AnzRunsRight'
<1>1. PICK e : e = AnzComplete(j, "ok") OBVIOUS
<1>2. /\ e \in AnzNews /\ e.ev = "complete" /\ e.caller = anzJob[j].caller /\ e.job = j /\ e.out = "ok"
      /\ "ok" \in AnzOuts BY <1>1, AnzCompleteIs DEF AnzOuts, AnzComplete
<1>3. /\ anzJob[j].pc = "runs" /\ anzStored' = j /\ anzEvents' = Append(anzEvents, e)
      /\ UNCHANGED <<anzSent, anzOwn, anzGen, anzToken, anzRow, anzGhost>>
  BY <1>1 DEF AnzStore, anzRuns, anzHist
<1>4. anzJob' = [anzJob EXCEPT ![j] = [anzJob[j] EXCEPT !.out = "ok",
                   !.pc = IF anzJob[j].caller = "agent" \/ anzJob[j].pc = "none" THEN "done" ELSE "answered"]]
  BY <1>2, AnzOverIs DEF AnzStore
<1>5. AnzRunsOk(anzEvents', anzJob', anzStored', anzRow.running, anzRow.result, anzOwn, anzGen, anzToken, anzGhost)
  BY <1>2, <1>3, <1>4, AnzRunTypes, AnzRunsByOver DEF AnzRunsRight
<1>6. \A i \in AnzJobs : anzJob[i].pc = "set" => anzJob'[i].pc = "set" BY <1>3, <1>4, AnzRunTypes
<1>7. AnzPushesOk(anzSent, anzJob') BY <1>6, AnzPushesByJobs DEF AnzRunsRight
<1> QED BY <1>3, <1>5, <1>7 DEF AnzRunsRight

LEMMA AnzRunsBegin ==
    ASSUME AnzTypes, AnzRunsRight, NEW j \in AnzJobs, AnzBegin(j) PROVE AnzRunsRight'
<1>5. /\ anzJob[j].pc = "asked" /\ \A i \in AnzJobs : anzJob[i].pc # "runs"
      /\ UNCHANGED <<anzSent, anzStored, anzOwn, anzGen, anzToken, anzRow, anzGhost>>
  BY DEF AnzBegin, AnzLock, anzRuns, anzHist
<1>8. /\ AnzRunsOk(anzEvents', anzJob', anzStored, anzRow.running, anzRow.result, anzOwn, anzGen, anzToken, anzGhost)
      /\ \A i \in AnzJobs : anzJob[i].pc = "set" => anzJob'[i].pc = "set"
  <2>1. CASE anzJob' = [anzJob EXCEPT ![j].pc = "runs"] /\ UNCHANGED anzEvents
    <3>2. AnzRunsOk(anzEvents, [anzJob EXCEPT ![j].pc = "runs"], anzStored, anzRow.running, anzRow.result,
                    anzOwn, anzGen, anzToken, anzGhost)
      BY <1>5, AnzRunTypes, AnzRunsByTurn DEF AnzRunsRight
    <3>3. \A i \in AnzJobs : anzJob[i].pc = "set" => anzJob'[i].pc = "set"
      BY <1>5, <2>1, AnzRunTypes
    <3> QED BY <2>1, <3>2, <3>3
  <2>2. ASSUME NEW out \in {"nochain", "cancelled", "error"}, AnzOver(j, out),
               anzEvents' = Append(anzEvents, AnzComplete(j, out))
        PROVE  /\ AnzRunsOk(anzEvents', anzJob', anzStored, anzRow.running, anzRow.result,
                            anzOwn, anzGen, anzToken, anzGhost)
               /\ \A i \in AnzJobs : anzJob[i].pc = "set" => anzJob'[i].pc = "set"
    <3>1. out \in AnzOuts /\ out # "ok" BY DEF AnzOuts
    <3>2. PICK e : e = AnzComplete(j, out) OBVIOUS
    <3>3. /\ e \in AnzNews /\ e.ev = "complete" /\ e.caller = anzJob[j].caller /\ e.job = j /\ e.out = out
      BY <3>1, <3>2, AnzCompleteIs DEF AnzComplete
    <3>4. anzEvents' = Append(anzEvents, e) BY <2>2, <3>2
    <3>5. anzJob' = [anzJob EXCEPT ![j] = [anzJob[j] EXCEPT !.out = out,
                       !.pc = IF anzJob[j].caller = "agent" \/ anzJob[j].pc = "none" THEN "done" ELSE "answered"]]
      BY <2>2, <3>1, AnzOverIs
    <3>6. PICK kept : kept = IF out = "ok" THEN j ELSE anzStored OBVIOUS
    <3>9. AnzRunsOk(anzEvents, anzJob, anzStored, anzRow.running, anzRow.result, anzOwn, anzGen, anzToken, anzGhost)
      BY DEF AnzRunsRight
    <3>7. AnzRunsOk(anzEvents', anzJob', kept, anzRow.running, anzRow.result, anzOwn, anzGen, anzToken, anzGhost)
      BY <1>5, <3>1, <3>3, <3>4, <3>5, <3>6, <3>9, AnzRunTypes, AnzRunsByOver
    <3>8. \A i \in AnzJobs : anzJob[i].pc = "set" => anzJob'[i].pc = "set"
      BY <1>5, <3>5, AnzRunTypes
    <3> QED BY <3>1, <3>6, <3>7, <3>8
  <2> QED BY <2>1, <2>2, AnzBeginIs
<1>10. AnzPushesOk(anzSent, anzJob') BY <1>8, AnzPushesByJobs DEF AnzRunsRight
<1> QED BY <1>5, <1>8, <1>10 DEF AnzRunsRight

LEMMA AnzRunsOfUser ==
    ASSUME AnzTypes, AnzRunsRight, NEW j \in AnzJobs, AnzRun(j) \/ AnzInvoke(j) PROVE AnzRunsRight'
<1>1. CASE AnzRun(j)
  <2>1. PICK rec : rec = [AnzNoJob EXCEPT !.pc = "set", !.gen = anzGen + 1, !.left = AnzChunks]
    OBVIOUS
  <2>2. rec.pc = "set" /\ rec.caller = "ui" /\ rec.out = "none" /\ rec.gen = anzGen + 1
    BY <2>1 DEF AnzNoJob
  <2>3. /\ anzJob[j].pc = "none" /\ anzJob' = [anzJob EXCEPT ![j] = rec]
        /\ anzGen' = anzGen + 1 /\ anzOwn' = [job |-> j, settled |-> FALSE, awaits |-> 0]
        /\ anzRow' = [anzRow EXCEPT !.running = TRUE, !.error = FALSE]
        /\ anzSent' = AnzPushed(AnzCurrent, j) /\ UNCHANGED <<anzEvents, anzStored, anzToken>>
    BY <1>1, <2>1 DEF AnzRun, AnzNextJob, anzBack
  <2>4. anzGhost' = anzGhost \cup AnzCrossed(anzSent', anzEvents, anzUntold)
                      \cup (IF AnzOwnUnderWay THEN {"overlap"} ELSE {}) BY <1>1 DEF AnzRun
  <2>5. {"missed", "emptied"} \cap anzGhost' = {} => {"missed", "emptied"} \cap anzGhost = {}
    BY <2>4
  <2>6. "overlap" \notin anzGhost' =>
          /\ "overlap" \notin anzGhost
          /\ ~AnzIsTold(anzEvents, "ui") /\ \A i \in AnzJobs : ~AnzAlive(anzJob, i)
    BY <2>4 DEF AnzOwnUnderWay, AnzIsTold, AnzTold, AnzAlive
  <2>7. AnzRunsOk(anzEvents, anzJob', anzStored, TRUE, anzRow.result, anzOwn', anzGen', anzToken, anzGhost')
    BY <2>2, <2>3, <2>5, <2>6, AnzRunTypes, AnzRunsByStart DEF AnzRunsRight
  <2>8. anzRow'.result = anzRow.result BY <2>3 DEF AnzTypes
  <2>9. AnzRunsOk(anzEvents, anzJob', anzStored, anzRow'.running, anzRow.result, anzOwn', anzGen', anzToken, anzGhost')
    BY <2>7, AnzRunsByGhost
  <2>10. AnzPushesOk(anzSent', anzJob')
    <3>1. PICK c : c = [op |-> "set", chain |-> AnzCurrent, job |-> j] OBVIOUS
    <3>2. c \in AnzCommands /\ c.job = j /\ anzSent' = Append(anzSent, c)
      BY <2>3, <3>1, AnzCurrentIs, AnzPushIs DEF AnzPushed
    <3>3. anzJob'[j].pc = "set" /\ anzJob[j].pc # "set" /\ \A i \in AnzJobs : anzJob[i].pc = "set" => anzJob'[i].pc = "set"
      BY <2>2, <2>3, AnzRunTypes
    <3> QED BY <3>2, <3>3, AnzRunTypes, AnzPushesByCommand DEF AnzRunsRight
  <2> QED BY <2>3, <2>8, <2>9, <2>10 DEF AnzRunsRight
<1>2. CASE AnzInvoke(j)
  <2>1. /\ anzJob[j].pc = "ready" /\ anzJob' = [anzJob EXCEPT ![j].pc = "asked"]
        /\ anzOwn' = IF anzOwn.job = j THEN [anzOwn EXCEPT !.awaits = anzOwn.awaits + 1] ELSE anzOwn
        /\ UNCHANGED <<anzEvents, anzSent, anzStored, anzRow, anzGen, anzToken, anzGhost>>
    BY <1>2 DEF AnzInvoke, anzBack, anzHist
  <2>2. AnzRunsOk(anzEvents, anzJob', anzStored, anzRow.running, anzRow.result, anzOwn', anzGen, anzToken, anzGhost)
    BY <2>1, AnzRunTypes, AnzRunsByTurn DEF AnzRunsRight
  <2>3. \A i \in AnzJobs : anzJob[i].pc = "set" => anzJob'[i].pc = "set" BY <2>1, AnzRunTypes
  <2>4. AnzPushesOk(anzSent, anzJob') BY <2>3, AnzPushesByJobs DEF AnzRunsRight
  <2> QED BY <2>1, <2>2, <2>4 DEF AnzRunsRight
<1> QED BY <1>1, <1>2

LEMMA AnzRunsAnswered ==
    ASSUME AnzTypes, AnzRunsRight, NEW j \in AnzJobs, AnzAnswered(j) PROVE AnzRunsRight'
<1>1. /\ anzJob[j].pc = "answered" /\ anzJob' = [anzJob EXCEPT ![j].pc = "done"]
      /\ UNCHANGED <<anzEvents, anzSent, anzStored, anzGen, anzToken>> BY DEF AnzAnswered, anzBack
<1>2. PICK r, b : /\ r = IF AnzFails(anzJob[j].out) THEN anzRow.result ELSE IF anzJob[j].out = "ok" THEN j ELSE 0
                  /\ b = (anzRow.error \/ anzJob[j].out = "error")
  OBVIOUS
<1>3. /\ anzJob[j].gen = anzGen => ~anzRow'.running /\ anzRow'.result = r
      /\ anzJob[j].gen # anzGen => anzRow' = anzRow
  <2>1. anzJob[j].gen = anzGen => anzRow' = [running |-> FALSE, result |-> r, error |-> b]
    BY <1>2 DEF AnzAnswered, AnzCurrentRun, AnzFails
  <2>2. anzJob[j].gen # anzGen => anzRow' = anzRow BY DEF AnzAnswered, AnzCurrentRun
  <2> QED BY <2>1, <2>2
<1>4. anzOwn' = AnzOwnAfter(anzOwn, anzJob, j, anzGen)
  BY DEF AnzAnswered, AnzCurrentRun, AnzFails, AnzOwnAfter, AnzOwed
<1>5. anzGhost' = AnzSeenAfter(anzGhost, anzJob, j, anzStored) BY DEF AnzAnswered, AnzSeenAfter
<1>6. PICK left, shown : left = anzRow'.running /\ shown = anzRow'.result OBVIOUS
<1>7. /\ anzJob[j].gen = anzGen =>
           ~left /\ shown = IF AnzFails(anzJob[j].out) THEN anzRow.result ELSE IF anzJob[j].out = "ok" THEN j ELSE 0
      /\ anzJob[j].gen # anzGen => shown = anzRow.result /\ (left => anzRow.running)
  BY <1>2, <1>3, <1>6
<1>8. AnzRunsOk(anzEvents, anzJob', anzStored, left, shown, anzOwn', anzGen, anzToken, anzGhost')
  BY <1>1, <1>4, <1>5, <1>7, AnzRunTypes, AnzRunsByAnswer DEF AnzRunsRight
<1>9. \A i \in AnzJobs : anzJob[i].pc = "set" => anzJob'[i].pc = "set" BY <1>1, AnzRunTypes
<1>10. AnzPushesOk(anzSent, anzJob') BY <1>9, AnzPushesByJobs DEF AnzRunsRight
<1> QED BY <1>1, <1>6, <1>8, <1>10 DEF AnzRunsRight

\* The window hears of the runs.
LEMMA AnzRunsHear == AnzTypes /\ AnzRunsRight /\ AnzHear => AnzRunsRight'
<1> SUFFICES ASSUME AnzTypes, AnzRunsRight, AnzHear PROVE AnzRunsRight' OBVIOUS
<1>1. PICK e, t : e = Head(anzEvents) /\ t = Tail(anzEvents) OBVIOUS
<1>2. /\ anzEvents # <<>> /\ anzEvents' = t /\ UNCHANGED <<anzJob, anzStored>> /\ e \in AnzNews
  <2>1. /\ anzEvents # <<>> /\ anzEvents' = t /\ UNCHANGED <<anzJob, anzStored>>
    BY <1>1 DEF AnzHear, anzBack
  <2> QED BY <1>1, <2>1, AnzRunTypes, AnzHeadIs
<1>3. anzGhost' = anzGhost
        \cup AnzCrossed(anzSent', anzEvents', anzUntold)
        \cup (IF e.ev = "complete" /\ e.caller = "agent" /\ e.out = "ok" /\ ~AnzLands
              THEN {"missed"} ELSE {})
        \cup (IF e.ev = "uninstall" /\ anzMine = AnzUnset THEN {"unread"} ELSE {})
  BY <1>1 DEF AnzHear
<1>4. "overlap" \notin anzGhost' => "overlap" \notin anzGhost BY <1>3
<1>5. {"missed", "emptied"} \cap anzGhost' = {} =>
        /\ {"missed", "emptied"} \cap anzGhost = {}
        /\ ~(e.ev = "complete" /\ e.caller = "agent" /\ e.out = "ok" /\ ~AnzLands) BY <1>3
<1>6. AnzPushesOk(anzSent', anzJob)
  <2>1. anzSent' = anzSent \/ \E c \in AnzCommands : (c.op = "set" => c.job = 0) /\ anzSent' = Append(anzSent, c)
    <3>1. CASE e.ev = "restored" /\ e.chain.members # {}
      <4>1. anzSent' = AnzPushed(e.chain, 0) BY <1>1, <3>1 DEF AnzHear, AnzHearRestored
      <4> QED BY <1>2, <3>1, <4>1, AnzPushedIs, AnzNewsFields
    <3>2. CASE e.ev = "uninstall" /\ AnzTouches(e.id)
      <4>1. anzSent' = AnzPushed(AnzWithout(anzMine, {e.id}), 0)
        BY <1>1, <3>2 DEF AnzHear, AnzHearUninstall
      <4>2. AnzWithout(anzMine, {e.id}) \in AnzProper
        <5>1. anzMine # AnzUnset BY <3>2 DEF AnzTouches, AnzUnset
        <5> QED BY <5>1, AnzProperEdits DEF AnzTypes
      <4> QED BY <4>1, <4>2, AnzPushedIs
    <3>3. CASE ~(e.ev = "restored" /\ e.chain.members # {}) /\ ~(e.ev = "uninstall" /\ AnzTouches(e.id))
      <4>1. e.ev \in {"chain", "restored", "uninstall", "progress", "complete"}
            /\ (e.ev = "complete" => e.caller \in {"ui", "agent"}) BY <1>2, AnzNewsFields
      <4>2. anzSent' = anzSent
        <5>1. CASE e.ev = "chain" BY <1>1, <5>1 DEF AnzHear, AnzHearChain
        <5>2. CASE e.ev = "restored" BY <1>1, <3>3, <5>2 DEF AnzHear, AnzHearRestored
        <5>3. CASE e.ev = "uninstall" BY <1>1, <3>3, <5>3 DEF AnzHear, AnzHearUninstall
        <5>4. CASE e.ev = "progress" BY <1>1, <5>4 DEF AnzHear, AnzHearProgress
        <5>5. CASE e.ev = "complete" /\ e.caller = "ui"
          BY <1>1, <5>5 DEF AnzHear, AnzHearOwnComplete
        <5>6. CASE e.ev = "complete" /\ e.caller = "agent"
          BY <1>1, <5>6 DEF AnzHear, AnzHearForeignComplete
        <5> QED BY <4>1, <5>1, <5>2, <5>3, <5>4, <5>5, <5>6
      <4> QED BY <4>2
    <3> QED BY <3>1, <3>2, <3>3
  <2>2. ASSUME NEW c \in AnzCommands, c.op = "set" => c.job = 0
        PROVE  AnzPushesOk(Append(anzSent, c), anzJob)
    BY <2>2, AnzRunTypes, AnzPushesByCommand DEF AnzRunsRight
  <2> QED BY <2>1, <2>2 DEF AnzRunsRight
<1>7. ASSUME e.ev # "complete"
      PROVE  AnzRunsOk(t, anzJob, anzStored, anzRow.running, anzRow.result, anzOwn, anzGen, anzToken, anzGhost)
  BY <1>1, <1>2, <1>7, AnzRunTypes, AnzRunsByHearing DEF AnzRunsRight
<1>8. CASE e.ev \in {"chain", "restored", "uninstall"}
  <2>1. UNCHANGED <<anzRow, anzGen, anzToken, anzOwn>>
    <3>1. CASE e.ev = "chain" BY <1>1, <3>1 DEF AnzHear, AnzHearChain
    <3>2. CASE e.ev = "restored" BY <1>1, <3>2 DEF AnzHear, AnzHearRestored
    <3>3. CASE e.ev = "uninstall" BY <1>1, <3>3 DEF AnzHear, AnzHearUninstall
    <3> QED BY <1>8, <3>1, <3>2, <3>3
  <2>2. AnzRunsOk(t, anzJob, anzStored, anzRow.running, anzRow.result, anzOwn, anzGen, anzToken, anzGhost')
    BY <1>4, <1>5, <1>7, <1>8, AnzRunsByGhost
  <2> QED BY <1>2, <1>6, <2>1, <2>2 DEF AnzRunsRight
<1>9. CASE e.ev = "progress"
  <2>0. AnzHearProgress BY <1>1, <1>9 DEF AnzHear
  <2>1. CASE anzRow.running \/ AnzOwnMode
    <3>1. UNCHANGED <<anzRow, anzGen, anzToken, anzOwn>> BY <2>0, <2>1 DEF AnzHearProgress
    <3>2. AnzRunsOk(t, anzJob, anzStored, anzRow.running, anzRow.result, anzOwn, anzGen, anzToken, anzGhost')
      BY <1>4, <1>5, <1>7, <1>9, AnzRunsByGhost
    <3> QED BY <1>2, <1>6, <3>1, <3>2 DEF AnzRunsRight
  <2>2. CASE ~(anzRow.running \/ AnzOwnMode)
    <3>1. /\ anzOwn.job = 0 /\ anzOwn' = anzOwn /\ anzGen' = anzGen + 1 /\ anzToken' = anzGen + 1
          /\ anzRow' = [anzRow EXCEPT !.running = TRUE, !.error = FALSE]
      BY <2>0, <2>2 DEF AnzHearProgress, AnzOwnMode
    <3>2. anzRow'.result = anzRow.result BY <3>1 DEF AnzTypes
    <3>3. PICK left : left = anzRow'.running OBVIOUS
    <3>4. AnzRunsOk(t, anzJob, anzStored, left, anzRow.result, anzOwn, anzGen + 1, anzGen + 1, anzGhost)
      BY <1>1, <1>2, <1>9, <3>1, AnzRunTypes, AnzRunsByProgress DEF AnzRunsRight
    <3>5. AnzRunsOk(t, anzJob, anzStored, left, anzRow.result, anzOwn, anzGen + 1, anzGen + 1, anzGhost')
      BY <1>4, <1>5, <3>4, AnzRunsByGhost
    <3> QED BY <1>2, <1>6, <3>1, <3>2, <3>3, <3>5 DEF AnzRunsRight
  <2> QED BY <2>1, <2>2
<1>10. CASE e.ev = "complete" /\ e.caller = "ui"
  <2>0. AnzHearOwnComplete BY <1>1, <1>10 DEF AnzHear
  <2>1. /\ UNCHANGED <<anzRow, anzGen, anzToken>>
        /\ anzOwn' = IF anzOwn.job = 0 THEN anzOwn ELSE AnzOwnDone([anzOwn EXCEPT !.awaits = anzOwn.awaits - 1])
    BY <2>0 DEF AnzHearOwnComplete
  <2>2. AnzRunsOk(t, anzJob, anzStored, anzRow.running, anzRow.result, anzOwn', anzGen, anzToken, anzGhost)
    BY <1>1, <1>2, <1>10, <2>1, AnzRunTypes, AnzRunsByOwnNews DEF AnzRunsRight
  <2>3. AnzRunsOk(t, anzJob, anzStored, anzRow.running, anzRow.result, anzOwn', anzGen, anzToken, anzGhost')
    BY <1>4, <1>5, <2>2, AnzRunsByGhost
  <2> QED BY <1>2, <1>6, <2>1, <2>3 DEF AnzRunsRight
<1>11. CASE e.ev = "complete" /\ e.caller = "agent"
  <2>0. AnzHearForeignComplete(e) BY <1>1, <1>11 DEF AnzHear
  <2>1. PICK left, shown, next : left = anzRow'.running /\ shown = anzRow'.result /\ next = anzGen'
    OBVIOUS
  <2>2. anzToken' = 0 /\ anzOwn' = anzOwn BY <2>0 DEF AnzHearForeignComplete
  <2>3. PICK seen : seen = IF e.out = "ok" /\ ~AnzLands THEN anzGhost \cup {"missed"} ELSE anzGhost
    OBVIOUS
  <2>4. AnzRunsOk(t, anzJob, anzStored, left, shown, anzOwn, next, 0, seen)
    <3>1. CASE AnzLands
      <4>1. anzOwn.job = 0 \/ anzToken = anzGen BY <3>1 DEF AnzLands, AnzOwnMode
      <4>2. PICK r, b : /\ r = IF e.out = "ok" THEN e.job ELSE anzRow.result
                        /\ b = CASE e.out = "ok" -> FALSE [] e.out = "error" -> TRUE [] OTHER -> anzRow.error
        OBVIOUS
      <4>3. anzGen' = anzGen + 1 /\ anzRow' = [running |-> FALSE, result |-> r, error |-> b]
        BY <2>0, <3>1, <4>2 DEF AnzHearForeignComplete
      <4>4. ~left /\ shown = r /\ next = anzGen + 1 /\ seen = anzGhost BY <2>1, <2>3, <3>1, <4>3
      <4> QED BY <1>1, <1>2, <1>11, <4>1, <4>2, <4>4, AnzRunTypes, AnzRunsByForeignNews DEF AnzRunsRight
    <3>2. CASE ~AnzLands
      <4>1. anzToken # 0 => anzToken # anzGen BY <3>2 DEF AnzLands
      <4>2. UNCHANGED <<anzGen, anzRow>> BY <2>0, <3>2 DEF AnzHearForeignComplete
      <4>3. /\ left <=> anzRow.running
            /\ shown = anzRow.result /\ next = anzGen
            /\ seen = IF e.out = "ok" THEN anzGhost \cup {"missed"} ELSE anzGhost
        BY <2>1, <2>3, <3>2, <4>2
      <4> QED BY <1>1, <1>2, <1>11, <4>1, <4>3, AnzRunTypes, AnzRunsByForeignNews DEF AnzRunsRight
    <3> QED BY <3>1, <3>2
  <2>5. /\ "overlap" \notin anzGhost' => "overlap" \notin seen
        /\ {"missed", "emptied"} \cap anzGhost' = {} => {"missed", "emptied"} \cap seen = {}
    BY <1>4, <1>5, <1>11, <2>3
  <2>6. AnzRunsOk(t, anzJob, anzStored, left, shown, anzOwn, next, 0, anzGhost')
    BY <2>4, <2>5, AnzRunsByGhost
  <2> QED BY <1>2, <1>6, <2>1, <2>2, <2>6 DEF AnzRunsRight
<1> QED BY <1>2, <1>8, <1>9, <1>10, <1>11, AnzNewsFields

LEMMA AnzRunsNext == AnzTypes /\ AnzCallTypes /\ AnzRunsRight /\ [AnzNext]_anzVars => AnzRunsRight'
<1> SUFFICES ASSUME AnzTypes, AnzCallTypes, AnzRunsRight, [AnzNext]_anzVars PROVE AnzRunsRight' OBVIOUS
<1>1. CASE AnzNext
  <2>1. ASSUME NEW j \in AnzJobs,
               AnzAgentRuns(j) \/ AnzJoinReads(j) \/ AnzBegin(j) \/ AnzChunk(j) \/ AnzStore(j)
                 \/ AnzRun(j) \/ AnzInvoke(j) \/ AnzAnswered(j)
        PROVE  AnzRunsRight'
    BY <2>1, AnzRunsOfAgents, AnzRunsOfUser, AnzRunsBegin, AnzRunsNews, AnzRunsStore, AnzRunsAnswered
  <2>2. CASE AnzAgentEdit \/ AnzJoinStores \/ AnzTell \/ AnzRefresh \/ AnzUninstall
    BY <2>2, AnzRunsNews
  <2> QED
    BY <1>1, <2>1, <2>2, AnzRunsEdit, AnzRunsReceive, AnzRunsWindow, AnzRunsHydrate, AnzRunsHear DEF AnzNext
<1>2. CASE UNCHANGED anzVars BY <1>2 DEF anzVars, anzBack, anzRuns, anzHist, AnzRunsRight
<1> QED BY <1>1, <1>2

\* What the invariant gives when nothing is on its way.
LEMMA AnzRunsSettle ==
    AnzTypes /\ AnzRunsRight => AnzRowSettles /\ AnzResultIsStored
<1> SUFFICES ASSUME AnzTypes, AnzRunsRight, AnzQuiet, "overlap" \notin anzGhost
             PROVE  /\ ~anzRow.running /\ anzOwn = AnzNoOwn /\ anzToken = 0
                    /\ {"missed", "emptied"} \cap anzGhost = {} => anzRow.result = anzStored
  BY DEF AnzRowSettles, AnzResultIsStored
<1>1. /\ AnzJobsOk(anzJob, anzStored, anzRow.result)
      /\ AnzOwnOk(anzEvents, anzJob, anzOwn, anzGen, anzToken)
      /\ AnzRowOk(anzEvents, anzJob, anzRow.running, anzGen, anzToken)
      /\ AnzResultOk(anzEvents, anzJob, anzStored, anzOwn, anzRow.result, anzGhost)
  BY DEF AnzRunsRight, AnzRunsOk
<1>2. DOMAIN anzEvents = {} /\ \A j \in AnzJobs : anzJob[j].pc \in {"none", "done"} BY DEF AnzQuiet
<1>3. \A c : ~AnzIsTold(anzEvents, c) BY <1>2 DEF AnzIsTold
<1>4. \A j \in AnzJobs : ~AnzAlive(anzJob, j) /\ anzJob[j].pc # "runs" BY <1>2 DEF AnzAlive
<1>5. anzToken = 0 /\ ~anzRow.running BY <1>1, <1>3, <1>4 DEF AnzRowOk
<1>6. anzOwn = AnzNoOwn
  <2>1. anzOwn.job = 0
    <3>1. anzOwn.job # 0 => anzOwn.job \in AnzJobs BY AnzRunTypes DEF AnzOwnSet
    <3> QED BY <1>1, <1>2, <1>3, <3>1 DEF AnzOwnOk
  <2> QED BY <1>1, <2>1 DEF AnzOwnOk
<1>7. ASSUME {"missed", "emptied"} \cap anzGhost = {} PROVE anzRow.result = anzStored
  <2>1. CASE anzStored = 0 BY <1>1, <2>1 DEF AnzJobsOk
  <2>2. CASE anzStored # 0
    <3>1. anzStored \in AnzJobs /\ anzJob[anzStored].out = "ok" /\ anzJob[anzStored].caller \in {"ui", "agent"}
      <4>1. anzStored \in AnzJobs /\ anzJob \in [AnzJobs -> AnzJobSet] BY <2>2, AnzRunTypes
      <4> QED BY <1>1, <2>2, <4>1 DEF AnzJobsOk, AnzJobSet
    <3>2. anzJob[anzStored].pc = "done" BY <1>1, <1>2, <3>1 DEF AnzJobsOk
    <3>3. AnzNoneBrings(anzEvents) BY <1>2 DEF AnzNoneBrings
    <3> QED BY <1>1, <1>7, <2>2, <3>1, <3>2, <3>3 DEF AnzResultOk, AnzAgentResult, AnzUserResult
  <2> QED BY <2>1, <2>2
<1> QED BY <1>5, <1>6, <1>7

\* The window's copy of the chain, and what it shows of the runs, are what
\* the back end has, once nothing is on its way and nothing runs, unless
\* changes passed each other, own runs overlapped, or the end of a run was
\* passed over; and an uninstalled processor is gone, unless it was brought
\* back (analyzerStore.ts, services/chain.rs, services/pipeline.rs).
THEOREM AnzWindowAgrees == AnzSpec => []AnzWindowSound
<1> DEFINE Inv == AnzTypes /\ AnzCallTypes /\ AnzChainsOk /\ AnzRunsRight
<1>1. AnzInit => Inv BY AnzTypesInit, AnzCallsInit, AnzChainsInit, AnzRunsInit
<1>2. Inv /\ [AnzNext]_anzVars => Inv' BY AnzTypesNext, AnzCallsNext, AnzChainsNext, AnzRunsNext
<1>3. Inv => AnzWindowSound BY AnzChainsSettle, AnzRunsSettle DEF AnzWindowSound
<1> QED BY <1>1, <1>2, <1>3, PTL DEF AnzSpec

=============================================================================
