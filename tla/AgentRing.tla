----------------------------- MODULE AgentRing -----------------------------
(***************************************************************************)
(* The agent's event feed of one live capture: RingSink of                 *)
(* services/events.rs, filled by the capture task and polled through       *)
(* stream::events (services/stream.rs).  An event is its sequence number.  *)
(*                                                                         *)
(* push takes its number before it takes the lock of the buffer, and a     *)
(* poll reads latest_seq before it drains, so each is two steps here.  A   *)
(* ring has one producer, the capture task of its session.                 *)
(***************************************************************************)
EXTENDS Integers, Sequences, FiniteSets

CONSTANTS
    Agents,      \* pollers, each with its own cursor
    Cap,         \* AGENT_RING_CAPACITY
    MaxSeq       \* bound: events pushed

ASSUME RingAssumption == Cap \in Nat \ {0} /\ MaxSeq \in Nat

VARIABLES
    seq,         \* RingSink.seq
    pending,     \* the number taken by a push that has not inserted yet, or -1
    buf,         \* RingSink.buf
    registered,  \* is the ring in stream_rings?
    noted,       \* latest_seq as read by the poll under way, or -1 (no poll)
    cursor       \* next_since of the last page

(* History: what each agent received and what it was told it has missed.   *)
VARIABLES got, lost

vars == <<seq, pending, buf, registered, noted, cursor, got, lost>>

NoPoll == -1
NoPush == -1

TypeOK ==
    /\ seq \in Nat
    /\ pending \in (Nat \ {0}) \cup {NoPush}
    /\ buf \in Seq(Nat \ {0})
    /\ registered \in BOOLEAN
    /\ noted \in [Agents -> Nat \cup {NoPoll}]
    /\ cursor \in [Agents -> Nat]
    /\ got \in [Agents -> SUBSET Nat]
    /\ lost \in [Agents -> SUBSET Nat]

Init ==
    /\ seq = 0
    /\ pending = NoPush
    /\ buf = <<>>
    /\ registered = FALSE
    /\ noted = [a \in Agents |-> NoPoll]
    /\ cursor = [a \in Agents |-> 0]
    /\ got = [a \in Agents |-> {}]
    /\ lost = [a \in Agents |-> {}]

----------------------------------------
(* push: fetch_add, then evict the oldest if the ring is full and insert.  *)
MutNumber == seq              \* what fetch_add returns
Number    == seq + 1          \* "start at 1 so drain_since(0) means everything"

TakeNumber ==
    /\ pending = NoPush
    /\ seq < MaxSeq
    /\ seq' = seq + 1
    /\ pending' = Number
    /\ UNCHANGED <<buf, registered, noted, cursor, got, lost>>

MutMakeRoom == IF Len(buf) > Cap THEN Tail(buf) ELSE buf     \* off by one
MakeRoom    == IF Len(buf) >= Cap THEN Tail(buf) ELSE buf

Insert ==
    /\ pending # NoPush
    /\ buf' = Append(MakeRoom, pending)
    /\ pending' = NoPush
    /\ UNCHANGED <<seq, registered, noted, cursor, got, lost>>

(* register_ring: until then a poll is answered NotFound.                  *)
Register ==
    /\ ~registered
    /\ registered' = TRUE
    /\ UNCHANGED <<seq, pending, buf, noted, cursor, got, lost>>

----------------------------------------
(* events(since = cursor[a], limit).                                       *)
NoteLatest(a) ==
    /\ registered
    /\ noted[a] = NoPoll
    /\ noted' = [noted EXCEPT ![a] = seq]
    /\ UNCHANGED <<seq, pending, buf, registered, cursor, got, lost>>

(* drain_since, and what truncate(limit) leaves of it: positions in buf.   *)
Drained(a) == {i \in 1..Len(buf) : buf[i] > cursor[a]}
MutPage(a, limit) ==
    {i \in Drained(a) : Cardinality({j \in Drained(a) : j <= i}) < limit}
Page(a, limit) ==
    {i \in Drained(a) : Cardinality({j \in Drained(a) : j <= i}) <= limit}

Oldest(S) == CHOOSE i \in S : \A j \in S : i <= j
Newest(S) == CHOOSE i \in S : \A j \in S : j <= i

MutGap(a) == Drained(a) # {} /\ buf[Oldest(Drained(a))] > cursor[a] + 2
Gap(a)    == Drained(a) # {} /\ buf[Oldest(Drained(a))] > cursor[a] + 1

MutNextSince(a, limit) ==              \* the newest drained, not the newest sent
    IF Drained(a) = {} THEN cursor[a] ELSE buf[Newest(Drained(a))]
NextSince(a, limit) ==
    IF Page(a, limit) = {} THEN cursor[a] ELSE buf[Newest(Page(a, limit))]

Drain(a, limit) ==
    /\ noted[a] # NoPoll
    /\ cursor' = [cursor EXCEPT ![a] = NextSince(a, limit)]
    /\ got' = [got EXCEPT ![a] = @ \cup {buf[i] : i \in Page(a, limit)}]
    /\ lost' = [lost EXCEPT ![a] =
                  IF Gap(a)
                  THEN @ \cup (cursor[a] + 1)..(buf[Oldest(Drained(a))] - 1)
                  ELSE @]
    /\ noted' = [noted EXCEPT ![a] = NoPoll]
    /\ UNCHANGED <<seq, pending, buf, registered>>

(* h_stream_events clamps the limit to 1..AGENT_RING_CAPACITY.             *)
Poll(a) == NoteLatest(a) \/ \E limit \in 1..Cap : Drain(a, limit)

Next ==
    \/ TakeNumber
    \/ Insert
    \/ Register
    \/ \E a \in Agents : Poll(a)

Spec == Init /\ [][Next]_vars

(* A push under way and the start that registers the ring run to their     *)
(* end; the polling contract asks the agent to keep polling.               *)
Fairness ==
    /\ WF_vars(Insert)
    /\ WF_vars(Register)
    /\ \A a \in Agents : WF_vars(Poll(a))

FairSpec == Spec /\ Fairness

----------------------------------------
(* Properties. *)

(* The ring holds the newest events without a hole, at most Cap of them,   *)
(* although numbers are taken outside the lock.                            *)
Inserted == IF pending = NoPush THEN seq ELSE seq - 1
RingContiguous ==
    /\ pending \in {NoPush, seq}
    /\ Len(buf) <= Cap
    /\ Len(buf) <= Inserted
    /\ Len(buf) < Cap => Len(buf) = Inserted
    /\ \A i \in 1..Len(buf) : buf[i] = Inserted - Len(buf) + i

(* What drain_since promises, from the agent's side: every event up to its *)
(* cursor was either on one of its pages or reported by `gap', never both  *)
(* and never neither.                                                      *)
EveryEventAccountedFor ==
    \A a \in Agents :
        /\ got[a] \cup lost[a] = 1..cursor[a]
        /\ got[a] \cap lost[a] = {}
        /\ cursor[a] <= Inserted

(* The ring implements the feed of the polling contract.                   *)
Feed == INSTANCE EventFeed WITH issued <- seq
ImplementsFeed == Feed!Spec

(* An agent that keeps polling learns of every event: it receives it or is *)
(* told that it missed it, and the feed does not starve behind `limit'.    *)
EveryEventReachesAgents ==
    \A a \in Agents : \A n \in 1..MaxSeq :
        Inserted >= n ~> n \in got[a] \cup lost[a]
=============================================================================
