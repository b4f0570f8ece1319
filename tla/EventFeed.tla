----------------------------- MODULE EventFeed -----------------------------
(***************************************************************************)
(* What the polled event feed of a live capture promises an agent          *)
(* (polling contract of mcp_bridge/routes/stream.rs): every page continues *)
(* where the last one ended, or says that the events in between were       *)
(* evicted, which only happens to events at least Cap behind the newest.   *)
(***************************************************************************)
EXTENDS Integers

CONSTANTS Agents, Cap

VARIABLES
    issued,     \* sequence numbers given out so far
    cursor,     \* nextSince of each agent
    got,        \* events each agent has received
    lost        \* events each agent was told it has missed

feedVars == <<issued, cursor, got, lost>>

Init ==
    /\ issued = 0
    /\ cursor = [a \in Agents |-> 0]
    /\ got = [a \in Agents |-> {}]
    /\ lost = [a \in Agents |-> {}]

Issue ==
    /\ issued' = issued + 1
    /\ UNCHANGED <<cursor, got, lost>>

Deliver(a) ==
    \E first, last \in (cursor[a] + 1)..issued :
        /\ first <= last
        /\ first # cursor[a] + 1 => first <= issued - Cap + 1
        /\ cursor' = [cursor EXCEPT ![a] = last]
        /\ got' = [got EXCEPT ![a] = @ \cup first..last]
        /\ lost' = [lost EXCEPT ![a] = @ \cup (cursor[a] + 1)..(first - 1)]
        /\ UNCHANGED issued

Next == Issue \/ \E a \in Agents : Deliver(a)

Spec == Init /\ [][Next]_feedVars
=============================================================================
