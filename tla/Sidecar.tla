------------------------------ MODULE Sidecar ------------------------------
(***************************************************************************)
(* The MCP bridge and the sidecar that serves it over HTTP                 *)
(* (commands/mcp.rs, mcp_bridge/mod.rs): start_mcp_bridge, stop_mcp_bridge,*)
(* set_mcp_http_port and get_mcp_http_info, the bridge task, and the       *)
(* thread that supervises a spawn.  One step is one critical section, or   *)
(* one thing that happens to a process.                                    *)
(*                                                                         *)
(* A child handle that is dropped leaves its process running: only what    *)
(* sits in the slot, or in the hands of its supervisor, can be killed.     *)
(***************************************************************************)
EXTENDS Integers, FiniteSets

CONSTANTS
    McpCallers,   \* commands that may be under way at once
    McpPorts,     \* ports the sidecar may be configured for
    McpAttempts,  \* SPAWN_ATTEMPTS
    McpMaxRuns,   \* bound: supervisors, and bridge tasks
    McpMaxKids,   \* bound: processes spawned
    McpMaxCalls   \* bound: commands, and spawns that fail

ASSUME McpAssumption ==
    /\ {McpMaxRuns, McpMaxKids, McpMaxCalls} \subseteq Nat
    /\ McpAttempts \in Nat \ {0}
    /\ McpPorts # {} /\ "none" \notin McpPorts

VARIABLES
    mcpPort,     \* mcp_http_port
    mcpGen,      \* mcp_http_generation
    mcpSlot,     \* mcp_http_server: the child, 0 for None
    mcpKid,      \* the processes
    mcpError,    \* whether mcp_http_last_error has a message
    mcpSup,      \* the supervisor threads
    mcpOn,       \* whether mcp_bridge_port is set
    mcpTx,       \* mcp_bridge_shutdown: whose sender, 0 for None
    mcpBridge,   \* the bridge tasks
    mcpCall,     \* the commands under way
    mcpCalls     \* commands and failed spawns so far

(* History: whether two children for two ports were on their way to the    *)
(* slot, or one died or could not be polled on its way, and whether a stop *)
(* fell between a look at the generation and the store that follows it.    *)
VARIABLES mcpRaced, mcpLate

mcpServer == <<mcpPort, mcpGen, mcpSlot, mcpError>>
mcpBridges == <<mcpOn, mcpTx, mcpBridge>>
mcpOrders == <<mcpCall, mcpCalls>>
mcpHistory == <<mcpRaced, mcpLate>>
mcpVars == <<mcpServer, mcpKid, mcpSup, mcpBridges, mcpOrders, mcpHistory>>

McpIds == 1..McpMaxRuns
McpKids == 1..McpMaxKids
McpNoCall == [pc |-> "idle", port |-> "none", changed |-> FALSE, on |-> FALSE]
McpNoSup == [pc |-> "none", gen |-> 0, port |-> "none", tries |-> 0, kid |-> 0]

McpInit ==
    /\ mcpPort \in {CHOOSE p \in McpPorts : TRUE}
    /\ mcpGen = 0 /\ mcpSlot = 0 /\ mcpError = FALSE
    /\ mcpKid = [k \in McpKids |-> [state |-> "none", port |-> "none"]]
    /\ mcpSup = [i \in McpIds |-> McpNoSup]
    /\ mcpOn = FALSE /\ mcpTx = 0
    /\ mcpBridge = [i \in McpIds |-> [pc |-> "none", told |-> FALSE]]
    /\ mcpCall = [c \in McpCallers |-> McpNoCall]
    /\ mcpCalls = 0 /\ mcpRaced = FALSE /\ mcpLate = FALSE

McpTypeOK ==
    /\ mcpPort \in McpPorts /\ mcpGen \in Nat /\ mcpSlot \in 0..McpMaxKids
    /\ mcpKid \in [McpKids -> [state : {"none", "starting", "up", "dead"},
                               port : McpPorts \cup {"none"}]]
    /\ {mcpOn, mcpError, mcpRaced, mcpLate} \subseteq BOOLEAN /\ mcpTx \in 0..McpMaxRuns
    /\ mcpSup \in [McpIds ->
         [pc : {"none", "try", "wait", "check", "store", "clear", "fail", "ended"},
          gen : Nat, port : McpPorts \cup {"none"}, tries : 0..McpAttempts,
          kid : 0..McpMaxKids]]
    /\ mcpBridge \in [McpIds ->
         [pc : {"none", "bind", "serve", "port", "sender", "refused", "ended"},
          told : BOOLEAN]]
    /\ mcpCall \in [McpCallers ->
         [pc : {"idle", "port", "sender", "gen", "kill", "take", "set", "on",
                "down", "regen", "rekill", "slot", "spawn"},
          port : McpPorts \cup {"none"}, changed : BOOLEAN, on : BOOLEAN]]
    /\ mcpCalls \in 0..McpMaxCalls

McpAlive(k) == k # 0 /\ mcpKid[k].state \in {"starting", "up"}
McpKilled(k) == IF k = 0 THEN mcpKid ELSE [mcpKid EXCEPT ![k].state = "dead"]
McpGo(c, pc) == mcpCall' = [mcpCall EXCEPT ![c].pc = pc]
McpReturn(c) == mcpCall' = [mcpCall EXCEPT ![c] = McpNoCall]
McpFresh(f, none) == {i \in DOMAIN f : f[i] = none}
McpOneOf(f, none) == CHOOSE i \in McpFresh(f, none) : TRUE
McpNoKid == [state |-> "none", port |-> "none"]
McpNoBridge == [pc |-> "none", told |-> FALSE]

----------------------------------------
(* The commands.                                                           *)

McpOrder(c, pc, port) ==
    /\ mcpCall[c].pc = "idle" /\ mcpCalls < McpMaxCalls
    /\ mcpCall' = [mcpCall EXCEPT ![c] = [McpNoCall EXCEPT !.pc = pc, !.port = port]]
    /\ mcpCalls' = mcpCalls + 1
    /\ UNCHANGED <<mcpServer, mcpKid, mcpSup, mcpBridges, mcpHistory>>

(* start_mcp_bridge, stop_mcp_bridge, set_mcp_http_port.                   *)
McpBegin(c) ==
    \/ McpOrder(c, "port", "none")
    \/ McpOrder(c, "gen", "none")
    \/ \E p \in McpPorts : McpOrder(c, "set", p)

(* start_mcp_bridge_inner: a bridge that listens, ...                      *)
McpStartPort(c) ==
    /\ mcpCall[c].pc = "port"
    /\ McpGo(c, IF mcpOn THEN "slot" ELSE "sender")
    /\ UNCHANGED <<mcpServer, mcpKid, mcpSup, mcpBridges, mcpCalls, mcpHistory>>

(* ... or one that is about to, is left alone.                             *)
McpStartSender(c) ==
    /\ mcpCall[c].pc = "sender"
    /\ IF mcpTx # 0 THEN UNCHANGED <<mcpTx, mcpBridge>>
       ELSE /\ McpFresh(mcpBridge, McpNoBridge) # {}
            /\ LET i == McpOneOf(mcpBridge, McpNoBridge) IN
               /\ mcpTx' = i
               /\ mcpBridge' = [mcpBridge EXCEPT ![i].pc = "bind"]
    /\ McpGo(c, "slot")
    /\ UNCHANGED <<mcpServer, mcpKid, mcpSup, mcpOn, mcpCalls, mcpHistory>>

(* spawn_mcp_http_server: a child that runs is left alone, ...             *)
McpSlotTest(c) ==
    /\ mcpCall[c].pc = "slot"
    /\ IF McpAlive(mcpSlot) THEN McpReturn(c) /\ UNCHANGED mcpSlot
       ELSE McpGo(c, "spawn") /\ mcpSlot' = 0
    /\ UNCHANGED <<mcpPort, mcpGen, mcpError, mcpKid, mcpSup, mcpBridges,
                   mcpCalls, mcpHistory>>

(* A child that may still be stored: of the generation that is current, or *)
(* one that was found to be.                                               *)
McpMayStore(i) ==
    \/ mcpSup[i].pc = "store"
    \/ mcpSup[i].pc \in {"try", "wait", "check"} /\ mcpSup[i].gen = mcpGen

(* A child for another port that runs in the slot or may be stored there.  *)
McpElsewhere(port) ==
    \/ McpAlive(mcpSlot) /\ mcpKid[mcpSlot].port # port
    \/ \E i \in McpIds : McpMayStore(i) /\ mcpSup[i].port # port

(* ... and otherwise a supervisor notes the port and the generation.       *)
McpSpawn(c) ==
    /\ mcpCall[c].pc = "spawn"
    /\ McpFresh(mcpSup, McpNoSup) # {}
    /\ mcpSup' = [mcpSup EXCEPT ![McpOneOf(mcpSup, McpNoSup)] =
                    [McpNoSup EXCEPT !.pc = "try", !.gen = mcpGen, !.port = mcpPort]]
    /\ mcpError' = FALSE
    /\ McpReturn(c)
    /\ mcpRaced' = (mcpRaced \/ McpElsewhere(mcpPort))
    /\ mcpLate' = mcpLate
    /\ UNCHANGED <<mcpPort, mcpGen, mcpSlot, mcpKid, mcpBridges, mcpCalls>>

(* stop_mcp_http_server, for a stop and for a change of port.              *)
McpStopGen(c) ==
    /\ mcpCall[c].pc \in {"gen", "regen"}
    /\ mcpGen' = mcpGen + 1
    /\ mcpLate' = (mcpLate \/ \E i \in McpIds : mcpSup[i].pc = "store")
    /\ mcpRaced' = mcpRaced
    /\ McpGo(c, IF mcpCall[c].pc = "gen" THEN "kill" ELSE "rekill")
    /\ UNCHANGED <<mcpPort, mcpSlot, mcpError, mcpKid, mcpSup, mcpBridges,
                   mcpCalls>>

McpStopKill(c) ==
    /\ mcpCall[c].pc \in {"kill", "rekill"}
    /\ mcpSlot' = 0 /\ mcpKid' = McpKilled(mcpSlot)
    /\ McpGo(c, IF mcpCall[c].pc = "kill" THEN "take" ELSE "slot")
    /\ UNCHANGED <<mcpPort, mcpGen, mcpError, mcpSup, mcpBridges, mcpCalls, mcpHistory>>

McpTold(i) == IF i = 0 THEN mcpBridge ELSE [mcpBridge EXCEPT ![i].told = TRUE]

(* stop_mcp_bridge_inner.                                                  *)
McpStopTake(c) ==
    /\ mcpCall[c].pc = "take"
    /\ mcpBridge' = McpTold(mcpTx) /\ mcpTx' = 0
    /\ McpReturn(c)
    /\ UNCHANGED <<mcpServer, mcpKid, mcpSup, mcpOn, mcpCalls, mcpHistory>>

McpSetPort(c) ==
    /\ mcpCall[c].pc = "set"
    /\ mcpPort' = mcpCall[c].port
    /\ mcpCall' = [mcpCall EXCEPT ![c].pc = "on",
                                  ![c].changed = mcpPort # mcpCall[c].port]
    /\ UNCHANGED <<mcpGen, mcpSlot, mcpError, mcpKid, mcpSup, mcpBridges,
                   mcpCalls, mcpHistory>>

McpReadOn(c) ==
    /\ mcpCall[c].pc = "on"
    /\ mcpCall' = [mcpCall EXCEPT ![c].pc = "down", ![c].on = mcpOn]
    /\ UNCHANGED <<mcpServer, mcpKid, mcpSup, mcpBridges, mcpCalls, mcpHistory>>

McpReadDown(c) ==
    /\ mcpCall[c].pc = "down"
    /\ IF mcpCall[c].on /\ (mcpCall[c].changed \/ mcpSlot = 0)
         THEN McpGo(c, "regen") ELSE McpReturn(c)
    /\ UNCHANGED <<mcpServer, mcpKid, mcpSup, mcpBridges, mcpCalls, mcpHistory>>

(* get_mcp_http_info reaps a child that exited.                            *)
McpInfo ==
    /\ mcpSlot # 0 /\ ~McpAlive(mcpSlot)
    /\ mcpSlot' = 0
    /\ UNCHANGED <<mcpPort, mcpGen, mcpError, mcpKid, mcpSup, mcpBridges, mcpOrders, mcpHistory>>

----------------------------------------
(* supervise_spawn and try_spawn_once.                                     *)

McpSupGo(i, pc) == mcpSup' = [mcpSup EXCEPT ![i].pc = pc]

McpTry(i) ==
    /\ mcpSup[i].pc = "try"
    /\ McpFresh(mcpKid, McpNoKid) # {}
    /\ LET k == McpOneOf(mcpKid, McpNoKid) IN
       /\ mcpKid' = [mcpKid EXCEPT ![k] = [state |-> "starting", port |-> mcpSup[i].port]]
       /\ mcpSup' = [mcpSup EXCEPT ![i].pc = "wait", ![i].kid = k,
                                   ![i].tries = @ + 1]
    /\ UNCHANGED <<mcpServer, mcpBridges, mcpOrders, mcpHistory>>

(* The process cannot be started: an attempt is gone.                      *)
McpAfter(tries) == IF tries < McpAttempts THEN "try" ELSE "fail"
McpCounted == mcpCalls < McpMaxCalls /\ mcpCalls' = mcpCalls + 1 /\ UNCHANGED mcpCall
McpTryFails(i) ==
    /\ mcpSup[i].pc = "try"
    /\ mcpSup' = [mcpSup EXCEPT ![i].pc = McpAfter(mcpSup[i].tries + 1), ![i].tries = @ + 1]
    /\ McpCounted
    /\ UNCHANGED <<mcpServer, mcpKid, mcpBridges, mcpHistory>>

McpPortTaken(k) == \E other \in McpKids \ {k} :
    mcpKid[other].state = "up" /\ mcpKid[other].port = mcpKid[k].port

(* The sidecar listens, or finds the port taken and exits.                 *)
McpListen(k) ==
    /\ mcpKid[k].state = "starting"
    /\ mcpKid' = [mcpKid EXCEPT ![k].state = IF McpPortTaken(k) THEN "dead" ELSE "up"]
    /\ UNCHANGED <<mcpServer, mcpSup, mcpBridges, mcpOrders, mcpHistory>>

(* A sidecar may die at any time: also in the two instructions in which    *)
(* its supervisor, having waited for it to settle, puts it away.           *)
McpDies(k) ==
    /\ mcpKid[k].state = "up"
    /\ mcpKid' = McpKilled(k)
    /\ mcpRaced' = (mcpRaced \/ \E i \in McpIds : mcpSup[i].kid = k /\
                                   mcpSup[i].pc \in {"check", "store"})
    /\ mcpLate' = mcpLate
    /\ UNCHANGED <<mcpServer, mcpSup, mcpBridges, mcpOrders>>

(* It has settled when it survived the wait.                               *)
McpSettle(i) ==
    /\ mcpSup[i].pc = "wait" /\ mcpKid[mcpSup[i].kid].state # "starting"
    /\ McpSupGo(i, IF McpAlive(mcpSup[i].kid) THEN "check"
                   ELSE McpAfter(mcpSup[i].tries))
    /\ UNCHANGED <<mcpServer, mcpKid, mcpBridges, mcpOrders, mcpHistory>>

(* A child that cannot be polled is dropped, and runs on (history).        *)
McpUnpolled(i) ==
    /\ mcpSup[i].pc = "wait" /\ McpAlive(mcpSup[i].kid)
    /\ McpSupGo(i, McpAfter(mcpSup[i].tries))
    /\ mcpRaced' = TRUE /\ mcpLate' = mcpLate
    /\ McpCounted
    /\ UNCHANGED <<mcpServer, mcpKid, mcpBridges>>

MutMcpOutdated(i) == mcpKid
(* A child whose generation is over is killed.                             *)
McpOutdated(i) == McpKilled(mcpSup[i].kid)

McpCheck(i) ==
    /\ mcpSup[i].pc = "check"
    /\ IF mcpSup[i].gen # mcpGen
         THEN McpSupGo(i, "ended") /\ mcpKid' = McpOutdated(i)
         ELSE McpSupGo(i, "store") /\ UNCHANGED mcpKid
    /\ UNCHANGED <<mcpServer, mcpBridges, mcpOrders, mcpHistory>>

(* What the slot held is dropped, not killed.                              *)
McpStore(i) ==
    /\ mcpSup[i].pc = "store"
    /\ mcpSlot' = mcpSup[i].kid
    /\ McpSupGo(i, "clear")
    /\ UNCHANGED <<mcpPort, mcpGen, mcpError, mcpKid, mcpBridges, mcpOrders, mcpHistory>>

McpReport(i) ==
    /\ mcpSup[i].pc \in {"clear", "fail"}
    /\ mcpError' = (mcpSup[i].pc = "fail")
    /\ McpSupGo(i, "ended")
    /\ UNCHANGED <<mcpPort, mcpGen, mcpSlot, mcpKid, mcpBridges, mcpOrders, mcpHistory>>

----------------------------------------
(* mcp_bridge::start.  One bridge listens at a time.                       *)

McpBridgeGo(i, pc) == mcpBridge' = [mcpBridge EXCEPT ![i].pc = pc]

McpBind(i) ==
    /\ mcpBridge[i].pc = "bind"
    /\ IF \E j \in McpIds : mcpBridge[j].pc = "serve"
         THEN McpBridgeGo(i, "refused") /\ UNCHANGED mcpOn
         ELSE McpBridgeGo(i, "serve") /\ mcpOn' = TRUE
    /\ UNCHANGED <<mcpServer, mcpKid, mcpSup, mcpTx, mcpOrders, mcpHistory>>

(* axum::serve returns once the receiver resolves, by a message or because *)
(* its sender was dropped, and the connections are drained.                *)
McpDrained(i) ==
    /\ mcpBridge[i].pc = "serve" /\ mcpBridge[i].told
    /\ McpBridgeGo(i, "port")
    /\ UNCHANGED <<mcpServer, mcpKid, mcpSup, mcpOn, mcpTx, mcpOrders, mcpHistory>>

McpClearPort(i) ==
    /\ mcpBridge[i].pc = "port"
    /\ mcpOn' = FALSE /\ McpBridgeGo(i, "sender")
    /\ UNCHANGED <<mcpServer, mcpKid, mcpSup, mcpTx, mcpOrders, mcpHistory>>

(* The sender in the slot is dropped: its own, which is spent, or that of  *)
(* a bridge that was started in the meantime.                              *)
McpClearSender(i) ==
    /\ mcpBridge[i].pc \in {"sender", "refused"}
    /\ mcpBridge' = [McpTold(mcpTx) EXCEPT ![i].pc = "ended"]
    /\ mcpTx' = 0
    /\ UNCHANGED <<mcpServer, mcpKid, mcpSup, mcpOn, mcpOrders, mcpHistory>>

McpCallStep(c) ==
    \/ McpStartPort(c) \/ McpStartSender(c) \/ McpSlotTest(c) \/ McpSpawn(c)
    \/ McpStopGen(c) \/ McpStopKill(c) \/ McpStopTake(c)
    \/ McpSetPort(c) \/ McpReadOn(c) \/ McpReadDown(c)
McpSupStep(i) ==
    \/ McpTry(i) \/ McpTryFails(i) \/ McpSettle(i) \/ McpUnpolled(i)
    \/ McpCheck(i) \/ McpStore(i) \/ McpReport(i)
McpBridgeStep(i) ==
    McpBind(i) \/ McpDrained(i) \/ McpClearPort(i) \/ McpClearSender(i)

McpNext ==
    \/ \E c \in McpCallers : McpBegin(c) \/ McpCallStep(c)
    \/ \E i \in McpIds : McpSupStep(i) \/ McpBridgeStep(i)
    \/ \E k \in McpKids : McpListen(k) \/ McpDies(k)
    \/ McpInfo

McpSpec == McpInit /\ [][McpNext]_mcpVars

----------------------------------------
(* Properties. *)

(* Every sidecar that runs can still be killed: it is in the slot, where a *)
(* stop and the exit of the application find it, or its supervisor holds   *)
(* it.  The slot is never written over while its child runs, because no    *)
(* other child can have settled on the port.  Not so when a supervisor is  *)
(* started for one port while a child for another is on its way (a port    *)
(* that is set before the bridge listens restarts nothing), nor when a     *)
(* child dies between its settling and its being put away, or cannot be    *)
(* polled.                                                                 *)
McpHeld(k) ==
    \/ mcpSlot = k
    \/ \E i \in McpIds : mcpSup[i].kid = k /\ mcpSup[i].pc \in {"wait", "check", "store"}

McpNoOrphan == ~mcpRaced => \A k \in McpKids : McpAlive(k) => McpHeld(k)

(* "a stop that races the supervisor wins via mcp_http_generation": but    *)
(* for that window, a child that runs in the slot was started after the    *)
(* last stop, unless a stop is on its way to it.                           *)
McpStopWins ==
    ~mcpLate /\ McpAlive(mcpSlot) =>
      \/ \E i \in McpIds : mcpSup[i].kid = mcpSlot /\ mcpSup[i].gen = mcpGen
      \/ \E c \in McpCallers : mcpCall[c].pc \in {"kill", "rekill"}

(* A bridge that runs can be told to stop, or has been.                    *)
McpBridgeReachable ==
    \A i \in McpIds : mcpBridge[i].pc \in {"bind", "serve"} =>
      mcpTx = i \/ mcpBridge[i].told

(* What a stop and the exit of the application rely on.                    *)
McpSound == McpNoOrphan /\ McpStopWins /\ McpBridgeReachable
=============================================================================
