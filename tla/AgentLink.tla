----------------------------- MODULE AgentLink ------------------------------
(***************************************************************************)
(* One probe agent as the server knows it: registration, the agent's MQTT  *)
(* connection with heartbeats, last will and reconnection (cmd/agent), the *)
(* broker's retained status, the bridge's handlers of it, an administrator *)
(* who disables and enables the agent, and what node selection makes of    *)
(* the two rows (internal/service/probe.go, scheduling.go 17-32).          *)
(*                                                                         *)
(* Time is counted in heartbeats of 30 seconds.  A row's heartbeat is      *)
(* represented by its age, which stops growing when it is too old for all. *)
(***************************************************************************)
EXTENDS Integers, FiniteSets

CONSTANTS
    Handlers,       \* bound: status messages the bridge handles at a time
    NodeGrace,      \* heartbeats after which a node is stale (90 s)
    AgentGrace,     \* heartbeats after which an agent is stale (5 min)
    MaxStarts,      \* bound: starts of the agent
    MaxLosses,      \* bound: connections of the agent that break
    MaxOutages,     \* bound: connections of the bridge that break
    MaxSwitches     \* bound: times the agent is disabled or enabled

ASSUME AgentAssumption ==
    /\ IsFiniteSet(Handlers) /\ Handlers # {}
    /\ NodeGrace \in Nat /\ AgentGrace \in Nat /\ NodeGrace <= AgentGrace
    /\ MaxStarts \in Nat /\ MaxLosses \in Nat /\ MaxOutages \in Nat /\ MaxSwitches \in Nat

Old == AgentGrace + 1
Ages == 0..Old

VARIABLES
    agent,      \* life of the agent process
    subscribed, \* the broker has its subscription to jobs
    will,       \* a broken connection whose will is still to be published
    beaten,     \* the heartbeat of this period has been published
    retained,   \* status message the broker keeps
    bridge,     \* the bridge is connected
    handler,    \* handler -> status it handles and control point
    admin,      \* control point and value of an administrator's request
    row,        \* probe_agents: state, enabled, age of last_seen_at
    node,       \* netprobe_nodes: status, age of last_heartbeat
    count,      \* how often each bounded thing has happened
    silent,     \* history: age of the last status published, or registration
    replayed,   \* history: age of the last connection of the bridge
    lost,       \* history: this process has reconnected
    crossed     \* history: two writers of the rows have overlapped, or one was cut

agentVars == <<agent, subscribed, will, beaten, retained>>
rowVars == <<row, node>>
history == <<silent, replayed, lost, crossed>>
vars == <<agentVars, bridge, handler, admin, rowVars, count, history>>

Alive == {"registering", "registered", "connected", "ready", "lost"}
Connected == {"connected", "ready"}
Idle == [pc |-> "idle", state |-> "none"]

TypeOK ==
    /\ agent \in {"down", "killed"} \cup Alive
    /\ subscribed \in BOOLEAN /\ will \in BOOLEAN /\ beaten \in BOOLEAN
    /\ retained \in {"none", "online", "offline"}
    /\ bridge \in BOOLEAN
    /\ handler \in [Handlers -> [pc : {"idle", "agent", "node"},
                                 state : {"none", "online", "offline"}]]
    /\ admin \in [pc : {"idle", "node", "agent"}, enable : BOOLEAN]
    /\ row \in [state : {"none", "online", "offline", "disabled"}, enabled : BOOLEAN,
                age : Ages]
    /\ node \in [status : {"none", "online", "offline"}, age : Ages]
    /\ count \in [starts : 0..MaxStarts, losses : 0..MaxLosses, outages : 0..MaxOutages,
                  switches : 0..MaxSwitches]
    /\ silent \in Ages /\ replayed \in Ages /\ lost \in BOOLEAN /\ crossed \in BOOLEAN

Init ==
    /\ agent = "down" /\ subscribed = FALSE /\ will = FALSE /\ beaten = FALSE
    /\ retained = "none"
    /\ bridge = TRUE
    /\ handler = [h \in Handlers |-> Idle]
    /\ admin = [pc |-> "idle", enable |-> TRUE]
    /\ row = [state |-> "none", enabled |-> TRUE, age |-> Old]
    /\ node = [status |-> "none", age |-> Old]
    /\ count = [starts |-> 0, losses |-> 0, outages |-> 0, switches |-> 0]
    /\ silent = Old /\ replayed = Old /\ lost = FALSE /\ crossed = FALSE

\* Others between their two statements; the rows may come apart then.
Writers ==
    Cardinality({h \in Handlers : handler[h].pc = "node"})
    + (IF admin.pc = "agent" THEN 1 ELSE 0) + (IF agent = "registering" THEN 1 ELSE 0)

Older(age) == IF age < Old THEN age + 1 ELSE Old

-----------------------------------------------------------------------------
(* The broker keeps the status and hands it to the bridge, where each      *)
(* message has a goroutine (SetOrderMatters(false)).                       *)

Deliver(state) ==
    IF bridge
    THEN \E h \in Handlers :
            /\ handler[h] = Idle
            /\ handler' = [handler EXCEPT ![h] = [pc |-> "agent", state |-> state]]
    ELSE UNCHANGED handler

\* Mutant: the message is not retained.
PublishUnretained(state) == UNCHANGED retained /\ Deliver(state)

Publish(state) == retained' = state /\ Deliver(state)

\* onStatus: two updates, with the time at which the message is handled.
WriteAgent(h) ==
    /\ handler[h].pc = "agent"
    /\ handler' = [handler EXCEPT ![h].pc = "node"]
    /\ row' = IF row.state = "none" THEN row
              ELSE [row EXCEPT !.state = handler[h].state, !.age = 0]
    /\ crossed' = (crossed \/ Writers > 0)
    /\ UNCHANGED <<agentVars, bridge, admin, node, count, silent, replayed, lost>>

\* Mutant: the state of an agent that exists is all that is updated.
SkipNode(h) ==
    /\ handler[h].pc = "node"
    /\ handler' = [handler EXCEPT ![h] = Idle]
    /\ node' = [node EXCEPT !.age = 0]
    /\ UNCHANGED <<agentVars, bridge, admin, row, count, history>>

WriteNode(h) ==
    /\ handler[h].pc = "node"
    /\ handler' = [handler EXCEPT ![h] = Idle]
    /\ node' = IF node.status = "none" THEN node
               ELSE [status |-> handler[h].state, age |-> 0]
    /\ UNCHANGED <<agentVars, bridge, admin, row, count, history>>

BridgeLost ==
    /\ bridge /\ count.outages < MaxOutages
    /\ bridge' = FALSE
    /\ count' = [count EXCEPT !.outages = @ + 1]
    /\ UNCHANGED <<agentVars, handler, admin, rowVars, history>>

\* OnConnect subscribes again, and the broker sends the retained status.
BridgeConnects ==
    /\ ~ bridge /\ bridge' = TRUE
    /\ replayed' = 0
    /\ IF retained = "none" THEN UNCHANGED handler
       ELSE \E h \in Handlers :
                /\ handler[h] = Idle
                /\ handler' = [handler EXCEPT ![h] = [pc |-> "agent", state |-> retained]]
    /\ UNCHANGED <<agentVars, admin, rowVars, count, silent, lost, crossed>>

-----------------------------------------------------------------------------
(* The agent.                                                              *)

\* RegisterProbeAgent: the node is created or set online, then the agent;
\* whether it is enabled is not touched.
RegisterNode ==
    /\ agent \in {"down", "killed"} /\ count.starts < MaxStarts
    /\ agent' = "registering"
    /\ count' = [count EXCEPT !.starts = @ + 1]
    /\ node' = [status |-> "online", age |-> 0]
    /\ silent' = 0
    /\ lost' = FALSE
    /\ crossed' = (crossed \/ Writers > 0)
    /\ UNCHANGED <<subscribed, will, beaten, retained, bridge, handler, admin, row, replayed>>

RegisterAgent ==
    /\ agent = "registering"
    /\ agent' = "registered"
    /\ row' = [row EXCEPT !.state = "online", !.age = 0]
    /\ crossed' = (crossed \/ Writers > 1)
    /\ UNCHANGED <<subscribed, will, beaten, retained, bridge, handler, admin, node, count,
                   silent, replayed, lost>>

\* A connection with the same client id ends the old one, will included.
Connect ==
    /\ agent = "registered" /\ ~ will
    /\ agent' = "connected"
    /\ UNCHANGED <<subscribed, will, beaten, retained, bridge, handler, admin, rowVars,
                   count, history>>

\* Mutant: the subscription is left to a session the broker does not have.
SubscribeNothing ==
    /\ agent = "connected" /\ ~ lost
    /\ agent' = "ready"
    /\ UNCHANGED <<subscribed, will, beaten, retained, bridge, handler, admin, rowVars,
                   count, history>>

\* Once, in main, after the first connection.
Subscribe ==
    /\ agent = "connected" /\ ~ lost
    /\ agent' = "ready" /\ subscribed' = TRUE
    /\ UNCHANGED <<will, beaten, retained, bridge, handler, admin, rowVars, count, history>>

Heartbeat ==
    /\ agent = "ready" /\ ~ beaten
    /\ Publish("online")
    /\ beaten' = TRUE
    /\ silent' = 0
    /\ UNCHANGED <<agent, subscribed, will, bridge, admin, rowVars, count, replayed, lost,
                   crossed>>

\* The connection breaks: the broker drops the session and owes the will.
ConnectionLost ==
    /\ agent = "ready" /\ count.losses < MaxLosses
    /\ agent' = "lost" /\ subscribed' = FALSE /\ will' = TRUE
    /\ count' = [count EXCEPT !.losses = @ + 1]
    /\ UNCHANGED <<beaten, retained, bridge, handler, admin, rowVars, history>>

PublishWill ==
    /\ will /\ will' = FALSE
    /\ Publish("offline")
    /\ silent' = 0
    /\ UNCHANGED <<agent, subscribed, beaten, bridge, admin, rowVars, count, replayed, lost,
                   crossed>>

\* paho reconnects with a clean session and does not subscribe again.
Reconnect ==
    /\ agent = "lost" /\ ~ will
    /\ agent' = "ready" /\ lost' = TRUE
    /\ UNCHANGED <<subscribed, will, beaten, retained, bridge, handler, admin, rowVars,
                   count, silent, replayed, crossed>>

\* Power failure or kill: the connection, if there is one, breaks; so does
\* that of a registration, whose context then ends before its second update.
Die ==
    /\ agent \in Alive
    /\ agent' = "killed" /\ subscribed' = FALSE
    /\ will' = (will \/ agent \in Connected)
    /\ crossed' = (crossed \/ agent = "registering")
    /\ UNCHANGED <<beaten, retained, bridge, handler, admin, rowVars, count, silent,
                   replayed, lost>>

\* SIGTERM: Disconnect ends the session in order, which discards the will.
Exit ==
    /\ agent \in Connected
    /\ agent' = "down" /\ subscribed' = FALSE
    /\ UNCHANGED <<will, beaten, retained, bridge, handler, admin, rowVars, count, history>>

-----------------------------------------------------------------------------
(* UpdateAgent: the node, then the agent; heartbeats go on.                *)

SwitchNode(enable) ==
    /\ admin.pc = "idle" /\ row.state # "none" /\ count.switches < MaxSwitches
    /\ row.enabled # enable
    /\ admin' = [pc |-> "agent", enable |-> enable]
    /\ node' = [node EXCEPT !.status = IF enable THEN "online" ELSE "offline"]
    /\ count' = [count EXCEPT !.switches = @ + 1]
    /\ crossed' = (crossed \/ Writers > 0)
    /\ UNCHANGED <<agentVars, bridge, handler, row, silent, replayed, lost>>

\* Mutants: a value the column does not know; being enabled counts as a sign
\* of life.
SwitchAgentState(state) ==
    /\ admin.pc = "agent"
    /\ admin' = [admin EXCEPT !.pc = "idle"]
    /\ row' = [row EXCEPT !.enabled = admin.enable, !.state = state]
    /\ crossed' = (crossed \/ Writers > 1)
    /\ UNCHANGED <<agentVars, bridge, handler, node, count, silent, replayed, lost>>

SwitchAgentOff == SwitchAgentState("off")

SwitchAgentTouches ==
    /\ admin.pc = "agent"
    /\ admin' = [admin EXCEPT !.pc = "idle"]
    /\ row' = [state |-> IF admin.enable THEN "online" ELSE "disabled",
               enabled |-> admin.enable, age |-> 0]
    /\ node' = [node EXCEPT !.age = 0]
    /\ UNCHANGED <<agentVars, bridge, handler, count, history>>

SwitchAgent ==
    SwitchAgentState(IF admin.enable THEN "online" ELSE "disabled")

-----------------------------------------------------------------------------
\* Half a minute passes, within which messages are handled and requests end;
\* an agent that is connected sends its heartbeat in it.
Tick ==
    /\ \A h \in Handlers : handler[h] = Idle
    /\ admin.pc = "idle" /\ agent # "registering"
    /\ agent = "ready" => beaten
    /\ beaten' = FALSE
    /\ row' = [row EXCEPT !.age = Older(@)]
    /\ node' = [node EXCEPT !.age = Older(@)]
    /\ silent' = Older(silent) /\ replayed' = Older(replayed)
    /\ UNCHANGED <<agent, subscribed, will, retained, bridge, handler, admin, count, lost,
                   crossed>>

Handle == \E h \in Handlers : WriteAgent(h) \/ WriteNode(h)
Broker == PublishWill \/ BridgeConnects
Agent == RegisterAgent \/ Connect \/ Subscribe \/ Heartbeat \/ Reconnect

Next ==
    \/ Tick \/ Handle \/ Broker \/ Agent
    \/ RegisterNode \/ ConnectionLost \/ Die \/ Exit \/ BridgeLost
    \/ SwitchAgent \/ \E enable \in BOOLEAN : SwitchNode(enable)

Spec == Init /\ [][Next]_vars

(* Time passes, statements end, clients reconnect (SetAutoReconnect), and  *)
(* the broker notices broken connections by its keepalive.                 *)
Fairness ==
    WF_vars(Tick) /\ WF_vars(Handle \/ SwitchAgent) /\ WF_vars(Broker) /\ WF_vars(Agent)

FairSpec == Spec /\ Fairness

-----------------------------------------------------------------------------
(* What node selection and dispatch see.                                   *)

\* Mutant: the grace is forgotten.
NodeOnlineByStatus == node.status = "online"

\* nodeOnline of a remote node.
NodeOnline == node.status = "online" /\ node.age <= NodeGrace

\* agentOnlineByNode: the agent jobs are published to.
AgentOnline == row.enabled /\ row.state = "online" /\ row.age <= AgentGrace

(* Properties.                                                             *)

\* A node that counts as online has registered or had a status published
\* within its grace, or the bridge has connected within it: the broker then
\* repeats the retained status, however old, and onStatus stamps it with the
\* time of its arrival.  The status may be the will: an agent that is enabled
\* soon after its death is online, but enabling alone revives no old row
\* (bridge.go 98, 129-142; probe.go 184-194; scheduling.go 17-32).
OnlineIsRecent == NodeOnline => silent <= NodeGrace \/ replayed <= NodeGrace

\* The two rows of an agent agree when no writer is at work: handlers, requests
\* and registrations write one after the other without a transaction, and only
\* those that overlap leave them apart (bridge.go 139-141, probe.go 56-78,
\* 184-202); a registration whose agent dies is cut between them.
RowsAgree ==
    /\ ~ crossed /\ row.state # "none" /\ Writers = 0
    => (row.state = "online" <=> node.status = "online")

\* An agent that keeps its node online hears of its jobs unless it has
\* reconnected: the subscription is made once and the session is clean
\* (cmd/agent/main.go 110-122, 144-152).
ReadyIsSubscribed == agent = "ready" => subscribed \/ lost

\* What the rows, the broker and the agent know of each other (bridge.go 129-142,
\* probe.go 56-78, 184-202, cmd/agent/main.go 110-122).
PresenceIsTrue == TypeOK /\ OnlineIsRecent /\ RowsAgree /\ ReadyIsSubscribed

\* An agent that is gone for good is not chosen any more: its rows grow old
\* even when it left in order, when no will is published and its retained
\* status stays online (main.go 96, 127; scheduling.go 17-28; probe.go 219).
GoneIsNoticed == <>[](agent \in {"down", "killed"} => ~ NodeOnline /\ ~ AgentOnline)

\* A death the broker notices is recorded, when the will was published during
\* an outage of the bridge too, unless the agent starts again, handlers overlap
\* or an administrator enables it (main.go 152-156, bridge.go 98-104).
DeathIsRecorded ==
    \A n \in 0..MaxStarts :
        agent = "killed" /\ will /\ count.starts = n
        ~> row.state # "online" \/ count.starts > n \/ crossed \/ count.switches > 0

\* An agent that is gone stops being chosen, by ageing or by its will (probe.go
\* 219, bridge.go 98-142).
AbsenceIsNoticed == GoneIsNoticed /\ DeathIsRecorded
=============================================================================
