--------------------------- MODULE AgentLinkProofs ---------------------------
(***************************************************************************)
(* Proofs about AgentLink for every finite set of handlers, any number of  *)
(* starts, losses, outages and switches, and every two grace periods of    *)
(* which the agent's is the longer.                                        *)
(*                                                                         *)
(* The inductive invariant is TypeOK /\ HandlerInv /\ RecentInv /\         *)
(* RowsInv /\ ReadyIsSubscribed.  RecentInv and HandlerInv say where the   *)
(* age of the node comes from; RowsInv says, for a single writer that is   *)
(* between its two statements, which of the two values is already there.   *)
(***************************************************************************)
EXTENDS AgentLink, FiniteSetTheorems, TLAPS

\* A handler has a status to write, published or repeated in this period.
HandlerInv ==
    \A h \in Handlers : handler[h].pc # "idle" =>
        handler[h].state \in {"online", "offline"} /\ (silent = 0 \/ replayed = 0)

\* The node's heartbeat is no younger than what gave rise to it.
RecentInv == silent <= node.age \/ replayed <= node.age

AtNode(h) == handler[h].pc = "node"

\* No writer of the two rows is between its statements.
NoWriter == (\A h \in Handlers : ~ AtNode(h)) /\ admin.pc # "agent" /\ agent # "registering"

\* At most one is.
OneWriter ==
    /\ \A g, h \in Handlers : AtNode(g) /\ AtNode(h) => g = h
    /\ (\E h \in Handlers : AtNode(h)) => admin.pc # "agent" /\ agent # "registering"
    /\ admin.pc = "agent" => agent # "registering"

\* What has been written by the one that is between its statements, or by the
\* last that has finished.
RowsInv ==
    /\ row.state # "none" => node.status # "none"
    /\ admin.pc = "agent" => row.state # "none"
    /\ agent = "registering" => node.status # "none"
    /\ ~ crossed =>
        /\ OneWriter
        /\ \A h \in Handlers : AtNode(h) => row.state \in {"none", handler[h].state}
        /\ admin.pc = "agent" => (node.status = "online" <=> admin.enable)
        /\ agent = "registering" => node.status = "online"
        /\ NoWriter /\ row.state # "none" => (row.state = "online" <=> node.status = "online")

IInv == TypeOK /\ HandlerInv /\ RecentInv /\ RowsInv /\ ReadyIsSubscribed

-----------------------------------------------------------------------------
(* The count of writers, as the three predicates above.                    *)
LEMMA WriterCount ==
    ASSUME TypeOK
    PROVE  (Writers > 0 <=> ~ NoWriter) /\ (Writers > 1 <=> ~ OneWriter)
<1> DEFINE S == {h \in Handlers : AtNode(h)}
           c == Cardinality(S)
           a == IF admin.pc = "agent" THEN 1 ELSE 0
           r == IF agent = "registering" THEN 1 ELSE 0
<1>1. IsFiniteSet(S) /\ c \in Nat
  BY AgentAssumption, FS_Subset, FS_CardinalityType
<1>2. c = 0 <=> S = {}
  BY <1>1, FS_EmptySet
<1>3. c = 1 <=> \E x : S = {x}
  BY <1>1, FS_Singleton
<1>4. c <= 1 <=> \A g, h \in Handlers : AtNode(g) /\ AtNode(h) => g = h
  <2>1. ASSUME \A g, h \in Handlers : AtNode(g) /\ AtNode(h) => g = h
        PROVE  S = {} \/ \E x : S = {x}
    <3>1. CASE S # {}
      <4>1. PICK x \in S : TRUE
        BY <3>1
      <4>2. S = {x}
        BY <4>1, <2>1
      <4>3. QED
        BY <4>2
    <3>2. QED
      BY <3>1
  <2>2. ASSUME S = {} \/ \E x : S = {x}, NEW g \in Handlers, NEW h \in Handlers,
               AtNode(g), AtNode(h)
        PROVE  g = h
    BY <2>2
  <2>3. c <= 1 <=> c = 0 \/ c = 1
    BY <1>1
  <2>4. QED
    BY <2>1, <2>2, <2>3, <1>2, <1>3
<1>5. Writers = c + a + r
  BY DEF Writers, AtNode
<1>6. S = {} <=> \A h \in Handlers : ~ AtNode(h)
  OBVIOUS
<1>7. NoWriter <=> c = 0 /\ a = 0 /\ r = 0
  BY <1>2, <1>6 DEF NoWriter
<1>8. OneWriter <=> c <= 1 /\ (c # 0 => a = 0 /\ r = 0) /\ (a = 1 => r = 0)
  BY <1>2, <1>4, <1>6 DEF OneWriter
<1>9. a \in {0, 1} /\ r \in {0, 1}
  OBVIOUS
<1> HIDE DEF a, r, c
<1>10. Writers > 0 <=> ~ (c = 0 /\ a = 0 /\ r = 0)
  BY <1>1, <1>5, <1>9
<1>11. Writers > 1 <=> ~ (c <= 1 /\ (c # 0 => a = 0 /\ r = 0) /\ (a = 1 => r = 0))
  BY <1>1, <1>5, <1>9
<1>12. Writers > 0 <=> ~ NoWriter
  BY <1>7, <1>10
<1>13. Writers > 1 <=> ~ OneWriter
  BY <1>8, <1>11
<1>14. QED
  BY <1>12, <1>13

LEMMA InitInv == Init => IInv
<1> SUFFICES ASSUME Init PROVE IInv
  OBVIOUS
<1>1. Old \in Ages
  BY AgentAssumption DEF Old, Ages
<1>2. TypeOK
  <2>1. handler \in [Handlers -> [pc : {"idle", "agent", "node"},
                                  state : {"none", "online", "offline"}]]
    BY DEF Init, Idle
  <2>2. row \in [state : {"none", "online", "offline", "disabled"}, enabled : BOOLEAN,
                 age : Ages]
    BY <1>1 DEF Init
  <2>3. node \in [status : {"none", "online", "offline"}, age : Ages]
    BY <1>1 DEF Init
  <2>4. count \in [starts : 0..MaxStarts, losses : 0..MaxLosses, outages : 0..MaxOutages,
                   switches : 0..MaxSwitches]
    BY AgentAssumption DEF Init
  <2>5. QED
    BY <1>1, <2>1, <2>2, <2>3, <2>4 DEF Init, TypeOK
<1>3. HandlerInv /\ RowsInv /\ ReadyIsSubscribed
  BY DEF Init, HandlerInv, RowsInv, OneWriter, NoWriter, AtNode, ReadyIsSubscribed, Idle
<1>4. RecentInv
  BY <1>1 DEF Init, RecentInv, Ages
<1>5. QED
  BY <1>2, <1>3, <1>4 DEF IInv

LEMMA Ageing ==
    ASSUME NEW a \in Ages
    PROVE  Older(a) \in Ages /\ (\A b \in Ages : a <= b => Older(a) <= Older(b))
           /\ 0 \in Ages
  BY AgentAssumption DEF Older, Ages, Old

\* A message handed to the bridge occupies a handler, and no writer.
Handed(state) ==
    /\ handler' \in [Handlers -> [pc : {"idle", "agent", "node"},
                                  state : {"none", "online", "offline"}]]
    /\ \A h \in Handlers :
        \/ handler'[h] = handler[h]
        \/ handler'[h].pc = "agent" /\ handler'[h].state = state /\ handler[h].pc = "idle"

LEMMA Delivered ==
    ASSUME TypeOK, NEW state \in {"online", "offline"}, Deliver(state)
    PROVE  Handed(state)
  BY DEF TypeOK, Deliver, Handed, Idle

LEMMA Replayed ==
    ASSUME TypeOK, BridgeConnects
    PROVE  Handed(retained) /\ (retained = "none" => handler' = handler)
  BY DEF TypeOK, BridgeConnects, Handed, Idle

LEMMA Published ==
    ASSUME TypeOK, Heartbeat \/ PublishWill
    PROVE  \E state \in {"online", "offline"} : Handed(state) /\ retained' = state
  BY Delivered DEF Heartbeat, PublishWill, Publish

-----------------------------------------------------------------------------
(* Types.                                                                  *)

LEMMA Counted ==
    ASSUME NEW max \in Nat, NEW n \in 0..max, n < max
    PROVE  n + 1 \in 0..max
  OBVIOUS

LEMMA TypeServer ==
    ASSUME TypeOK, HandlerInv,
           Tick \/ Handle \/ Broker \/ BridgeLost \/ SwitchAgent
           \/ \E enable \in BOOLEAN : SwitchNode(enable)
    PROVE  TypeOK'
<1>1. 0 \in Ages
  BY AgentAssumption DEF Ages, Old
<1>2. CASE Tick
  BY <1>2, Ageing DEF TypeOK, Tick
<1>3. ASSUME NEW h \in Handlers, WriteAgent(h) PROVE TypeOK'
  <2>1. handler[h].state \in {"online", "offline"}
    BY <1>3 DEF HandlerInv, WriteAgent
  <2>2. handler' \in [Handlers -> [pc : {"idle", "agent", "node"},
                                   state : {"none", "online", "offline"}]]
    BY <1>3 DEF TypeOK, WriteAgent
  <2>3. row' \in [state : {"none", "online", "offline", "disabled"}, enabled : BOOLEAN,
                  age : Ages]
    BY <1>1, <1>3, <2>1 DEF TypeOK, WriteAgent
  <2>4. QED
    BY <1>3, <2>2, <2>3 DEF TypeOK, WriteAgent, agentVars
<1>4. ASSUME NEW h \in Handlers, WriteNode(h) PROVE TypeOK'
  <2>1. handler[h].state \in {"online", "offline"}
    BY <1>4 DEF HandlerInv, WriteNode
  <2>2. handler' \in [Handlers -> [pc : {"idle", "agent", "node"},
                                   state : {"none", "online", "offline"}]]
    BY <1>4 DEF TypeOK, WriteNode, Idle
  <2>3. node' \in [status : {"none", "online", "offline"}, age : Ages]
    BY <1>1, <1>4, <2>1 DEF TypeOK, WriteNode
  <2>4. QED
    BY <1>4, <2>2, <2>3 DEF TypeOK, WriteNode, agentVars, history
<1>5. CASE PublishWill
  <2>1. PICK state \in {"online", "offline"} : Handed(state) /\ retained' = state
    BY <1>5, Published
  <2>2. QED
    <3>1. UNCHANGED <<agent, subscribed, beaten, bridge, admin, row, node, count, replayed,
                      lost, crossed>> /\ will' \in BOOLEAN /\ silent' = 0
      BY <1>5 DEF PublishWill, rowVars
    <3>2. QED
      BY <1>1, <2>1, <3>1 DEF TypeOK, Handed
<1>6. CASE BridgeConnects
  BY <1>1, <1>6, Replayed DEF TypeOK, BridgeConnects, Handed, agentVars, rowVars
<1>7. CASE BridgeLost
  <2>1. count' \in [starts : 0..MaxStarts, losses : 0..MaxLosses, outages : 0..MaxOutages,
                    switches : 0..MaxSwitches]
    BY <1>7, AgentAssumption, Counted DEF TypeOK, BridgeLost
  <2>2. QED
    <3>1. UNCHANGED <<agent, subscribed, will, beaten, retained, handler, admin, row, node,
                      silent, replayed, lost, crossed>> /\ bridge' \in BOOLEAN
      BY <1>7 DEF BridgeLost, agentVars, rowVars, history
    <3>2. QED
      BY <2>1, <3>1 DEF TypeOK
<1>8. CASE SwitchAgent
  BY <1>8 DEF TypeOK, SwitchAgent, SwitchAgentState, agentVars
<1>9. ASSUME NEW enable \in BOOLEAN, SwitchNode(enable) PROVE TypeOK'
  <2>1. count' \in [starts : 0..MaxStarts, losses : 0..MaxLosses, outages : 0..MaxOutages,
                    switches : 0..MaxSwitches]
    BY <1>9, AgentAssumption, Counted DEF TypeOK, SwitchNode
  <2>2. node' \in [status : {"none", "online", "offline"}, age : Ages]
    BY <1>9 DEF TypeOK, SwitchNode
  <2>3. QED
    BY <1>9, <2>1, <2>2 DEF TypeOK, SwitchNode, agentVars
<1>10. QED
  BY <1>2, <1>3, <1>4, <1>5, <1>6, <1>7, <1>8, <1>9 DEF Handle, Broker

LEMMA TypeAgent ==
    ASSUME TypeOK, Agent \/ RegisterNode \/ ConnectionLost \/ Die \/ Exit
    PROVE  TypeOK'
<1>1. 0 \in Ages
  BY AgentAssumption DEF Ages, Old
<1>2. CASE RegisterAgent
  BY <1>1, <1>2 DEF TypeOK, RegisterAgent, Alive
<1>3. CASE Connect \/ Subscribe \/ Reconnect \/ Exit
  BY <1>3 DEF TypeOK, Connect, Subscribe, Reconnect, Exit, Alive, rowVars, history
<1>4. CASE Heartbeat
  BY <1>1, <1>4, Published DEF TypeOK, Heartbeat, Publish, Handed, rowVars
<1>5. CASE RegisterNode
  <2>1. count' \in [starts : 0..MaxStarts, losses : 0..MaxLosses, outages : 0..MaxOutages,
                    switches : 0..MaxSwitches]
    BY <1>5, AgentAssumption, Counted DEF TypeOK, RegisterNode
  <2>2. QED
    BY <1>1, <1>5, <2>1 DEF TypeOK, RegisterNode, Alive
<1>6. CASE ConnectionLost
  <2>1. count' \in [starts : 0..MaxStarts, losses : 0..MaxLosses, outages : 0..MaxOutages,
                    switches : 0..MaxSwitches]
    BY <1>6, AgentAssumption, Counted DEF TypeOK, ConnectionLost
  <2>2. QED
    <3>1. UNCHANGED <<beaten, retained, bridge, handler, admin, row, node, silent, replayed,
                      lost, crossed>>
      BY <1>6 DEF ConnectionLost, rowVars, history
    <3>2. agent' \in Alive /\ subscribed' \in BOOLEAN /\ will' \in BOOLEAN
      BY <1>6 DEF ConnectionLost, Alive
    <3>3. QED
      BY <2>1, <3>1, <3>2 DEF TypeOK
<1>7. CASE Die
  BY <1>7 DEF TypeOK, Die, Alive, Connected, rowVars
<1>8. QED
  BY <1>2, <1>3, <1>4, <1>5, <1>6, <1>7 DEF Agent

LEMMA TypeStep == TypeOK /\ HandlerInv /\ Next => TypeOK'
  BY TypeServer, TypeAgent DEF Next

-----------------------------------------------------------------------------
(* Ages and handlers.                                                      *)

LEMMA HandlerStep == TypeOK /\ HandlerInv /\ Next => HandlerInv'
<1> SUFFICES ASSUME TypeOK, HandlerInv, Next PROVE HandlerInv'
  OBVIOUS
<1>1. CASE Tick
  BY <1>1 DEF HandlerInv, Tick, Idle
<1>2. ASSUME NEW h \in Handlers, WriteAgent(h) PROVE HandlerInv'
  BY <1>2 DEF HandlerInv, WriteAgent, TypeOK
<1>3. ASSUME NEW h \in Handlers, WriteNode(h) PROVE HandlerInv'
  BY <1>3 DEF HandlerInv, WriteNode, TypeOK, Idle, history
<1>4. CASE Heartbeat \/ PublishWill
  <2>1. PICK state \in {"online", "offline"} : Handed(state)
    BY <1>4, Published
  <2>2. silent' = 0
    BY <1>4 DEF Heartbeat, PublishWill
  <2>3. QED
    BY <2>1, <2>2 DEF HandlerInv, Handed
<1>5. CASE BridgeConnects
  <2>1. Handed(retained) /\ (retained = "none" => handler' = handler) /\ replayed' = 0
    BY <1>5, Replayed DEF BridgeConnects
  <2>2. QED
    BY <2>1 DEF HandlerInv, Handed, TypeOK
<1>6. CASE RegisterNode
  BY <1>6 DEF HandlerInv, RegisterNode
<1>7. CASE RegisterAgent \/ Connect \/ Subscribe \/ Reconnect
  BY <1>7 DEF HandlerInv, RegisterAgent, Connect, Subscribe, Reconnect, history
<1>8. CASE ConnectionLost \/ Die \/ Exit \/ BridgeLost
  BY <1>8 DEF HandlerInv, ConnectionLost, Die, Exit, BridgeLost, history
<1>9. CASE SwitchAgent \/ \E enable \in BOOLEAN : SwitchNode(enable)
  BY <1>9 DEF HandlerInv, SwitchAgent, SwitchAgentState, SwitchNode
<1>10. QED
  BY <1>1, <1>2, <1>3, <1>4, <1>5, <1>6, <1>7, <1>8, <1>9 DEF Next, Handle, Broker, Agent

LEMMA RecentStep == TypeOK /\ HandlerInv /\ RecentInv /\ Next => RecentInv'
<1> SUFFICES ASSUME TypeOK, HandlerInv, RecentInv, Next PROVE RecentInv'
  OBVIOUS
<1>1. node.age \in Ages /\ silent \in Ages /\ replayed \in Ages /\ \A a \in Ages : 0 <= a
  BY DEF TypeOK, Ages
<1>2. CASE Tick
  <2>1. silent' = Older(silent) /\ replayed' = Older(replayed) /\ node'.age = Older(node.age)
    BY <1>2 DEF Tick, TypeOK
  <2>2. QED
    BY <1>1, <2>1, Ageing DEF RecentInv
<1>3. ASSUME NEW h \in Handlers, WriteNode(h) PROVE RecentInv'
  <2>1. silent' = silent /\ replayed' = replayed /\ (silent = 0 \/ replayed = 0)
    BY <1>3 DEF HandlerInv, WriteNode, history
  <2>2. node'.age = node.age \/ node'.age = 0
    BY <1>3 DEF WriteNode
  <2>3. QED
    BY <1>1, <2>1, <2>2 DEF RecentInv
<1>4. CASE RegisterNode
  BY <1>4 DEF RecentInv, RegisterNode
<1>5. CASE Heartbeat \/ PublishWill
  BY <1>1, <1>5 DEF RecentInv, Heartbeat, PublishWill, rowVars
<1>6. CASE BridgeConnects
  BY <1>1, <1>6 DEF RecentInv, BridgeConnects, rowVars
<1>7. ASSUME NEW enable \in BOOLEAN, SwitchNode(enable) PROVE RecentInv'
  BY <1>7 DEF RecentInv, SwitchNode, TypeOK
<1>8. CASE RegisterAgent \/ Connect \/ Subscribe \/ Reconnect
  BY <1>8 DEF RecentInv, RegisterAgent, Connect, Subscribe, Reconnect, rowVars, history
<1>9. CASE ConnectionLost \/ Die \/ Exit \/ BridgeLost
  BY <1>9 DEF RecentInv, ConnectionLost, Die, Exit, BridgeLost, rowVars, history
<1>10. CASE SwitchAgent \/ \E h \in Handlers : WriteAgent(h)
  BY <1>10 DEF RecentInv, SwitchAgent, SwitchAgentState, WriteAgent
<1>11. QED
  BY <1>2, <1>3, <1>4, <1>5, <1>6, <1>7, <1>8, <1>9, <1>10 DEF Next, Handle, Broker, Agent

LEMMA ReadyStep == TypeOK /\ ReadyIsSubscribed /\ Next => ReadyIsSubscribed'
<1> SUFFICES ASSUME TypeOK, ReadyIsSubscribed, Next PROVE ReadyIsSubscribed'
  OBVIOUS
<1>1. CASE Subscribe \/ Reconnect
  BY <1>1 DEF ReadyIsSubscribed, Subscribe, Reconnect
<1>2. CASE Connect \/ RegisterAgent \/ RegisterNode \/ ConnectionLost \/ Die \/ Exit
  BY <1>2 DEF ReadyIsSubscribed, Connect, RegisterAgent, RegisterNode, ConnectionLost, Die, Exit
<1>3. CASE Tick \/ Handle \/ Broker \/ Heartbeat
  BY <1>3 DEF ReadyIsSubscribed, Tick, Handle, WriteAgent, WriteNode, Broker, PublishWill,
        BridgeConnects, Heartbeat, agentVars, history
<1>4. CASE BridgeLost \/ SwitchAgent \/ \E enable \in BOOLEAN : SwitchNode(enable)
  BY <1>4 DEF ReadyIsSubscribed, BridgeLost, SwitchAgent, SwitchAgentState, SwitchNode,
        agentVars, history
<1>5. QED
  BY <1>1, <1>2, <1>3, <1>4 DEF Next, Agent

-----------------------------------------------------------------------------
(* The two rows.                                                           *)

LEMMA RowsHandler ==
    ASSUME TypeOK, HandlerInv, RowsInv, NEW h \in Handlers, WriteAgent(h) \/ WriteNode(h)
    PROVE  RowsInv'
<1> USE DEF AtNode
<1>1. handler[h].state \in {"online", "offline"}
  BY DEF HandlerInv, WriteAgent, WriteNode
<1>2. CASE WriteAgent(h)
  <2>1. \A g \in Handlers : AtNode(g)' <=> AtNode(g) \/ g = h
    BY <1>2 DEF WriteAgent, TypeOK
  <2>2. handler'[h].state = handler[h].state
    BY <1>2 DEF WriteAgent, TypeOK
  <2>3. row.state = "none" => row'.state = "none"
    BY <1>2 DEF WriteAgent
  <2>4. row.state # "none" => row'.state = handler[h].state
    BY <1>2 DEF WriteAgent, TypeOK
  <2>5. ~ crossed' => ~ crossed /\ NoWriter
    BY <1>2, WriterCount DEF WriteAgent
  <2>6. UNCHANGED <<agent, admin, node>>
    BY <1>2 DEF WriteAgent, agentVars
  <2>7. QED
    BY <1>1, <2>1, <2>2, <2>3, <2>4, <2>5, <2>6 DEF RowsInv, OneWriter, NoWriter
<1>3. CASE WriteNode(h)
  <2>1. \A g \in Handlers : AtNode(g)' <=> AtNode(g) /\ g # h
    BY <1>3 DEF WriteNode, TypeOK, Idle
  <2>2. \A g \in Handlers : g # h => handler'[g] = handler[g]
    BY <1>3 DEF WriteNode, TypeOK
  <2>3. node.status = "none" => node'.status = "none"
    BY <1>3 DEF WriteNode
  <2>4. node.status # "none" => node'.status = handler[h].state
    BY <1>3 DEF WriteNode
  <2>5. UNCHANGED <<agent, admin, row, crossed>> /\ AtNode(h)
    BY <1>3 DEF WriteNode, agentVars, history
  <2>6. QED
    BY <1>1, <2>1, <2>2, <2>3, <2>4, <2>5 DEF RowsInv, OneWriter, NoWriter
<1>4. QED
  BY <1>2, <1>3

LEMMA RowsWriter ==
    ASSUME TypeOK, RowsInv,
           RegisterNode \/ RegisterAgent \/ SwitchAgent
           \/ \E enable \in BOOLEAN : SwitchNode(enable)
    PROVE  RowsInv'
<1> USE DEF AtNode
<1>1. CASE RegisterNode
  <2>1. ~ crossed' => ~ crossed /\ NoWriter
    BY <1>1, WriterCount DEF RegisterNode
  <2>2. UNCHANGED <<handler, admin, row>> /\ agent' = "registering" /\ node'.status = "online"
    BY <1>1 DEF RegisterNode
  <2>3. QED
    BY <2>1, <2>2 DEF RowsInv, OneWriter, NoWriter
<1>2. CASE RegisterAgent
  <2>1. ~ crossed' => ~ crossed /\ OneWriter
    BY <1>2, WriterCount DEF RegisterAgent
  <2>2. UNCHANGED <<handler, admin, node>> /\ agent = "registering" /\ agent' = "registered"
    BY <1>2 DEF RegisterAgent
  <2>3. row'.state = "online"
    BY <1>2 DEF RegisterAgent, TypeOK
  <2>4. QED
    BY <2>1, <2>2, <2>3 DEF RowsInv, OneWriter, NoWriter
<1>3. CASE SwitchAgent
  <2>1. ~ crossed' => ~ crossed /\ OneWriter
    BY <1>3, WriterCount DEF SwitchAgent, SwitchAgentState
  <2>2. UNCHANGED <<handler, agent, node>> /\ admin.pc = "agent" /\ admin'.pc = "idle"
    BY <1>3 DEF SwitchAgent, SwitchAgentState, agentVars, TypeOK
  <2>3. row'.state = IF admin.enable THEN "online" ELSE "disabled"
    BY <1>3 DEF SwitchAgent, SwitchAgentState, TypeOK
  <2>4. row'.state = "online" <=> admin.enable
    BY <2>3
  <2>5. row'.state # "none" /\ row.state \in {"none", "online", "offline", "disabled"}
    BY <2>3 DEF TypeOK
  <2>6. QED
    BY <2>1, <2>2, <2>4, <2>5 DEF RowsInv, OneWriter, NoWriter
<1>4. ASSUME NEW enable \in BOOLEAN, SwitchNode(enable) PROVE RowsInv'
  <2>1. ~ crossed' => ~ crossed /\ NoWriter
    BY <1>4, WriterCount DEF SwitchNode
  <2>2. UNCHANGED <<handler, agent, row>> /\ admin'.pc = "agent" /\ row.state # "none"
    BY <1>4 DEF SwitchNode, agentVars
  <2>3. admin'.enable = enable /\ node'.status = IF enable THEN "online" ELSE "offline"
    BY <1>4 DEF SwitchNode, TypeOK
  <2>4. node'.status # "none" /\ (node'.status = "online" <=> admin'.enable)
    BY <2>3
  <2>5. QED
    BY <2>1, <2>2, <2>4 DEF RowsInv, OneWriter, NoWriter
<1>5. QED
  BY <1>1, <1>2, <1>3, <1>4

LEMMA RowsOther ==
    ASSUME TypeOK, RowsInv,
           \/ Tick \/ Broker \/ Heartbeat \/ Connect \/ Subscribe \/ Reconnect
           \/ ConnectionLost \/ Die \/ Exit \/ BridgeLost
    PROVE  RowsInv'
<1> USE DEF AtNode
<1>1. /\ agent' = "registering" => agent = "registering"
      /\ agent = "registering" /\ agent' # "registering" => crossed'
  <2>1. CASE Die
    BY <2>1 DEF Die
  <2>2. CASE Tick \/ Broker \/ Heartbeat \/ BridgeLost
    BY <2>2 DEF Tick, Broker, PublishWill, BridgeConnects, Heartbeat, BridgeLost, agentVars
  <2>3. CASE Connect \/ Subscribe \/ Reconnect \/ ConnectionLost \/ Exit
    BY <2>3 DEF Connect, Subscribe, Reconnect, ConnectionLost, Exit, Connected
  <2>4. QED
    BY <2>1, <2>2, <2>3
<1>2. admin' = admin
  BY DEF Tick, Broker, PublishWill, BridgeConnects, Heartbeat, Connect, Subscribe, Reconnect,
         ConnectionLost, Die, Exit, BridgeLost
<1>3. row'.state = row.state /\ node'.status = node.status
  BY DEF Tick, Broker, PublishWill, BridgeConnects, Heartbeat, Connect, Subscribe, Reconnect,
         ConnectionLost, Die, Exit, BridgeLost, rowVars, TypeOK
<1>4. crossed => crossed'
  BY DEF Tick, Broker, PublishWill, BridgeConnects, Heartbeat, Connect, Subscribe, Reconnect,
         ConnectionLost, Die, Exit, BridgeLost, history
<1>5. \A h \in Handlers :
        /\ AtNode(h)' <=> AtNode(h)
        /\ AtNode(h) => handler'[h] = handler[h]
  <2>1. CASE PublishWill \/ Heartbeat
    <3>1. PICK state \in {"online", "offline"} : Handed(state)
      BY <2>1, Published
    <3>2. QED
      BY <3>1 DEF Handed
  <2>2. CASE BridgeConnects
    BY <2>2, Replayed DEF Handed
  <2>3. CASE ~ (PublishWill \/ Heartbeat \/ BridgeConnects)
    <3>1. handler' = handler
      BY <2>3 DEF Tick, Broker, Connect, Subscribe, Reconnect, ConnectionLost, Die, Exit,
            BridgeLost
    <3>2. QED
      BY <3>1
  <2>4. QED
    BY <2>1, <2>2, <2>3
<1>6. ASSUME ~ crossed'
      PROVE  /\ ~ crossed /\ OneWriter'
             /\ agent' = "registering" <=> agent = "registering"
             /\ NoWriter' <=> NoWriter
             /\ \A h \in Handlers : AtNode(h)' => row'.state \in {"none", handler'[h].state}
  <2>1. ~ crossed /\ (agent' = "registering" <=> agent = "registering")
    BY <1>1, <1>4, <1>6
  <2>2. OneWriter' /\ (NoWriter' <=> NoWriter)
    BY <1>2, <1>5, <2>1 DEF RowsInv, OneWriter, NoWriter
  <2>3. ASSUME NEW h \in Handlers, AtNode(h)'
        PROVE  row'.state \in {"none", handler'[h].state}
    <3>1. row.state \in {"none", handler[h].state}
      BY <1>5, <2>1, <2>3 DEF RowsInv
    <3>2. QED
      BY <1>3, <1>5, <2>3, <3>1
  <2>4. QED
    BY <2>1, <2>2, <2>3
<1>7. QED
  BY <1>1, <1>2, <1>3, <1>6 DEF RowsInv

LEMMA RowsStep == TypeOK /\ HandlerInv /\ RowsInv /\ Next => RowsInv'
  BY RowsHandler, RowsWriter, RowsOther DEF Next, Handle, Agent

-----------------------------------------------------------------------------
\* Presence is true for every number of handlers, starts, losses, outages and
\* switches: no age of a node's heartbeat is younger than a sign of life or a
\* connection of the bridge, and rows come apart only when writers overlap or are
\* cut (bridge.go 129-142, probe.go 56-78, 184-202, scheduling.go 17-32).
THEOREM Presence == Spec => []PresenceIsTrue
<1>1. IInv /\ [Next]_vars => IInv'
  <2>1. IInv /\ Next => IInv'
    BY TypeStep, HandlerStep, RecentStep, RowsStep, ReadyStep DEF IInv
  <2>2. IInv /\ UNCHANGED vars => IInv'
    <3> SUFFICES ASSUME IInv, UNCHANGED vars PROVE IInv'
      OBVIOUS
    <3>1. TypeOK' /\ HandlerInv' /\ RecentInv' /\ ReadyIsSubscribed'
      BY DEF IInv, TypeOK, HandlerInv, RecentInv, ReadyIsSubscribed, vars, agentVars, rowVars,
             history
    <3>2. RowsInv'
      BY DEF IInv, RowsInv, OneWriter, NoWriter, AtNode, vars, agentVars, rowVars, history
    <3>3. QED
      BY <3>1, <3>2 DEF IInv
  <2>3. QED
    BY <2>1, <2>2
<1>2. IInv => PresenceIsTrue
  <2> SUFFICES ASSUME IInv PROVE PresenceIsTrue
    OBVIOUS
  <2>1. OnlineIsRecent
    BY AgentAssumption DEF IInv, TypeOK, RecentInv, OnlineIsRecent, NodeOnline, Ages, Old
  <2>2. RowsAgree
    BY WriterCount DEF IInv, RowsInv, RowsAgree
  <2>3. QED
    BY <2>1, <2>2 DEF IInv, PresenceIsTrue
<1>3. QED
  BY InitInv, <1>1, <1>2, PTL DEF Spec
=============================================================================
