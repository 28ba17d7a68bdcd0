------------------------- MODULE InterfaceSetupProofs -------------------------
(***************************************************************************)
(* The theorems of QueueAssignment, for configurations of any size, and    *)
(* what InterfaceSetup promises of a connection, for all streams, cores    *)
(* and devices.  The constructor and the flow steering are QueueAssignment,*)
(* whose theorems are cited where they hold for every step of the set-up.  *)
(***************************************************************************)
EXTENDS InterfaceSetup, QueueLists, FiniteSetTheorems, TLAPS

-----------------------------------------------------------------------------
(* Helpers.                                                                *)

(* An empty map.                                                           *)
LEMMA EmptyMap == DOMAIN Empty = {}
  BY DEF Empty

-----------------------------------------------------------------------------
(* Types.                                                                  *)

(* The key and the source of a stream.                                     *)
LEMMA ConnTypes ==
  ASSUME conns \in Seq(Conn), NEW k \in 1..Len(conns)
  PROVE  /\ conns[k] \in Conn
         /\ Key(conns[k]) \in Ips \X Streams
         /\ conns[k].source \in SourceIds
<1>1. conns[k] \in Conn
  OBVIOUS
<1>2. QED
  BY <1>1 DEF Conn, Key

(* The variables have their types when the constructor starts.             *)
LEMMA TypeInit == Init => TypeOK
<1> SUFFICES ASSUME Init
             PROVE  TypeOK
  OBVIOUS
<1>1. conns \in Seq(Conn) /\ Len(conns) \in Nat
  <2>1. PICK n \in 0..MaxConns : conns \in [1..n -> Conn]
    BY DEF Init
  <2>2. n \in Nat
    BY BoundAssumption
  <2>3. conns \in Seq(Conn)
    BY <2>1, <2>2
  <2>4. QED
    BY <2>3
<1>2. cores \in Seq(Cores) /\ Len(cores) \in Nat /\ (cores # <<>> => 0 < Len(cores))
  <2>1. PICK n \in 0..MaxCores : cores \in [1..n -> Cores]
    BY DEF Init
  <2>2. n \in Nat
    BY BoundAssumption
  <2>3. cores \in Seq(Cores)
    BY <2>1, <2>2
  <2>4. QED
    BY <2>3
<1>3. pos \in 1..(Len(conns) + 1)
  BY <1>1 DEF Init
<1>4. DOMAIN groups = {} /\ DOMAIN rxCoreMap = {} /\ DOMAIN streamMap = {} /\ DOMAIN rules = {}
  BY EmptyMap DEF Init
<1>5. rxq = 0 /\ coreIdx = 0 /\ todo = {} /\ todoRules = {} /\ pc = "group"
  BY DEF Init
<1>6. 0..(rxq - 1) = {}
  BY <1>5
<1>7. QED
  BY <1>1, <1>2, <1>3, <1>4, <1>5, <1>6 DEF TypeOK

(* Every step of the constructor and the flow steering keeps the types.    *)
LEMMA TypeStep ==
  TypeOK /\ [Next]_vars => TypeOK'
<1> SUFFICES ASSUME TypeOK, [Next]_vars
             PROVE  TypeOK'
  OBVIOUS
<1>1. CASE AddStream
  <2>1. Len(conns) \in Nat /\ pos \in Nat /\ pos \in 1..Len(conns)
    BY <1>1 DEF AddStream, TypeOK
  <2>2. Key(conns[pos]) \in Ips \X Streams /\ conns[pos].source \in SourceIds
    BY <2>1, ConnTypes DEF TypeOK
  <2>3. /\ DOMAIN groups' = DOMAIN groups \cup {Key(conns[pos])}
        /\ groups'[Key(conns[pos])] = conns[pos].source
        /\ \A k \in DOMAIN groups : k # Key(conns[pos]) => groups'[k] = groups[k]
    BY <1>1 DEF AddStream, Put
  <2>4. /\ DOMAIN groups' \subseteq Ips \X Streams
        /\ \A k \in DOMAIN groups' : groups'[k] \in SourceIds
    BY <2>2, <2>3 DEF TypeOK
  <2>5. pos' \in 1..(Len(conns) + 1)
    BY <1>1, <2>1 DEF AddStream
  <2>6. QED
    BY <1>1, <2>4, <2>5 DEF AddStream, inVars, queueVars, ruleVars, TypeOK
<1>2. CASE GroupsDone
  <2>1. todo' \subseteq Ips
    BY <1>2 DEF GroupsDone, TypeOK
  <2>2. QED
    BY <1>2, <2>1 DEF GroupsDone, inVars, groupVars, ruleVars, TypeOK
<1>3. ASSUME NEW ip \in todo, AssignQueue(ip)
      PROVE  TypeOK'
  <2>1. /\ cores \in Seq(Cores) /\ coreIdx \in Nat /\ coreIdx < Len(cores)
        /\ Len(cores) \in Nat /\ ip \in Ips /\ rxq \in Nat
    BY <1>3 DEF AssignQueue, TypeOK
  <2> DEFINE core == cores[coreIdx + 1]
  <2>2. core \in Cores
    <3>1. coreIdx + 1 \in 1..Len(cores)
      BY <2>1
    <3>2. QED
      BY <2>1, <3>1
  <2>3. /\ rxq' = rxq + 1
        /\ rxCoreMap' = Put(rxCoreMap, <<core, rxq>>, ip)
        /\ streamMap' = Put(streamMap, rxq, StreamsOf(ip))
        /\ coreIdx' = AfterCore(coreIdx)
        /\ todo' = todo \ {ip}
    BY <1>3 DEF AssignQueue
  <2> HIDE DEF core
  <2>4. rxq' \in Nat /\ 0..(rxq' - 1) = 0..(rxq - 1) \cup {rxq}
    BY <2>1, <2>3
  <2>5. /\ DOMAIN rxCoreMap' \subseteq Cores \X (0..(rxq' - 1))
        /\ \A k \in DOMAIN rxCoreMap' : rxCoreMap'[k] \in Ips
        /\ DOMAIN rxCoreMap \subseteq DOMAIN rxCoreMap'
    <3>1. /\ DOMAIN rxCoreMap \subseteq Cores \X (0..(rxq - 1))
          /\ \A k \in DOMAIN rxCoreMap : rxCoreMap[k] \in Ips
      BY DEF TypeOK
    <3>2. /\ DOMAIN rxCoreMap' = DOMAIN rxCoreMap \cup {<<core, rxq>>}
          /\ rxCoreMap'[<<core, rxq>>] = ip
          /\ \A k \in DOMAIN rxCoreMap : k # <<core, rxq>> => rxCoreMap'[k] = rxCoreMap[k]
      BY <2>3 DEF Put
    <3>3. <<core, rxq>> \in Cores \X (0..(rxq' - 1))
      BY <2>2, <2>4
    <3>4. DOMAIN rxCoreMap \subseteq Cores \X (0..(rxq' - 1))
      BY <3>1, <2>4
    <3>5. \A k \in DOMAIN rxCoreMap' : rxCoreMap'[k] \in Ips
      BY <2>1, <3>1, <3>2
    <3>6. QED
      BY <3>2, <3>3, <3>4, <3>5
  <2>6. DOMAIN streamMap' = 0..(rxq' - 1)
    BY <2>3, <2>4 DEF TypeOK, Put
  <2>7. coreIdx' \in Nat /\ coreIdx' < Len(cores)
    BY <2>1, <2>3 DEF AfterCore
  <2>8. /\ \A r \in DOMAIN rules : rules[r] \in 0..(rxq' - 1)
        /\ todoRules \subseteq DOMAIN rxCoreMap'
        /\ todo' \subseteq Ips
    BY <2>3, <2>4, <2>5 DEF TypeOK
  <2>9. /\ conns' = conns /\ cores' = cores /\ pc' = pc /\ pos' = pos
        /\ groups' = groups /\ todoRules' = todoRules /\ rules' = rules
    BY <1>3 DEF AssignQueue, inVars, groupVars, ruleVars
  <2>10. QED
    BY <2>4, <2>5, <2>6, <2>7, <2>8, <2>9 DEF TypeOK
<1>4. CASE NoCore \/ AssignDone \/ CreateRuleFails \/ RulesDone
  BY <1>4 DEF NoCore, AssignDone, CreateRuleFails, RulesDone, inVars, groupVars, queueVars,
     ruleVars, TypeOK
<1>5. CASE FlushRules
  <2>1. DOMAIN rules' = {}
    BY <1>5, EmptyMap DEF FlushRules
  <2>2. QED
    BY <1>5, <2>1 DEF FlushRules, inVars, groupVars, queueVars, TypeOK
<1>6. ASSUME NEW k \in todoRules, CreateRule(k)
      PROVE  TypeOK'
  <2>1. k \in DOMAIN rxCoreMap /\ rxCoreMap[k] \in Ips /\ k[2] \in 0..(rxq - 1)
    BY DEF TypeOK
  <2>2. /\ DOMAIN rules' \subseteq Ips
        /\ \A ip \in DOMAIN rules' : rules'[ip] \in 0..(rxq - 1)
    <3>1. /\ DOMAIN rules' = DOMAIN rules \cup {rxCoreMap[k]}
          /\ rules'[rxCoreMap[k]] = k[2]
          /\ \A ip \in DOMAIN rules : ip # rxCoreMap[k] => rules'[ip] = rules[ip]
      BY <1>6 DEF CreateRule, Put
    <3>2. QED
      BY <2>1, <3>1 DEF TypeOK
  <2>3. QED
    BY <1>6, <2>2 DEF CreateRule, inVars, groupVars, queueVars, TypeOK
<1>7. CASE UNCHANGED vars
  BY <1>7 DEF vars, TypeOK
<1>8. QED
  BY <1>1, <1>2, <1>3, <1>4, <1>5, <1>6, <1>7 DEF Next

(***************************************************************************)
(* The type invariant: core_idx never leaves m_rte_cores and rx_q numbers  *)
(* the queues without a gap, so that allocate_mbufs, which counts from 0   *)
(* to m_rx_qs.size(), has buffers for every queue.                         *)
(***************************************************************************)
THEOREM TypeCorrect == Spec => []TypeOK
  BY TypeInit, TypeStep, PTL DEF Spec

-----------------------------------------------------------------------------
(* The groups reflect the streams visited so far, the last one winning.    *)
LastBefore(n, key, src) ==
  \E k \in 1..(n - 1) :
    /\ Key(conns[k]) = key
    /\ conns[k].source = src
    /\ \A j \in (k + 1)..(n - 1) : Key(conns[j]) # key

GroupInv ==
  /\ DOMAIN groups = {Key(conns[k]) : k \in 1..(pos - 1)}
  /\ \A key \in DOMAIN groups : LastBefore(pos, key, groups[key])
  /\ pc # "group" => pos = Len(conns) + 1

(* No stream is grouped at the start.                                      *)
LEMMA GroupInit == Init => GroupInv
<1> SUFFICES ASSUME Init
             PROVE  GroupInv
  OBVIOUS
<1>1. pos = 1 /\ DOMAIN groups = {} /\ pc = "group"
  BY EmptyMap DEF Init
<1>2. 1..(pos - 1) = {}
  BY <1>1
<1>3. QED
  BY <1>1, <1>2 DEF GroupInv

(* Grouping a stream keeps every group at its last listing.                *)
LEMMA GroupStep ==
  TypeOK /\ GroupInv /\ [Next]_vars => GroupInv'
<1> SUFFICES ASSUME TypeOK, GroupInv, [Next]_vars
             PROVE  GroupInv'
  OBVIOUS
<1>1. CASE AddStream
  <2> DEFINE key == Key(conns[pos])
  <2>1. /\ pos \in Nat /\ Len(conns) \in Nat /\ pos \in 1..Len(conns)
        /\ pos' = pos + 1 /\ conns' = conns /\ pc' = "group"
        /\ groups' = Put(groups, key, conns[pos].source)
    BY <1>1 DEF AddStream, TypeOK, inVars
  <2>2. /\ 1..(pos' - 1) = 1..(pos - 1) \cup {pos}
        /\ pos \notin 1..(pos - 1)
    BY <2>1
  <2>4. /\ DOMAIN groups' = DOMAIN groups \cup {key}
        /\ groups'[key] = conns[pos].source
        /\ \A g \in DOMAIN groups : g # key => groups'[g] = groups[g]
    BY <2>1 DEF Put
  <2>5. DOMAIN groups' = {Key(conns'[k]) : k \in 1..(pos' - 1)}
    BY <2>1, <2>2, <2>4 DEF GroupInv
  <2>6. ASSUME NEW g \in DOMAIN groups'
        PROVE  LastBefore(pos, g, groups[g])'
    <3>1. CASE g = key
      <4>1. /\ pos \in 1..(pos' - 1) /\ Key(conns'[pos]) = g
            /\ conns'[pos].source = groups'[g]
            /\ \A j \in (pos + 1)..(pos' - 1) : Key(conns'[j]) # g
        BY <2>1, <2>2, <2>4, <3>1
      <4>2. QED
        BY <4>1 DEF LastBefore
    <3>2. CASE g # key
      <4>1. g \in DOMAIN groups /\ groups'[g] = groups[g]
        BY <2>4, <3>2
      <4>2. PICK k \in 1..(pos - 1) :
              /\ Key(conns[k]) = g
              /\ conns[k].source = groups[g]
              /\ \A j \in (k + 1)..(pos - 1) : Key(conns[j]) # g
        BY <4>1 DEF GroupInv, LastBefore
      <4>3. \A j \in (k + 1)..(pos' - 1) : j \in (k + 1)..(pos - 1) \/ j = pos
        BY <2>1
      <4>4. \A j \in (k + 1)..(pos' - 1) : Key(conns[j]) # g
        BY <3>2, <4>2, <4>3
      <4>5. /\ k \in 1..(pos' - 1) /\ Key(conns'[k]) = g
            /\ conns'[k].source = groups'[g]
            /\ \A j \in (k + 1)..(pos' - 1) : Key(conns'[j]) # g
        BY <2>1, <2>2, <4>1, <4>2, <4>4
      <4>6. QED
        BY <4>5 DEF LastBefore
    <3>3. QED
      BY <3>1, <3>2
  <2>7. QED
    BY <2>1, <2>5, <2>6 DEF GroupInv
<1>2. CASE UNCHANGED <<inVars, groupVars>> /\ pc' # "group" /\ (pc = "group" => GroupsDone)
  <2>1. conns' = conns /\ pos' = pos /\ groups' = groups
    BY <1>2 DEF inVars, groupVars
  <2>2. pos = Len(conns) + 1
    BY <1>2 DEF GroupInv, GroupsDone, TypeOK
  <2>3. QED
    BY <2>1, <2>2 DEF GroupInv, LastBefore
<1>3. CASE GroupsDone
  BY <1>2, <1>3 DEF GroupsDone
<1>4. ASSUME NEW ip \in todo, AssignQueue(ip)
      PROVE  GroupInv'
  BY <1>2, <1>4 DEF AssignQueue
<1>5. CASE NoCore \/ AssignDone \/ FlushRules \/ CreateRuleFails \/ RulesDone
  BY <1>2, <1>5 DEF NoCore, AssignDone, FlushRules, CreateRuleFails, RulesDone
<1>6. ASSUME NEW k \in todoRules, CreateRule(k)
      PROVE  GroupInv'
  BY <1>2, <1>6 DEF CreateRule
<1>7. CASE UNCHANGED vars
  BY <1>7 DEF vars, GroupInv, LastBefore
<1>8. QED
  BY <1>1, <1>3, <1>4, <1>5, <1>6, <1>7 DEF Next

-----------------------------------------------------------------------------
(* Addresses of the groups: each has either no queue yet or exactly one,   *)
(* and a queue has exactly one lcore and the streams of its address.       *)
GroupedIps == {k[1] : k \in DOMAIN groups}

QueueInv ==
  /\ pc = "group" => rxq = 0
  /\ \A q \in 0..(rxq - 1) : \E c \in Cores : <<c, q>> \in DOMAIN rxCoreMap
  /\ \A k, l \in DOMAIN rxCoreMap : k[2] = l[2] => k = l
  /\ \A k, l \in DOMAIN rxCoreMap : rxCoreMap[k] = rxCoreMap[l] => k = l
  /\ \A k \in DOMAIN rxCoreMap :
       /\ rxCoreMap[k] \notin todo
       /\ streamMap[k[2]] = StreamsOf(rxCoreMap[k])
  /\ pc # "group" => \A ip \in GroupedIps : ip \notin todo =>
       \E k \in DOMAIN rxCoreMap : rxCoreMap[k] = ip
  /\ pc \in {"flush", "rules", "done"} => todo = {}

(* No address has a queue at the start.                                    *)
LEMMA QueueInit == Init => QueueInv
<1> SUFFICES ASSUME Init
             PROVE  QueueInv
  OBVIOUS
<1>1. rxq = 0 /\ DOMAIN rxCoreMap = {} /\ pc = "group" /\ todo = {}
  BY EmptyMap DEF Init
<1>2. 0..(rxq - 1) = {}
  BY <1>1
<1>3. QED
  BY <1>1, <1>2 DEF QueueInv

(* Every address that is dealt gets a new queue of one core.               *)
LEMMA QueueStep ==
  TypeOK /\ QueueInv /\ [Next]_vars => QueueInv'
<1> SUFFICES ASSUME TypeOK, QueueInv, [Next]_vars
             PROVE  QueueInv'
  OBVIOUS
<1>1. CASE AddStream \/ GroupsDone
  <2>1. /\ pc = "group" /\ rxq' = rxq /\ rxCoreMap' = rxCoreMap
        /\ groups' = groups \/ pc' = "group"
    BY <1>1 DEF AddStream, GroupsDone, queueVars, groupVars
  <2>2. rxq = 0 /\ 0..(rxq - 1) = {}
    BY <2>1 DEF QueueInv
  <2>3. DOMAIN rxCoreMap = {}
    BY <2>2 DEF TypeOK
  <2>4. pc' # "group" => todo' = GroupedIps'
    BY <1>1 DEF AddStream, GroupsDone, GroupedIps, groupVars
  <2>5. pc' \notin {"flush", "rules", "done"}
    BY <1>1 DEF AddStream, GroupsDone
  <2>6. QED
    BY <2>1, <2>2, <2>3, <2>4, <2>5 DEF QueueInv
<1>2. ASSUME NEW ip \in todo, AssignQueue(ip)
      PROVE  QueueInv'
  <2> DEFINE core == cores[coreIdx + 1]
             new == <<core, rxq>>
  <2>1. /\ pc = "assign" /\ pc' = pc /\ groups' = groups /\ rxq \in Nat
        /\ rxq' = rxq + 1
        /\ todo' = todo \ {ip}
        /\ rxCoreMap' = Put(rxCoreMap, new, ip)
        /\ streamMap' = Put(streamMap, rxq, StreamsOf(ip))
    BY <1>2 DEF AssignQueue, groupVars, TypeOK
  <2>2. core \in Cores
    <3>1. /\ cores \in Seq(Cores) /\ coreIdx \in Nat /\ coreIdx < Len(cores)
          /\ Len(cores) \in Nat
      BY <1>2 DEF AssignQueue, TypeOK
    <3>2. coreIdx + 1 \in 1..Len(cores)
      BY <3>1
    <3>3. QED
      BY <3>1, <3>2
  <2>3. DOMAIN rxCoreMap \subseteq Cores \X (0..(rxq - 1)) /\ DOMAIN streamMap = 0..(rxq - 1)
    BY DEF TypeOK
  <2> HIDE DEF core
  <2>4. /\ rxq \notin 0..(rxq - 1)
        /\ \A q \in 0..(rxq' - 1) : q \in 0..(rxq - 1) \/ q = rxq
    BY <2>1
  <2>5. /\ new[1] = core /\ new[2] = rxq /\ new \notin DOMAIN rxCoreMap
        /\ \A k \in DOMAIN rxCoreMap : k[2] \in 0..(rxq - 1) /\ k[2] # rxq
    BY <2>3, <2>4
  <2>6. /\ DOMAIN rxCoreMap' = DOMAIN rxCoreMap \cup {new}
        /\ rxCoreMap'[new] = ip
        /\ \A k \in DOMAIN rxCoreMap : rxCoreMap'[k] = rxCoreMap[k]
    BY <2>1, <2>5 DEF Put
  <2>7. /\ streamMap'[rxq] = StreamsOf(ip)
        /\ \A q \in 0..(rxq - 1) : streamMap'[q] = streamMap[q]
    BY <2>1, <2>3, <2>4 DEF Put
  <2> HIDE DEF new
  <2>9. \A q \in 0..(rxq' - 1) : \E c \in Cores : <<c, q>> \in DOMAIN rxCoreMap'
    <3>1. \A q \in 0..(rxq - 1) : \E c \in Cores : <<c, q>> \in DOMAIN rxCoreMap
      BY DEF QueueInv
    <3>2. <<core, rxq>> \in DOMAIN rxCoreMap'
      BY <2>6 DEF new
    <3>3. QED
      BY <2>2, <2>4, <2>6, <3>1, <3>2
  <2>10. \A k, l \in DOMAIN rxCoreMap' : k[2] = l[2] => k = l
    BY <2>5, <2>6 DEF QueueInv
  <2>11. \A k, l \in DOMAIN rxCoreMap' : rxCoreMap'[k] = rxCoreMap'[l] => k = l
    BY <2>6 DEF QueueInv
  <2>12. \A k \in DOMAIN rxCoreMap' :
           /\ rxCoreMap'[k] \notin todo'
           /\ streamMap'[k[2]] = StreamsOf(rxCoreMap'[k])
    BY <2>1, <2>5, <2>6, <2>7 DEF QueueInv
  <2>13. \A i \in GroupedIps : i \notin todo' => \E k \in DOMAIN rxCoreMap' : rxCoreMap'[k] = i
    BY <2>1, <2>6 DEF QueueInv
  <2>14. GroupedIps' = GroupedIps
    BY <2>1 DEF GroupedIps
  <2>15. /\ pc' \notin {"group", "flush", "rules", "done"}
    BY <2>1
  <2>16. \A k \in DOMAIN rxCoreMap' :
           /\ rxCoreMap'[k] \notin todo'
           /\ streamMap'[k[2]] = StreamsOf(rxCoreMap[k])'
    BY <2>1, <2>12 DEF StreamsOf
  <2>17. QED
    BY <2>9, <2>10, <2>11, <2>13, <2>14, <2>15, <2>16 DEF QueueInv
<1>3. CASE UNCHANGED <<groupVars, queueVars>> /\ pc # "group" /\ pc' # "group"
           /\ (pc' \in {"flush", "rules", "done"} => todo = {})
  BY <1>3 DEF QueueInv, GroupedIps, StreamsOf, groupVars, queueVars
<1>4. CASE NoCore \/ AssignDone \/ FlushRules \/ CreateRuleFails \/ RulesDone
  BY <1>3, <1>4 DEF NoCore, AssignDone, FlushRules, CreateRuleFails, RulesDone, QueueInv
<1>5. ASSUME NEW k \in todoRules, CreateRule(k)
      PROVE  QueueInv'
  BY <1>3, <1>5 DEF CreateRule, QueueInv
<1>6. CASE UNCHANGED vars
  <2>1. /\ pc' = pc /\ rxq' = rxq /\ rxCoreMap' = rxCoreMap /\ todo' = todo
        /\ groups' = groups /\ streamMap' = streamMap
    BY <1>6 DEF vars
  <2>2. GroupedIps' = GroupedIps
    BY <2>1 DEF GroupedIps
  <2>3. \A ip : StreamsOf(ip)' = StreamsOf(ip)
    BY <2>1 DEF StreamsOf
  <2>4. QED
    BY <2>1, <2>2, <2>3 DEF QueueInv, StreamsOf
<1>7. QED
  BY <1>1, <1>2, <1>4, <1>5, <1>6 DEF Next

-----------------------------------------------------------------------------
(* The rules created so far steer an address to its queue.                 *)
RuleInv ==
  pc \in {"rules", "done"} =>
    /\ pc = "done" => todoRules = {}
    /\ \A k \in DOMAIN rxCoreMap \ todoRules :
         rxCoreMap[k] \in DOMAIN rules /\ rules[rxCoreMap[k]] = k[2]

(* Every rule created leads to the queue of its address.                   *)
LEMMA RuleStep ==
  TypeOK /\ QueueInv /\ RuleInv /\ [Next]_vars => RuleInv'
<1> SUFFICES ASSUME TypeOK, QueueInv, RuleInv, [Next]_vars
             PROVE  RuleInv'
  OBVIOUS
<1>1. CASE AddStream \/ GroupsDone \/ NoCore \/ AssignDone \/ CreateRuleFails
  BY <1>1 DEF AddStream, GroupsDone, NoCore, AssignDone, CreateRuleFails, RuleInv
<1>2. ASSUME NEW ip \in todo, AssignQueue(ip)
      PROVE  RuleInv'
  BY <1>2 DEF AssignQueue, RuleInv
<1>3. CASE FlushRules
  BY <1>3 DEF FlushRules, RuleInv, queueVars
<1>4. ASSUME NEW k \in todoRules, CreateRule(k)
      PROVE  RuleInv'
  <2>1. /\ pc = "rules" /\ pc' = pc /\ rxCoreMap' = rxCoreMap
        /\ todoRules' = todoRules \ {k} /\ k \in DOMAIN rxCoreMap
        /\ rules' = Put(rules, rxCoreMap[k], k[2])
    BY <1>4 DEF CreateRule, queueVars, TypeOK
  <2>2. /\ DOMAIN rules' = DOMAIN rules \cup {rxCoreMap[k]}
        /\ rules'[rxCoreMap[k]] = k[2]
        /\ \A ip \in DOMAIN rules : ip # rxCoreMap[k] => rules'[ip] = rules[ip]
    BY <2>1 DEF Put
  <2>3. \A l \in DOMAIN rxCoreMap : l # k => rxCoreMap[l] # rxCoreMap[k]
    BY <2>1 DEF QueueInv
  <2>4. QED
    BY <2>1, <2>2, <2>3 DEF RuleInv
<1>5. CASE RulesDone
  BY <1>5 DEF RulesDone, RuleInv, queueVars, ruleVars
<1>6. CASE UNCHANGED vars
  BY <1>6 DEF vars, RuleInv
<1>7. QED
  BY <1>1, <1>2, <1>3, <1>4, <1>5, <1>6 DEF Next

-----------------------------------------------------------------------------
(* Together.                                                               *)
IInv == TypeOK /\ GroupInv /\ QueueInv /\ RuleInv

(* The inductive invariant is one.                                         *)
LEMMA InvariantHolds == Spec => []IInv
<1>1. Init => IInv
  <2>1. Init => RuleInv
    BY DEF Init, RuleInv
  <2>2. QED
    BY <2>1, TypeInit, GroupInit, QueueInit DEF IInv
<1>2. IInv /\ [Next]_vars => IInv'
  BY TypeStep, GroupStep, QueueStep, RuleStep DEF IInv
<1>3. QED
  BY <1>1, <1>2, PTL DEF Spec

(***************************************************************************)
(* Every queue is polled by exactly one lcore, whatever streams and cores  *)
(* are configured.                                                         *)
(***************************************************************************)
THEOREM QueuesPolledOnce == Spec => []OneLcorePerQueue
<1>1. IInv => OneLcorePerQueue
  <2> SUFFICES ASSUME IInv, NEW q \in 0..(rxq - 1)
               PROVE  /\ \E c \in Cores : <<c, q>> \in DOMAIN rxCoreMap
                      /\ \A c, d \in Cores :
                           <<c, q>> \in DOMAIN rxCoreMap /\ <<d, q>> \in DOMAIN rxCoreMap
                             => c = d
    BY DEF OneLcorePerQueue
  <2>1. \E c \in Cores : <<c, q>> \in DOMAIN rxCoreMap
    BY DEF IInv, QueueInv
  <2>2. ASSUME NEW c \in Cores, NEW d \in Cores,
               <<c, q>> \in DOMAIN rxCoreMap, <<d, q>> \in DOMAIN rxCoreMap
        PROVE  c = d
    <3>1. <<c, q>>[2] = <<d, q>>[2]
      OBVIOUS
    <3>2. <<c, q>> = <<d, q>>
      BY <2>2, <3>1 DEF IInv, QueueInv
    <3>3. QED
      BY <3>2
  <2>3. QED
    BY <2>1, <2>2
<1>2. QED
  BY InvariantHolds, <1>1, PTL

(***************************************************************************)
(* Once set up, the flow rule of an address leads to a queue that maps     *)
(* exactly the streams of the address, each to the source configured last. *)
(***************************************************************************)
THEOREM FlowsReachTheirSources == Spec => []RoutedAsConfigured
<1>1. IInv => RoutedAsConfigured
  <2> SUFFICES ASSUME IInv, pc = "done", NEW k \in 1..Len(conns)
               PROVE  LET ip == conns[k].ip
                      IN /\ ip \in DOMAIN rules
                         /\ DOMAIN streamMap[rules[ip]] =
                              {conns[j].stream : j \in {i \in 1..Len(conns) : conns[i].ip = ip}}
                         /\ \A st \in DOMAIN streamMap[rules[ip]] :
                              LastSource(<<ip, st>>, streamMap[rules[ip]][st])
    BY DEF RoutedAsConfigured
  <2> DEFINE ip == conns[k].ip
  <2>1. Len(conns) \in Nat /\ pos = Len(conns) + 1 /\ pos - 1 = Len(conns)
    BY DEF IInv, TypeOK, GroupInv
  <2>2. DOMAIN groups = {Key(conns[j]) : j \in 1..Len(conns)}
    BY <2>1 DEF IInv, GroupInv
  <2>3. ip \in GroupedIps
    <3>1. Key(conns[k]) \in DOMAIN groups /\ Key(conns[k])[1] = ip
      BY <2>2 DEF Key
    <3>2. QED
      BY <3>1 DEF GroupedIps
  <2>4. PICK l \in DOMAIN rxCoreMap : rxCoreMap[l] = ip
    BY <2>3 DEF IInv, QueueInv
  <2>5. ip \in DOMAIN rules /\ rules[ip] = l[2]
    BY <2>4 DEF IInv, RuleInv
  <2>6. streamMap[rules[ip]] = StreamsOf(ip)
    BY <2>4, <2>5 DEF IInv, QueueInv
  <2>7. DOMAIN StreamsOf(ip) =
          {conns[j].stream : j \in {i \in 1..Len(conns) : conns[i].ip = ip}}
    <3>1. DOMAIN StreamsOf(ip) = {g[2] : g \in {h \in DOMAIN groups : h[1] = ip}}
      BY DEF StreamsOf
    <3>2. \A j \in 1..Len(conns) :
            Key(conns[j])[1] = conns[j].ip /\ Key(conns[j])[2] = conns[j].stream
      BY DEF Key
    <3>3. QED
      BY <2>2, <3>1, <3>2
  <2>8. ASSUME NEW st \in DOMAIN StreamsOf(ip)
        PROVE  LastSource(<<ip, st>>, StreamsOf(ip)[st])
    <3>1. <<ip, st>> \in DOMAIN groups
      <4>1. PICK j \in 1..Len(conns) : conns[j].ip = ip /\ conns[j].stream = st
        BY <2>7
      <4>2. Key(conns[j]) = <<ip, st>>
        BY <4>1 DEF Key
      <4>3. QED
        BY <2>2, <4>2
    <3>2. StreamsOf(ip)[st] = groups[<<ip, st>>]
      BY DEF StreamsOf
    <3>3. LastBefore(pos, <<ip, st>>, groups[<<ip, st>>])
      BY <3>1 DEF IInv, GroupInv
    <3>4. QED
      BY <2>1, <3>2, <3>3 DEF LastBefore, LastSource
  <2>9. QED
    BY <2>5, <2>6, <2>7, <2>8
<1>2. QED
  BY InvariantHolds, <1>1, PTL

-----------------------------------------------------------------------------
(* While the queues are dealt, the cores up to core_idx have one more than *)
(* the others.                                                             *)
CoresDistinct == \A i, j \in 1..Len(cores) : cores[i] = cores[j] => i = j

QueuesAt(i) == QueuesOfCore(cores[i])

DealtTo(r) ==
  \A i \in 1..Len(cores) :
    /\ IsFiniteSet(QueuesAt(i))
    /\ Cardinality(QueuesAt(i)) = IF i <= coreIdx THEN r + 1 ELSE r

BalanceInv == CoresDistinct => \E r \in Nat : DealtTo(r)

LEMMA BalanceInit == Init => BalanceInv
<1> SUFFICES ASSUME Init
             PROVE  BalanceInv
  OBVIOUS
<1>1. DOMAIN rxCoreMap = {} /\ coreIdx = 0
  BY EmptyMap DEF Init
<1>2. \A i : QueuesAt(i) = {}
  BY <1>1 DEF QueuesAt, QueuesOfCore
<1>3. \A i \in 1..Len(cores) : ~(i <= coreIdx)
  BY <1>1
<1>4. DealtTo(0)
  BY <1>2, <1>3, FS_EmptySet DEF DealtTo
<1> QED
  BY <1>4 DEF BalanceInv

(* A queue more goes to the core after those that have one more already.   *)
LEMMA BalanceAssign ==
  ASSUME TypeOK, BalanceInv, NEW ip \in todo, AssignQueue(ip)
  PROVE  BalanceInv'
<1> SUFFICES ASSUME CoresDistinct'
             PROVE  \E r \in Nat : DealtTo(r)'
  BY DEF BalanceInv
<1>1. PICK at : at = coreIdx + 1
  OBVIOUS
<1>2. PICK new : new = <<cores[at], rxq>>
  OBVIOUS
<1>3. /\ cores' = cores /\ rxq \in Nat /\ Len(cores) \in Nat /\ coreIdx \in Nat
      /\ coreIdx < Len(cores) /\ coreIdx' = IF at = Len(cores) THEN 0 ELSE at
      /\ rxCoreMap' = Put(rxCoreMap, new, ip)
  BY <1>1, <1>2 DEF AssignQueue, AfterCore, inVars, TypeOK
<1>4. at \in 1..Len(cores)
  BY <1>1, <1>3
<1>5. CoresDistinct
  BY <1>3 DEF CoresDistinct
<1>6. PICK r \in Nat : DealtTo(r)
  BY <1>5 DEF BalanceInv
<1>7. DOMAIN rxCoreMap' = DOMAIN rxCoreMap \cup {new} /\ new \notin DOMAIN rxCoreMap
  <2>1. DOMAIN rxCoreMap \subseteq Cores \X (0..(rxq - 1)) /\ rxq \notin 0..(rxq - 1)
    BY <1>3 DEF TypeOK
  <2> QED
    BY <1>2, <1>3, <2>1 DEF Put
<1>8. /\ QueuesAt(at)' = QueuesAt(at) \cup {new} /\ new \notin QueuesAt(at)
      /\ \A i \in 1..Len(cores) : i # at => QueuesAt(i)' = QueuesAt(i)
  <2>1. new[1] = cores[at]
    BY <1>2
  <2>2. \A i \in 1..Len(cores) : i # at => new[1] # cores[i]
    BY <1>4, <1>5, <2>1 DEF CoresDistinct
  <2> QED
    BY <1>3, <1>7, <2>1, <2>2 DEF QueuesAt, QueuesOfCore
<1>9. ASSUME NEW i \in 1..Len(cores)
      PROVE  /\ IsFiniteSet(QueuesAt(i)')
             /\ Cardinality(QueuesAt(i)') = IF i <= at THEN r + 1 ELSE r
  <2>1. /\ IsFiniteSet(QueuesAt(i))
        /\ Cardinality(QueuesAt(i)) = IF i <= coreIdx THEN r + 1 ELSE r
    BY <1>6 DEF DealtTo
  <2>2. CASE i = at
    <3>1. /\ IsFiniteSet(QueuesAt(i) \cup {new})
          /\ Cardinality(QueuesAt(i) \cup {new}) = Cardinality(QueuesAt(i)) + 1
      BY <1>8, <2>1, <2>2, FS_AddElement
    <3>2. ~(i <= coreIdx) /\ i <= at
      BY <1>1, <1>3, <2>2
    <3> QED
      BY <1>8, <2>1, <2>2, <3>1, <3>2
  <2>3. CASE i # at
    <3>1. i <= at <=> i <= coreIdx
      BY <1>1, <1>3, <2>3
    <3> QED
      BY <1>8, <2>1, <2>3, <3>1
  <2> QED
    BY <2>2, <2>3
<1>10. CASE at = Len(cores)
  <2>1. \A i \in 1..Len(cores) : i <= at /\ ~(i <= coreIdx')
    BY <1>3, <1>10
  <2>2. DealtTo(r + 1)'
    BY <1>3, <1>9, <2>1 DEF DealtTo
  <2> QED
    BY <2>2
<1>11. CASE at # Len(cores)
  <2>1. DealtTo(r)'
    BY <1>3, <1>9, <1>11 DEF DealtTo
  <2> QED
    BY <2>1
<1> QED
  BY <1>10, <1>11

LEMMA BalanceStep == TypeOK /\ BalanceInv /\ [Next]_vars => BalanceInv'
<1> SUFFICES ASSUME TypeOK, BalanceInv, [Next]_vars
             PROVE  BalanceInv'
  OBVIOUS
<1>1. CASE UNCHANGED <<cores, coreIdx, rxCoreMap>>
  <2>1. CoresDistinct' <=> CoresDistinct
    BY <1>1 DEF CoresDistinct
  <2>2. \A i : QueuesAt(i)' = QueuesAt(i)
    BY <1>1 DEF QueuesAt, QueuesOfCore
  <2>3. \A r \in Nat : DealtTo(r)' <=> DealtTo(r)
    BY <1>1, <2>2 DEF DealtTo
  <2> QED
    BY <2>1, <2>3 DEF BalanceInv
<1>2. ASSUME NEW ip \in todo, AssignQueue(ip)
      PROVE  BalanceInv'
  BY <1>2, BalanceAssign
<1>3. CASE \/ AddStream \/ GroupsDone \/ NoCore \/ AssignDone \/ FlushRules \/ CreateRuleFails
           \/ RulesDone \/ UNCHANGED vars
  BY <1>1, <1>3 DEF AddStream, GroupsDone, NoCore, AssignDone, FlushRules, CreateRuleFails,
     RulesDone, vars, inVars, queueVars
<1>4. ASSUME NEW k \in todoRules, CreateRule(k)
      PROVE  BalanceInv'
  BY <1>1, <1>4 DEF CreateRule, inVars, queueVars
<1> QED
  BY <1>2, <1>3, <1>4 DEF Next

(***************************************************************************)
(* However many addresses and cores there are: if no core is listed twice, *)
(* no core polls more than one queue more than another.                    *)
(***************************************************************************)
THEOREM QueuesShared == Spec => []QueuesBalanced
<1>1. TypeOK /\ BalanceInv => QueuesBalanced
  <2> SUFFICES ASSUME BalanceInv, CoresDistinct,
                      NEW i \in 1..Len(cores), NEW j \in 1..Len(cores)
               PROVE  Cardinality(QueuesAt(i)) <= Cardinality(QueuesAt(j)) + 1
    BY DEF QueuesBalanced, CoresDistinct, QueuesAt
  <2>1. PICK r \in Nat : DealtTo(r)
    BY DEF BalanceInv
  <2>2. /\ Cardinality(QueuesAt(i)) \in {r, r + 1}
        /\ Cardinality(QueuesAt(j)) \in {r, r + 1}
    BY <2>1 DEF DealtTo
  <2> QED
    BY <2>2
<1> QED
  BY <1>1, BalanceInit, BalanceStep, InvariantHolds, PTL DEF Spec, IInv

-----------------------------------------------------------------------------
(* What rx_runner of each lcore goes through: the queues m_rx_core_map has *)
(* for it, each once, in some order.                                       *)
Polling == {k[1] : k \in DOMAIN rxCoreMap}
ReceiveQueues == 0..(rxq - 1)
QueuesFor(c) == {q \in ReceiveQueues : <<c, q>> \in DOMAIN rxCoreMap}

IsListing(s, S) ==
  /\ s \in Seq(S)
  /\ \A q \in S : \E k \in 1..Len(s) : s[k] = q
  /\ \A j, k \in 1..Len(s) : s[j] = s[k] => j = k

QueueListing(f) ==
  /\ DOMAIN f = Polling /\ f = [c \in Polling |-> f[c]]
  /\ \A c \in Polling : IsListing(f[c], QueuesFor(c))

(* A finite set can be listed.                                             *)
LEMMA ListingExists ==
  ASSUME NEW S, IsFiniteSet(S)
  PROVE  \E s : IsListing(s, S)
<1>0. PICK n \in Nat : ExistsBijection(1..n, S)
  BY FS_CardinalityType
<1>1. PICK f : f \in Bijection(1..n, S)
  BY <1>0 DEF ExistsBijection
<1>2. f \in [1..n -> S] /\ (\A q \in S : \E k \in 1..n : f[k] = q)
  BY <1>1 DEF Bijection, Surjection
<1>3. \A j, k \in 1..n : f[j] = f[k] => j = k
  BY <1>1, <1>2 DEF Bijection, Injection, IsInjective
<1>4. f \in Seq(S) /\ Len(f) = n
  BY <1>2
<1> QED
  BY <1>2, <1>3, <1>4 DEF IsListing

(* The constructor leaves what RxPath assumes of QueuesOf.                 *)
ListsPolled ==
  pc \in {"flush", "rules", "done"} =>
    /\ IsFiniteSet(Polling)
    /\ \E f : QueueListing(f)
    /\ \A f : QueueListing(f) =>
         /\ HaveQueues(Polling, ReceiveQueues, f)
         /\ AllServed(Polling, ReceiveQueues, f)
         /\ NoneShared(Polling, f)

(* An lcore that polls is a core of the list and has a queue.              *)
LEMMA PollingCores ==
  ASSUME TypeOK, NEW c \in Polling
  PROVE  c \in Cores /\ \E q : q \in QueuesFor(c)
<1>1. PICK k \in DOMAIN rxCoreMap : k[1] = c
  BY DEF Polling
<1>2. k \in Cores \X ReceiveQueues
  BY DEF TypeOK, ReceiveQueues
<1> QED
  BY <1>1, <1>2 DEF QueuesFor

LEMMA PollingFinite ==
  ASSUME TypeOK, OneLcorePerQueue, pc \in {"flush", "rules", "done"}
  PROVE  IsFiniteSet(Polling) /\ \A c : IsFiniteSet(QueuesFor(c))
<1> DEFINE Of == [q \in ReceiveQueues |-> CHOOSE c \in Cores : <<c, q>> \in DOMAIN rxCoreMap]
<1>1. IsFiniteSet(ReceiveQueues)
  <2>1. 0 \in Int /\ rxq - 1 \in Int
    BY DEF TypeOK
  <2>2. IsFiniteSet(0..(rxq - 1))
    BY ONLY <2>1, FS_Interval
  <2> QED
    BY <2>2 DEF ReceiveQueues
<1>2. ASSUME NEW q \in ReceiveQueues
      PROVE  Of[q] \in Cores /\ <<Of[q], q>> \in DOMAIN rxCoreMap
  <2>1. \E c \in Cores : <<c, q>> \in DOMAIN rxCoreMap
    BY DEF OneLcorePerQueue, ReceiveQueues
  <2> QED
    BY <2>1
<1>3. ASSUME NEW q \in ReceiveQueues
      PROVE  Of[q] \in Polling
  <2> DEFINE k == <<Of[q], q>>
  <2>1. k \in DOMAIN rxCoreMap /\ k[1] = Of[q]
    BY <1>2
  <2> HIDE DEF k
  <2> QED
    BY <2>1 DEF Polling
<1>4. ASSUME NEW c \in Polling
      PROVE  \E q \in ReceiveQueues : Of[q] = c
  <2>1. PICK q \in ReceiveQueues : <<c, q>> \in DOMAIN rxCoreMap
    BY PollingCores DEF QueuesFor
  <2> QED
    BY <1>2, <2>1, PollingCores DEF OneLcorePerQueue, ReceiveQueues
<1>5. Of \in Surjection(ReceiveQueues, Polling)
  <2>1. Of \in [ReceiveQueues -> Polling]
    BY <1>3
  <2> HIDE DEF Of
  <2> QED
    BY <1>4, <2>1 DEF Surjection
<1>6. IsFiniteSet(Polling)
  <2> HIDE DEF Of
  <2> QED
    BY <1>1, <1>5, FS_Surjection
<1>7. \A c : QueuesFor(c) \subseteq ReceiveQueues
  BY DEF QueuesFor
<1> QED
  BY <1>1, <1>6, <1>7, FS_Subset

(***************************************************************************)
(* What RxPath assumes of the queues of the lcores, the constructor brings *)
(* about: whatever was configured, the lists rx_runner goes through share  *)
(* no queue and leave none out, and no lcore is launched without a queue.  *)
(***************************************************************************)
THEOREM ListsAsAssumed == Spec => []ListsPolled
<1>1. ASSUME TypeOK, OneLcorePerQueue
      PROVE  ListsPolled
  <2> SUFFICES ASSUME pc \in {"flush", "rules", "done"}
               PROVE  /\ IsFiniteSet(Polling)
                      /\ \E f : QueueListing(f)
                      /\ \A f : QueueListing(f) =>
                           /\ HaveQueues(Polling, ReceiveQueues, f)
                           /\ AllServed(Polling, ReceiveQueues, f)
                           /\ NoneShared(Polling, f)
    BY DEF ListsPolled
  <2>1. IsFiniteSet(Polling) /\ \A c : IsFiniteSet(QueuesFor(c))
    BY <1>1, PollingFinite
  <2>2. \E f : QueueListing(f)
    <3> DEFINE g == [c \in Polling |-> CHOOSE s : IsListing(s, QueuesFor(c))]
    <3>1. \A c \in Polling : IsListing(g[c], QueuesFor(c))
      BY <2>1, ListingExists
    <3>2. DOMAIN g = Polling /\ g = [c \in Polling |-> g[c]]
      OBVIOUS
    <3> HIDE DEF g
    <3> QED
      BY <3>1, <3>2 DEF QueueListing
  <2>3. ASSUME NEW f, QueueListing(f)
        PROVE  /\ HaveQueues(Polling, ReceiveQueues, f)
               /\ AllServed(Polling, ReceiveQueues, f)
               /\ NoneShared(Polling, f)
    <3>1. ASSUME NEW c \in Polling
          PROVE  /\ f[c] \in Seq(ReceiveQueues) /\ f[c] # <<>>
                 /\ \A k \in 1..Len(f[c]) : <<c, f[c][k]>> \in DOMAIN rxCoreMap
      <4>1. f[c] \in Seq(QueuesFor(c)) /\ \A q \in QueuesFor(c) : \E k \in 1..Len(f[c]) : f[c][k] = q
        BY <2>3 DEF QueueListing, IsListing
      <4>2. \E q : q \in QueuesFor(c)
        BY <1>1, PollingCores
      <4>3. \A k \in 1..Len(f[c]) : f[c][k] \in QueuesFor(c)
        BY <4>1
      <4>4. \A k \in 1..Len(f[c]) : f[c][k] \in ReceiveQueues
        BY <4>3 DEF QueuesFor
      <4>5. f[c] \in Seq(ReceiveQueues)
        BY <4>1, <4>4
      <4> QED
        BY <4>1, <4>2, <4>3, <4>5 DEF QueuesFor
    <3>2. HaveQueues(Polling, ReceiveQueues, f)
      BY <2>3, <3>1 DEF HaveQueues, QueueListing
    <3>3. ASSUME NEW q \in ReceiveQueues
          PROVE  \E c \in Polling : \E k \in 1..Len(f[c]) : f[c][k] = q
      <4>1. PICK c \in Cores : <<c, q>> \in DOMAIN rxCoreMap
        BY <1>1 DEF OneLcorePerQueue, ReceiveQueues
      <4>2. c \in Polling /\ q \in QueuesFor(c)
        BY <4>1 DEF Polling, QueuesFor
      <4> QED
        BY <2>3, <4>2 DEF QueueListing, IsListing
    <3>4. ASSUME NEW c \in Polling, NEW d \in Polling,
                 NEW j \in 1..Len(f[c]), NEW k \in 1..Len(f[d]), f[c][j] = f[d][k]
          PROVE  c = d /\ j = k
      <4>1. c \in Cores /\ d \in Cores /\ f[c][j] \in ReceiveQueues
        BY <1>1, <3>1, PollingCores
      <4>2. c = d
        BY <1>1, <3>1, <3>4, <4>1 DEF OneLcorePerQueue, ReceiveQueues
      <4> QED
        BY <2>3, <3>4, <4>2 DEF QueueListing, IsListing
    <3> QED
      BY <3>2, <3>3, <3>4 DEF AllServed, NoneShared
  <2> QED
    BY <2>1, <2>2, <2>3
<1> QED
  BY <1>1, TypeCorrect, QueuesPolledOnce, PTL

-----------------------------------------------------------------------------
(***************************************************************************)
(* The set-up of a connection implements QueueAssignment: a step is one of *)
(* the constructor or the flow steering, or leaves the wrapper alone.  So  *)
(* what is proved above holds of every set-up.                             *)
(***************************************************************************)
LEMMA SetupStepAssigns == [SetupNext]_allVars => [Next]_vars
<1> SUFFICES ASSUME [SetupNext]_allVars
             PROVE  [Next]_vars
  OBVIOUS
<1>1. CASE \/ Register \/ ReplaceCrashes \/ AllocateExits \/ ResetDevice \/ ConfigureDevice
           \/ SetUpTxQueue \/ CheckDevice \/ InitThrows
  BY <1>1 DEF Register, ReplaceCrashes, AllocateExits, ResetDevice, ConfigureDevice,
     SetUpTxQueue, CheckDevice, InitThrows, Goto
<1>2. CASE AllocatePool \/ AllocateGarpPool \/ SetUpRxQueue \/ StartDevice
  BY <1>2 DEF AllocatePool, AllocateGarpPool, SetUpRxQueue, StartDevice
<1>3. CASE FindDevice
  BY <1>3 DEF FindDevice, Goto
<1>4. CASE Construct \/ ConstructCrashes \/ Constructed
  BY <1>4 DEF Construct, ConstructCrashes, Constructed, Next
<1>5. CASE Flush \/ FlushFails \/ Steer \/ SteerExits \/ SetupDone
  BY <1>5 DEF Flush, FlushFails, Steer, SteerExits, SetupDone, Next
<1>6. CASE UNCHANGED allVars
  BY <1>6 DEF allVars, vars
<1> QED
  BY <1>1, <1>2, <1>3, <1>4, <1>5, <1>6 DEF SetupNext

THEOREM SetupImplementsAssignment == SetupSpec => Spec
<1>1. SetupInit => Init
  BY DEF SetupInit
<1> QED
  BY <1>1, SetupStepAssigns, PTL DEF SetupSpec, Spec

(* What is proved of the assignment holds of the set-up.                   *)
LEMMA AssignmentHolds == SetupSpec => []IInv
  BY SetupImplementsAssignment, InvariantHolds, PTL

-----------------------------------------------------------------------------
(* Only addresses of senders get a queue and a rule.                       *)
SenderInv ==
  /\ todo \subseteq Senders
  /\ \A k \in DOMAIN rxCoreMap : rxCoreMap[k] \in Senders
  /\ DOMAIN rules \subseteq Senders

LEMMA SenderStep == IInv /\ SenderInv /\ [Next]_vars => SenderInv'
<1> SUFFICES ASSUME IInv, SenderInv, [Next]_vars
             PROVE  SenderInv'
  OBVIOUS
<1>1. Senders' = Senders
  BY DEF Senders, Next, vars, inVars, AddStream, GroupsDone, AssignQueue, NoCore, AssignDone,
     FlushRules, CreateRule, CreateRuleFails, RulesDone
<1>2. CASE AddStream \/ NoCore \/ AssignDone \/ CreateRuleFails \/ RulesDone \/ UNCHANGED vars
  BY <1>1, <1>2 DEF SenderInv, AddStream, NoCore, AssignDone, CreateRuleFails, RulesDone,
     vars, queueVars, ruleVars
<1>3. CASE GroupsDone
  <2>1. todo' = {k[1] : k \in DOMAIN groups} /\ UNCHANGED <<rxCoreMap, rules>>
    BY <1>3 DEF GroupsDone, ruleVars
  <2>2. \A k \in 1..(pos - 1) : k \in 1..Len(conns) /\ Key(conns[k])[1] = conns[k].ip
    BY DEF IInv, TypeOK, Key
  <2>3. todo' \subseteq Senders
    BY <2>1, <2>2 DEF IInv, GroupInv, Senders
  <2> QED
    BY <1>1, <2>1, <2>3 DEF SenderInv
<1>4. ASSUME NEW ip \in todo, AssignQueue(ip)
      PROVE  SenderInv'
  <2>1. /\ \E key : rxCoreMap' = Put(rxCoreMap, key, ip)
        /\ todo' \subseteq todo /\ rules' = rules
    BY <1>4 DEF AssignQueue, ruleVars
  <2>2. \A k \in DOMAIN rxCoreMap' : rxCoreMap'[k] \in Senders
    BY <2>1 DEF Put, SenderInv
  <2> QED
    BY <1>1, <2>1, <2>2 DEF SenderInv
<1>5. CASE FlushRules
  BY <1>1, <1>5, EmptyMap DEF FlushRules, SenderInv, queueVars
<1>6. ASSUME NEW k \in todoRules, CreateRule(k)
      PROVE  SenderInv'
  <2>1. rules' = Put(rules, rxCoreMap[k], k[2]) /\ k \in DOMAIN rxCoreMap
    BY <1>6 DEF CreateRule, IInv, TypeOK
  <2>2. DOMAIN rules' = DOMAIN rules \cup {rxCoreMap[k]}
    BY <2>1 DEF Put
  <2> QED
    BY <1>1, <1>6, <2>1, <2>2 DEF SenderInv, CreateRule, queueVars
<1> QED
  BY <1>2, <1>3, <1>4, <1>5, <1>6 DEF Next

-----------------------------------------------------------------------------
(* The set-up: which steps come after which, and what the device has by    *)
(* then.                                                                   *)
Queue(n) == 0..(n - 1)

OrderInv ==
  /\ step = "find" => pc = "group"
  /\ step = "construct" => pc \in {"group", "assign"}
  /\ step \in {"register", "pools", "reset", "configure", "queues", "start", "check"} =>
       pc = "flush"
  /\ step = "steer" => pc \in {"flush", "rules"}
  /\ step = "ready" => pc = "done"
  /\ pc \in {"group", "assign", "flush"} => left = {} /\ ~flushed
  /\ flushed => left = {}

DeviceInv ==
  /\ step \in {"start", "check", "steer", "ready"} => DOMAIN rxQueues = Queue(rxq)
  /\ step \in {"check", "steer", "ready"} => devUp

PoolInv ==
  /\ \E n \in 0..rxq : DOMAIN mbufPools = Queue(n)
  /\ \E n \in 0..rxq : DOMAIN rxQueues = Queue(n)

OnceInv ==
  device \in earlier =>
    /\ GarpPoolName(device) \in poolNames
    /\ step \in {"find", "construct", "register", "pools", "thrown", "crashed", "exited"}

SetupInv ==
  /\ IInv /\ SenderInv
  /\ SetupTypeOK /\ OrderInv /\ DeviceInv /\ PoolInv /\ OnceInv

(* The number of queues numbered from 0 tells which they are.              *)
LEMMA QueueCount ==
  ASSUME NEW n \in Nat
  PROVE  Cardinality(Queue(n)) = n
  BY FS_Interval DEF Queue

LEMMA SetupInvInit == SetupInit => SetupInv
<1> SUFFICES ASSUME SetupInit
             PROVE  SetupInv
  OBVIOUS
<1>1. Init /\ rxq = 0 /\ pc = "group" /\ todo = {} /\ rxCoreMap = Empty /\ rules = Empty
  BY DEF SetupInit, Init
<1>2. IInv
  <2>1. RuleInv
    BY <1>1 DEF RuleInv
  <2> QED
    BY <1>1, <2>1, TypeInit, GroupInit, QueueInit DEF IInv
<1>3. SenderInv
  BY <1>1, EmptyMap DEF SenderInv
<1>4. SetupTypeOK
  BY EmptyMap DEF SetupInit, SetupTypeOK
<1>5. OrderInv /\ DeviceInv
  BY <1>1 DEF SetupInit, OrderInv, DeviceInv
<1>6. PoolInv
  <2>1. Queue(0) = {}
    BY DEF Queue
  <2> QED
    BY <1>1, <2>1, EmptyMap DEF SetupInit, PoolInv
<1>7. OnceInv
  BY DEF SetupInit, OnceInv, EarlierPools
<1> QED
  BY <1>2, <1>3, <1>4, <1>5, <1>6, <1>7 DEF SetupInv

(* The queues only become more.                                            *)
LEMMA QueuesGrow ==
  ASSUME TypeOK, [Next]_vars
  PROVE  rxq' \in Nat /\ rxq' >= rxq
  BY DEF TypeOK, Next, vars, queueVars, AddStream, GroupsDone, AssignQueue, NoCore, AssignDone,
     FlushRules, CreateRule, CreateRuleFails, RulesDone

(* Steps that leave pools and receive queues alone.                        *)
LEMMA PoolsKept ==
  ASSUME TypeOK, SetupTypeOK, PoolInv, [Next]_vars,
         UNCHANGED <<earlier, device, poolNames, mbufPools, rxQueues>>,
         step' \in {"find", "construct", "register", "pools", "reset", "configure", "queues",
                    "start", "check", "steer", "ready", "thrown", "crashed", "exited"},
         devUp' \in BOOLEAN, flushed' \in BOOLEAN, left' \subseteq Ips \X Nat
  PROVE  SetupTypeOK' /\ PoolInv'
<1>1. rxq \in Nat /\ rxq' \in Nat /\ rxq' >= rxq
  BY QueuesGrow DEF TypeOK
<1>2. SetupTypeOK'
  BY <1>1 DEF SetupTypeOK, PoolName
<1>3. PoolInv'
  BY <1>1 DEF PoolInv, Queue
<1> QED
  BY <1>2, <1>3

(* Every step of the set-up keeps the invariant.                           *)
LEMMA SetupStep == SetupInv /\ [SetupNext]_allVars => SetupInv'
<1> SUFFICES ASSUME SetupInv, [SetupNext]_allVars
             PROVE  SetupInv'
  OBVIOUS
<1> USE DEF SetupInv
<1>1. [Next]_vars
  BY SetupStepAssigns
<1>2. IInv' /\ SenderInv'
  BY <1>1, SenderStep, TypeStep, GroupStep, QueueStep, RuleStep DEF IInv
<1>3. TypeOK /\ rxq \in Nat
  BY DEF IInv, TypeOK
<1> DEFINE Rest == SetupTypeOK /\ OrderInv /\ DeviceInv /\ PoolInv /\ OnceInv
<1>4. CASE FindDevice \/ Register \/ ReplaceCrashes \/ AllocateExits \/ ResetDevice
           \/ ConfigureDevice \/ CheckDevice \/ InitThrows
  <2>1. UNCHANGED <<vars, earlier, device, poolVars, nicVars>>
    BY <1>4 DEF FindDevice, Register, ReplaceCrashes, AllocateExits, ResetDevice,
       ConfigureDevice, CheckDevice, InitThrows, Goto
  <2>2. \/ step = "find" /\ step' \in {"construct", "thrown"}
        \/ step = "register" /\ step' \in {"pools", "crashed"}
        \/ step = "pools" /\ step' = "exited"
        \/ step = "reset" /\ step' \in {"configure", "thrown"}
        \/ step = "configure" /\ step' \in {"queues", "thrown"}
        \/ step \in {"queues", "start"} /\ step' = "thrown"
        \/ step = "check" /\ step' \in {"steer", "thrown"}
    BY <1>4 DEF FindDevice, Register, ReplaceCrashes, AllocateExits, ResetDevice,
       ConfigureDevice, CheckDevice, InitThrows, Goto
  <2>3. SetupTypeOK' /\ PoolInv'
    BY <1>1, <1>3, <2>1, <2>2, PoolsKept DEF poolVars, nicVars, SetupTypeOK
  <2>4. OrderInv'
    BY <2>1, <2>2 DEF OrderInv, vars, nicVars
  <2>5. DeviceInv'
    BY <2>1, <2>2 DEF DeviceInv, vars, nicVars, Queue
  <2>6. OnceInv'
    BY <2>1, <2>2 DEF OnceInv, poolVars, GarpPoolName
  <2> QED
    BY <1>2, <2>3, <2>4, <2>5, <2>6
<1>5. CASE Construct
  <2>1. /\ step = "construct" /\ UNCHANGED setupVars
        /\ AddStream \/ GroupsDone \/ \E ip \in todo : AssignQueue(ip)
    BY <1>5 DEF Construct
  <2>2. pc' \in {"group", "assign"}
    BY <2>1 DEF AddStream, GroupsDone, AssignQueue
  <2>3. SetupTypeOK' /\ PoolInv'
    BY <1>1, <1>3, <2>1, PoolsKept DEF setupVars, poolVars, nicVars, SetupTypeOK
  <2>4. OrderInv' /\ DeviceInv'
    BY <2>1, <2>2 DEF OrderInv, DeviceInv, setupVars, nicVars
  <2>5. OnceInv'
    BY <2>1 DEF OnceInv, setupVars, poolVars, GarpPoolName
  <2> QED
    BY <1>2, <2>3, <2>4, <2>5
<1>6. CASE ConstructCrashes \/ Constructed \/ SteerExits \/ SetupDone
  <2>1. UNCHANGED <<earlier, device, poolVars, nicVars, rxq>>
    BY <1>6 DEF ConstructCrashes, Constructed, SteerExits, SetupDone, NoCore, AssignDone,
       CreateRuleFails, RulesDone, queueVars
  <2>2. \/ step = "construct" /\ step' = "crashed" /\ pc' = "crashed"
        \/ step = "construct" /\ step' = "register" /\ pc' = "flush" /\ pc = "assign"
        \/ step = "steer" /\ step' = "exited" /\ pc' = "exited"
        \/ step = "steer" /\ step' = "ready" /\ pc' = "done"
    BY <1>6 DEF ConstructCrashes, Constructed, SteerExits, SetupDone, NoCore, AssignDone,
       CreateRuleFails, RulesDone
  <2>3. SetupTypeOK' /\ PoolInv'
    BY <1>1, <1>3, <2>1, <2>2, PoolsKept DEF poolVars, nicVars, SetupTypeOK
  <2>4. OrderInv'
    BY <2>1, <2>2 DEF OrderInv, nicVars
  <2>5. DeviceInv'
    BY <2>1, <2>2 DEF DeviceInv, nicVars, Queue
  <2>6. OnceInv'
    BY <2>1, <2>2 DEF OnceInv, poolVars, GarpPoolName
  <2> QED
    BY <1>2, <2>3, <2>4, <2>5, <2>6
<1>7. CASE AllocatePool
  <2>1. PICK n \in 0..rxq : DOMAIN mbufPools = Queue(n)
    BY DEF PoolInv
  <2>2. NextPool = n
    BY <1>3, <2>1, QueueCount DEF NextPool
  <2>3. /\ step = "pools" /\ n < rxq
        /\ mbufPools' = Put(mbufPools, n, PoolName(device, n))
        /\ poolNames' = poolNames \cup {PoolName(device, n)}
        /\ UNCHANGED <<vars, step, earlier, device, nicVars>>
    BY <1>7, <2>2 DEF AllocatePool, PoolsNeeded
  <2>4. /\ DOMAIN mbufPools' = DOMAIN mbufPools \cup {n} /\ mbufPools'[n] = PoolName(device, n)
        /\ n \notin DOMAIN mbufPools
        /\ \A q \in DOMAIN mbufPools : mbufPools'[q] = mbufPools[q]
    BY <1>3, <2>1, <2>3 DEF Put, Queue
  <2>5. DOMAIN mbufPools' = Queue(n + 1) /\ n + 1 \in 0..rxq
    BY <1>3, <2>1, <2>3, <2>4 DEF Queue
  <2>6. PoolInv'
    BY <2>3, <2>5 DEF PoolInv, vars, nicVars, Queue
  <2>7. SetupTypeOK'
    <3>1. DOMAIN mbufPools' \subseteq 0..(rxq - 1)
      BY <1>3, <2>5 DEF Queue
    <3>2. \A q \in DOMAIN mbufPools' :
            mbufPools'[q] = PoolName(device, q) /\ mbufPools'[q] \in poolNames'
      BY <2>3, <2>4 DEF SetupTypeOK
    <3>3. DOMAIN rxQueues \subseteq DOMAIN mbufPools'
          /\ \A q \in DOMAIN rxQueues : rxQueues[q] = mbufPools'[q]
      BY <2>4 DEF SetupTypeOK
    <3> QED
      BY <2>3, <3>1, <3>2, <3>3 DEF SetupTypeOK, vars, nicVars, PoolName
  <2>8. OrderInv' /\ DeviceInv' /\ OnceInv'
    BY <2>3 DEF OrderInv, DeviceInv, OnceInv, vars, nicVars, GarpPoolName
  <2> QED
    BY <1>2, <2>6, <2>7, <2>8
<1>8. CASE AllocateGarpPool
  <2>1. /\ step = "pools" /\ step' = "reset" /\ GarpPoolName(device) \notin poolNames
        /\ poolNames' = poolNames \cup {GarpPoolName(device)}
        /\ UNCHANGED <<vars, earlier, device, mbufPools, nicVars>>
    BY <1>8 DEF AllocateGarpPool, PoolTaken
  <2>2. device \notin earlier
    BY <2>1 DEF OnceInv
  <2>3. SetupTypeOK'
    BY <2>1 DEF SetupTypeOK, vars, nicVars, PoolName
  <2>4. OrderInv' /\ DeviceInv' /\ PoolInv'
    BY <2>1 DEF OrderInv, DeviceInv, PoolInv, vars, nicVars, Queue
  <2>5. OnceInv'
    BY <2>1, <2>2 DEF OnceInv
  <2> QED
    BY <1>2, <2>3, <2>4, <2>5
<1>9. CASE SetUpRxQueue
  <2>1. PICK n \in 0..rxq : DOMAIN rxQueues = Queue(n)
    BY DEF PoolInv
  <2>2. NextRxQueue = n
    BY <1>3, <2>1, QueueCount DEF NextRxQueue
  <2>3. /\ step = "queues" /\ n < rxq /\ n \in DOMAIN mbufPools
        /\ rxQueues' = Put(rxQueues, n, mbufPools[n])
        /\ UNCHANGED <<vars, step, earlier, device, poolVars, devUp, flushed, left>>
    BY <1>9, <2>2 DEF SetUpRxQueue
  <2>4. /\ DOMAIN rxQueues' = DOMAIN rxQueues \cup {n} /\ rxQueues'[n] = mbufPools[n]
        /\ n \notin DOMAIN rxQueues
        /\ \A q \in DOMAIN rxQueues : rxQueues'[q] = rxQueues[q]
    BY <1>3, <2>1, <2>3 DEF Put, Queue
  <2>5. DOMAIN rxQueues' = Queue(n + 1) /\ n + 1 \in 0..rxq
    BY <1>3, <2>1, <2>3, <2>4 DEF Queue
  <2>6. PoolInv'
    BY <2>3, <2>5 DEF PoolInv, vars, poolVars, Queue
  <2>7. SetupTypeOK'
    BY <1>3, <2>3, <2>4 DEF SetupTypeOK, vars, poolVars, PoolName
  <2>8. OrderInv' /\ DeviceInv' /\ OnceInv'
    BY <2>3 DEF OrderInv, DeviceInv, OnceInv, vars, poolVars, GarpPoolName
  <2> QED
    BY <1>2, <2>6, <2>7, <2>8
<1>10. CASE SetUpTxQueue
  <2>1. PICK n \in 0..rxq : DOMAIN rxQueues = Queue(n)
    BY DEF PoolInv
  <2>2. NextRxQueue = n
    BY <1>3, <2>1, QueueCount DEF NextRxQueue
  <2>3. /\ step = "queues" /\ n = rxq /\ step' = "start"
        /\ UNCHANGED <<vars, earlier, device, poolVars, nicVars>>
    BY <1>10, <2>2 DEF SetUpTxQueue, Goto
  <2>4. SetupTypeOK' /\ PoolInv'
    BY <1>1, <1>3, <2>3, PoolsKept DEF poolVars, nicVars, SetupTypeOK
  <2>5. OrderInv'
    BY <2>3 DEF OrderInv, vars, nicVars
  <2>6. DeviceInv'
    BY <2>1, <2>3 DEF DeviceInv, vars, nicVars, Queue
  <2>7. OnceInv'
    BY <2>3 DEF OnceInv, poolVars, GarpPoolName
  <2> QED
    BY <1>2, <2>4, <2>5, <2>6, <2>7
<1>11. CASE StartDevice
  <2>1. /\ step = "start" /\ step' = "check" /\ devUp'
        /\ UNCHANGED <<vars, earlier, device, poolVars, rxQueues, flushed, left>>
    BY <1>11 DEF StartDevice
  <2>2. SetupTypeOK' /\ PoolInv'
    BY <1>1, <1>3, <1>11, <2>1, PoolsKept DEF poolVars, SetupTypeOK, StartDevice
  <2>3. OrderInv' /\ DeviceInv'
    BY <2>1 DEF OrderInv, DeviceInv, vars, Queue
  <2>4. OnceInv'
    BY <2>1 DEF OnceInv, poolVars, GarpPoolName
  <2> QED
    BY <1>2, <2>2, <2>3, <2>4
<1>12. CASE Flush \/ FlushFails
  <2>1. /\ step = "steer" /\ pc = "flush" /\ pc' = "rules" /\ rxq' = rxq
        /\ UNCHANGED <<step, earlier, device, poolVars, rxQueues, devUp>>
    BY <1>12 DEF Flush, FlushFails, FlushRules, queueVars
  <2>2. left = {} /\ ~flushed
    BY <2>1 DEF OrderInv
  <2>3. \/ flushed' = TRUE /\ left' = {}
        \/ flushed' = flushed /\ \E ip \in Ips : left' = {<<ip, 0>>}
    BY <1>12, <2>2 DEF Flush, FlushFails
  <2>4. flushed' \in BOOLEAN /\ left' \subseteq Ips \X Nat
    <3>1. flushed' \in BOOLEAN
      BY <2>3, Zenon DEF SetupTypeOK
    <3>2. \A ip \in Ips : <<ip, 0>> \in Ips \X Nat
      OBVIOUS
    <3> QED
      BY <2>3, <3>1, <3>2
  <2>5. SetupTypeOK' /\ PoolInv'
    BY <1>1, <1>3, <2>1, <2>4, PoolsKept DEF poolVars, SetupTypeOK
  <2>6. OrderInv'
    BY <2>1, <2>2, <2>3 DEF OrderInv
  <2>7. DeviceInv' /\ OnceInv'
    BY <2>1 DEF DeviceInv, OnceInv, poolVars, GarpPoolName, Queue
  <2> QED
    BY <1>2, <2>5, <2>6, <2>7
<1>13. CASE Steer
  <2>1. /\ step = "steer" /\ UNCHANGED setupVars
        /\ pc = "rules" /\ pc' = pc /\ rxq' = rxq
    BY <1>13 DEF Steer, CreateRule, queueVars
  <2>2. SetupTypeOK' /\ PoolInv'
    BY <1>1, <1>3, <2>1, PoolsKept DEF setupVars, poolVars, nicVars, SetupTypeOK
  <2>3. OrderInv' /\ DeviceInv' /\ OnceInv'
    BY <2>1 DEF OrderInv, DeviceInv, OnceInv, setupVars, poolVars, nicVars, GarpPoolName, Queue
  <2> QED
    BY <1>2, <2>2, <2>3
<1>14. CASE UNCHANGED allVars
  <2>1. UNCHANGED <<pc, rxq, step, earlier, device, poolNames, mbufPools, rxQueues, devUp,
                    flushed, left>>
    BY <1>14 DEF allVars, vars
  <2>2. SetupTypeOK' /\ PoolInv'
    BY <1>1, <1>3, <2>1, PoolsKept DEF SetupTypeOK
  <2>3. OrderInv' /\ DeviceInv' /\ OnceInv'
    BY <2>1 DEF OrderInv, DeviceInv, OnceInv, GarpPoolName, Queue
  <2> QED
    BY <1>2, <2>2, <2>3
<1> QED
  BY <1>4, <1>5, <1>6, <1>7, <1>8, <1>9, <1>10, <1>11, <1>12, <1>13, <1>14 DEF SetupNext

LEMMA SetupInvHolds == SetupSpec => []SetupInv
  BY SetupInvInit, SetupStep, PTL DEF SetupSpec

(***************************************************************************)
(* SetupTypeOK: allocate_mbufs makes no pool but one for every queue the   *)
(* constructor has assigned, and iface_init gives each queue its own.      *)
(***************************************************************************)
THEOREM SetupTypeCorrect == SetupSpec => []SetupTypeOK
<1>1. SetupInv => SetupTypeOK
  BY DEF SetupInv
<1> QED
  BY <1>1, SetupInvHolds, PTL

(***************************************************************************)
(* No device is set up for two connections of a process: the name of the   *)
(* GARP pool of the first stays taken.                                     *)
(***************************************************************************)
THEOREM DevicesSetUpOnce == SetupSpec => []DeviceSetUpOnce
<1>1. SetupInv => DeviceSetUpOnce
  BY DEF SetupInv, OnceInv, DeviceSetUpOnce
<1> QED
  BY <1>1, SetupInvHolds, PTL

(***************************************************************************)
(* A connection that is set up, and the flush succeeded: the NIC steers    *)
(* the frames of every sender, and no others, to a queue of the started    *)
(* device that is polled, has its own pool and knows the sender's streams. *)
(***************************************************************************)
THEOREM SendersSteered == SetupSpec => []SteeredAsConfigured
<1>1. SetupInv /\ RoutedAsConfigured /\ OneLcorePerQueue => SteeredAsConfigured
  <2> SUFFICES ASSUME SetupInv, RoutedAsConfigured, OneLcorePerQueue, step = "ready", flushed
               PROVE  /\ devUp
                      /\ \A ip \in Ips : SteeredTo(ip) # {} => ip \in Senders
                      /\ \A ip \in Senders : \E q \in DOMAIN rxQueues :
                           /\ SteeredTo(ip) = {q}
                           /\ rxQueues[q] = PoolName(device, q)
                           /\ \E c \in Cores : <<c, q>> \in DOMAIN rxCoreMap
                           /\ DOMAIN streamMap[q] =
                                {c.stream : c \in {conns[k] : k \in 1..Len(conns)}
                                                     \cap {d \in Conn : d.ip = ip}}
    BY DEF SteeredAsConfigured
  <2>1. pc = "done" /\ left = {} /\ devUp /\ DOMAIN rxQueues = Queue(rxq)
    BY DEF SetupInv, OrderInv, DeviceInv
  <2>2. \A ip : SteeredTo(ip) = {rules[i] : i \in {ip} \cap DOMAIN rules}
    BY <2>1 DEF SteeredTo
  <2>3. \A ip \in Ips : SteeredTo(ip) # {} => ip \in Senders
    BY <2>2 DEF SetupInv, SenderInv
  <2>4. ASSUME NEW ip \in Senders
        PROVE  \E q \in DOMAIN rxQueues :
                 /\ SteeredTo(ip) = {q}
                 /\ rxQueues[q] = PoolName(device, q)
                 /\ \E c \in Cores : <<c, q>> \in DOMAIN rxCoreMap
                 /\ DOMAIN streamMap[q] =
                      {c.stream : c \in {conns[k] : k \in 1..Len(conns)}
                                           \cap {d \in Conn : d.ip = ip}}
    <3>1. PICK k \in 1..Len(conns) : conns[k].ip = ip
      BY DEF Senders
    <3>2. /\ ip \in DOMAIN rules
          /\ DOMAIN streamMap[rules[ip]] =
               {conns[j].stream : j \in {i \in 1..Len(conns) : conns[i].ip = ip}}
      BY <2>1, <3>1 DEF RoutedAsConfigured
    <3>3. rules[ip] \in Queue(rxq)
      BY <3>2 DEF SetupInv, IInv, TypeOK, Queue
    <3>4. SteeredTo(ip) = {rules[ip]}
      BY <2>2, <3>2
    <3>5. rxQueues[rules[ip]] = PoolName(device, rules[ip])
      BY <2>1, <3>3 DEF SetupInv, SetupTypeOK
    <3>6. \E c \in Cores : <<c, rules[ip]>> \in DOMAIN rxCoreMap
      BY <2>1, <3>3 DEF OneLcorePerQueue, Queue
    <3>7. \A j \in 1..Len(conns) : conns[j] \in Conn
      BY DEF SetupInv, IInv, TypeOK
    <3>8. {conns[j].stream : j \in {i \in 1..Len(conns) : conns[i].ip = ip}} =
            {c.stream : c \in {conns[j] : j \in 1..Len(conns)} \cap {d \in Conn : d.ip = ip}}
      BY <3>7
    <3> QED
      BY <2>1, <3>2, <3>3, <3>4, <3>5, <3>6, <3>8
  <2> QED
    BY <2>1, <2>3, <2>4
<1>2. SetupSpec => []RoutedAsConfigured /\ []OneLcorePerQueue
  BY SetupImplementsAssignment, FlowsReachTheirSources, QueuesPolledOnce, PTL
<1> QED
  BY <1>1, <1>2, SetupInvHolds, PTL
=============================================================================
