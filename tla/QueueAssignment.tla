--------------------------- MODULE QueueAssignment ---------------------------
(***************************************************************************)
(* How the constructor of IfaceWrapper turns the senders of an interface   *)
(* into receive queues, and setup_flow_steering the queues into flow rules *)
(* of the NIC.                                                             *)
(*                                                                         *)
(* The streams of all senders are grouped by the IP address of the sender; *)
(* every address gets a receive queue, the queues are dealt to the lcores  *)
(* in turn, and one flow rule per queue steers the frames of its address.  *)
(* RxPath takes the outcome as its constants.                              *)
(*                                                                         *)
(* Addresses are numbered in the order std::map iterates them.             *)
(***************************************************************************)
EXTENDS Integers, FiniteSets, Sequences

CONSTANTS
  Ips,        (* IP addresses of senders.                                  *)
  Streams,    (* Stream ids.                                               *)
  SourceIds,  (* Source ids.                                               *)
  Cores,      (* CPU cores.                                                *)
  MaxConns,   (* Bound: streams of the senders of the interface.           *)
  MaxCores    (* Bound: length of m_rte_cores.                             *)

ASSUME IpAssumption == Ips \subseteq Nat
ASSUME BoundAssumption == MaxConns \in Nat /\ MaxCores \in Nat

(* A stream of a sender, as the two nested loops of the constructor see it.*)
Conn == [ip : Ips, stream : Streams, source : SourceIds]

VARIABLES
  conns,      (* The streams of the enabled senders, in order.             *)
  cores,      (* m_rte_cores, in order; a core may be listed twice.        *)
  pc,         (* group, assign, flush, rules, done, or how it went wrong.  *)
  pos,        (* Next of conns to be grouped.                              *)
  groups,     (* ip_to_stream_src_groups: source by address and stream.    *)
  todo,       (* Addresses that have no queue yet.                         *)
  rxq,        (* rx_q, the next queue.                                     *)
  coreIdx,    (* core_idx.                                                 *)
  rxCoreMap,  (* m_rx_core_map: address by core and queue.                 *)
  streamMap,  (* m_stream_id_to_source_id: source by queue and stream.     *)
  todoRules,  (* Entries of m_rx_core_map that have no flow rule yet.      *)
  rules       (* Flow rules of the NIC: queue by address.                  *)

inVars == <<conns, cores>>
groupVars == <<pos, groups>>
queueVars == <<todo, rxq, coreIdx, rxCoreMap, streamMap>>
ruleVars == <<todoRules, rules>>
vars == <<conns, cores, pc, pos, groups, todo, rxq, coreIdx, rxCoreMap,
          streamMap, todoRules, rules>>

Empty == [k \in {} |-> 0]

(* What map[key] = value leaves in a map.                                  *)
Put(map, key, value) ==
  [k \in DOMAIN map \cup {key} |-> IF k = key THEN value ELSE map[k]]

Init ==
  /\ conns \in UNION {[1..n -> Conn] : n \in 0..MaxConns}
  /\ cores \in UNION {[1..n -> Cores] : n \in 0..MaxCores}
  /\ pc = "group"
  /\ pos = 1
  /\ groups = Empty
  /\ todo = {}
  /\ rxq = 0
  /\ coreIdx = 0
  /\ rxCoreMap = Empty
  /\ streamMap = Empty
  /\ todoRules = {}
  /\ rules = Empty

Key(c) == <<c.ip, c.stream>>

(* Mutant: the first listing of a stream wins, as with map::insert.        *)
AddStreamInsert ==
  /\ pc = "group"
  /\ pos <= Len(conns)
  /\ groups' = IF Key(conns[pos]) \in DOMAIN groups THEN groups
               ELSE Put(groups, Key(conns[pos]), conns[pos].source)
  /\ pos' = pos + 1
  /\ UNCHANGED <<inVars, pc, queueVars, ruleVars>>

(* A stream listed twice for an address leads to the source listed last.   *)
AddStream ==
  /\ pc = "group"
  /\ pos <= Len(conns)
  /\ groups' = Put(groups, Key(conns[pos]), conns[pos].source)
  /\ pos' = pos + 1
  /\ UNCHANGED <<inVars, pc, queueVars, ruleVars>>

GroupsDone ==
  /\ pc = "group"
  /\ pos > Len(conns)
  /\ pc' = "assign"
  /\ todo' = {k[1] : k \in DOMAIN groups}
  /\ UNCHANGED <<inVars, groupVars, rxq, coreIdx, rxCoreMap, streamMap, ruleVars>>

(* strm_src: the streams of one address.                                   *)
StreamsOf(ip) ==
  [s \in {k[2] : k \in {g \in DOMAIN groups : g[1] = ip}} |-> groups[<<ip, s>>]]

NextIp(ip) == ip \in todo /\ \A other \in todo : ip <= other

(* Mutant: core_idx is wrapped one queue too late.                         *)
AfterCoreLate(i) == IF i = Len(cores) THEN 0 ELSE i + 1

(* Mutant: core_idx is never advanced.                                     *)
AfterCoreStays(i) == i

AfterCore(i) == IF i + 1 = Len(cores) THEN 0 ELSE i + 1

(* Mutant: the queue is advanced with the round of the cores only.        *)
AssignQueuePerRound(ip) ==
  /\ pc = "assign"
  /\ NextIp(ip)
  /\ cores # <<>>
  /\ rxCoreMap' = Put(rxCoreMap, <<cores[coreIdx + 1], rxq>>, ip)
  /\ streamMap' = Put(streamMap, rxq, StreamsOf(ip))
  /\ rxq' = IF coreIdx + 1 = Len(cores) THEN rxq + 1 ELSE rxq
  /\ coreIdx' = AfterCore(coreIdx)
  /\ todo' = todo \ {ip}
  /\ UNCHANGED <<inVars, pc, groupVars, ruleVars>>

AssignQueue(ip) ==
  /\ pc = "assign"
  /\ NextIp(ip)
  /\ cores # <<>>
  /\ rxCoreMap' = Put(rxCoreMap, <<cores[coreIdx + 1], rxq>>, ip)
  /\ streamMap' = Put(streamMap, rxq, StreamsOf(ip))
  /\ rxq' = rxq + 1
  /\ coreIdx' = AfterCore(coreIdx)
  /\ todo' = todo \ {ip}
  /\ UNCHANGED <<inVars, pc, groupVars, ruleVars>>

(* m_rte_cores[0] of an empty vector reads through a null pointer.         *)
NoCore ==
  /\ pc = "assign"
  /\ todo # {}
  /\ cores = <<>>
  /\ pc' = "crashed"
  /\ UNCHANGED <<inVars, groupVars, queueVars, ruleVars>>

AssignDone ==
  /\ pc = "assign"
  /\ todo = {}
  /\ pc' = "flush"
  /\ UNCHANGED <<inVars, groupVars, queueVars, ruleVars>>

(***************************************************************************)
(* setup_flow_steering, called by do_configure on the finished wrapper.    *)
(***************************************************************************)
FlushRules ==
  /\ pc = "flush"
  /\ pc' = "rules"
  /\ rules' = Empty
  /\ todoRules' = DOMAIN rxCoreMap
  /\ UNCHANGED <<inVars, groupVars, queueVars>>

CreateRule(k) ==
  /\ pc = "rules"
  /\ k \in todoRules
  /\ rules' = Put(rules, rxCoreMap[k], k[2])
  /\ todoRules' = todoRules \ {k}
  /\ UNCHANGED <<inVars, pc, groupVars, queueVars>>

(* The NIC refuses the rule: rte_exit.                                     *)
CreateRuleFails ==
  /\ pc = "rules"
  /\ todoRules # {}
  /\ pc' = "exited"
  /\ UNCHANGED <<inVars, groupVars, queueVars, ruleVars>>

RulesDone ==
  /\ pc = "rules"
  /\ todoRules = {}
  /\ pc' = "done"
  /\ UNCHANGED <<inVars, groupVars, queueVars, ruleVars>>

Next ==
  \/ AddStream \/ GroupsDone
  \/ \E ip \in todo : AssignQueue(ip)
  \/ NoCore \/ AssignDone \/ FlushRules
  \/ \E k \in todoRules : CreateRule(k)
  \/ CreateRuleFails \/ RulesDone

Spec == Init /\ [][Next]_vars

-----------------------------------------------------------------------------

TypeOK ==
  /\ conns \in Seq(Conn)
  /\ cores \in Seq(Cores)
  /\ pc \in {"group", "assign", "flush", "rules", "done", "crashed", "exited"}
  /\ pos \in 1..(Len(conns) + 1)
  /\ DOMAIN groups \subseteq Ips \X Streams
  /\ \A k \in DOMAIN groups : groups[k] \in SourceIds
  /\ todo \subseteq Ips
  /\ rxq \in Nat
  /\ coreIdx \in Nat
  /\ cores # <<>> => coreIdx < Len(cores)
  /\ DOMAIN rxCoreMap \subseteq Cores \X (0..(rxq - 1))
  /\ \A k \in DOMAIN rxCoreMap : rxCoreMap[k] \in Ips
  /\ DOMAIN streamMap = 0..(rxq - 1)
  /\ todoRules \subseteq DOMAIN rxCoreMap
  /\ DOMAIN rules \subseteq Ips
  /\ \A ip \in DOMAIN rules : rules[ip] \in 0..(rxq - 1)

(* The source the configuration gives last for an address and a stream.    *)
LastSource(key, src) ==
  \E k \in 1..Len(conns) :
    /\ Key(conns[k]) = key
    /\ conns[k].source = src
    /\ \A j \in (k + 1)..Len(conns) : Key(conns[j]) # key

(***************************************************************************)
(* From the wire to the source: once the interface is set up, the rule for *)
(* the address of a sender leads to a queue on which each of its streams,  *)
(* and no other, is mapped to the source configured (last) for it.         *)
(***************************************************************************)
RoutedAsConfigured ==
  pc = "done" =>
    \A k \in 1..Len(conns) :
      LET ip == conns[k].ip
      IN /\ ip \in DOMAIN rules
         /\ DOMAIN streamMap[rules[ip]] =
              {conns[j].stream : j \in {i \in 1..Len(conns) : conns[i].ip = ip}}
         /\ \A st \in DOMAIN streamMap[rules[ip]] :
              LastSource(<<ip, st>>, streamMap[rules[ip]][st])

(***************************************************************************)
(* Every queue is polled by exactly one lcore, whatever the list of cores  *)
(* looks like: a core listed twice polls more queues, never one of them    *)
(* twice.                                                                  *)
(***************************************************************************)
OneLcorePerQueue ==
  pc \in {"flush", "rules", "done"} =>
    \A q \in 0..(rxq - 1) :
      /\ \E c \in Cores : <<c, q>> \in DOMAIN rxCoreMap
      /\ \A c, d \in Cores :
           <<c, q>> \in DOMAIN rxCoreMap /\ <<d, q>> \in DOMAIN rxCoreMap => c = d

QueuesOfCore(c) == {k \in DOMAIN rxCoreMap : k[1] = c}

(***************************************************************************)
(* The cores share the queues evenly, if none is listed twice: the round   *)
(* of core_idx leaves no two of them more than one queue apart.            *)
(***************************************************************************)
QueuesBalanced ==
  pc = "done" /\ (\A i, j \in 1..Len(cores) : cores[i] = cores[j] => i = j) =>
    \A i, j \in 1..Len(cores) :
      Cardinality(QueuesOfCore(cores[i])) <= Cardinality(QueuesOfCore(cores[j])) + 1
=============================================================================
