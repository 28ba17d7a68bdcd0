---------------------------- MODULE InterfaceSetup ----------------------------
(***************************************************************************)
(* What do_configure does for one connection: it finds the device,         *)
(* constructs the wrapper (QueueAssignment), allocates its mbuf pools,     *)
(* initialises the device and installs the flow rules.  Earlier            *)
(* connections may have set devices up before, the same one too, and an    *)
(* earlier process may have left flow rules on the NIC.                    *)
(*                                                                         *)
(* A device is its EAL id; its MAC and PCI addresses are named by it.      *)
(***************************************************************************)
EXTENDS QueueAssignment

CONSTANTS
  Devices,    (* The devices EAL has found.                                *)
  MaxEarlier  (* Bound: receive queues of an earlier connection.           *)

ASSUME EarlierAssumption == MaxEarlier \in Nat

VARIABLES
  step,       (* Where do_configure is with the connection, or how it ended*)
  earlier,    (* Keys of m_ifaces: devices of earlier connections.         *)
  device,     (* iface_id.                                                 *)
  poolNames,  (* Names of the mbuf pools of the process.                   *)
  mbufPools,  (* m_mbuf_pools: the pool by queue.                          *)
  rxQueues,   (* Receive queues set up on the device: the pool by queue.   *)
  devUp,      (* The device is started.                                    *)
  flushed,    (* History: rte_flow_flush succeeded.                        *)
  left        (* Rules, as address and queue, that outlived the flush.     *)

poolVars == <<poolNames, mbufPools>>
nicVars == <<rxQueues, devUp, flushed, left>>
setupVars == <<step, earlier, device, poolVars, nicVars>>
allVars == <<vars, step, earlier, device, poolNames, mbufPools, rxQueues, devUp,
             flushed, left>>

PoolName(d, q) == <<d, "MBP", q>>
GarpPoolName(d) == <<d, "GARPMBP", 0>>

EarlierPools(d, n) == {GarpPoolName(d)} \cup {PoolName(d, q) : q \in 0..(n - 1)}

SetupInit ==
  /\ Init
  /\ step = "find"
  /\ earlier \in SUBSET Devices
  /\ \E n \in 0..MaxEarlier : poolNames = UNION {EarlierPools(d, n) : d \in earlier}
  /\ device \in Devices
  /\ mbufPools = Empty
  /\ rxQueues = Empty
  /\ devUp = FALSE
  /\ flushed = FALSE
  /\ left = {}

(* Nothing changes but where do_configure is.                              *)
Goto(next) ==
  /\ step' = next
  /\ UNCHANGED <<vars, earlier, device, poolVars, nicVars>>

(* The keys of m_mac_to_id_map and m_pci_to_id_map are the addresses that  *)
(* could be read.  The MAC address leads to the device; the PCI address is *)
(* only looked up, and may be that of another one.                         *)
FindDevice ==
  /\ step = "find"
  /\ \E macs, pcis \in SUBSET Devices, pci \in Devices :
       IF device \in macs /\ pci \in pcis THEN Goto("construct") ELSE Goto("thrown")

(* The constructor.                                                        *)
Construct ==
  /\ step = "construct"
  /\ \/ AddStream \/ GroupsDone
     \/ \E ip \in todo : AssignQueue(ip)
  /\ UNCHANGED setupVars

ConstructCrashes ==
  /\ step = "construct"
  /\ NoCore
  /\ step' = "crashed"
  /\ UNCHANGED <<earlier, device, poolVars, nicVars>>

Constructed ==
  /\ step = "construct"
  /\ AssignDone
  /\ step' = "register"
  /\ UNCHANGED <<earlier, device, poolVars, nicVars>>

(* The assignment to m_ifaces destroys the wrapper an earlier connection   *)
(* has made for the device: its flow rules, which the model leaves out,    *)
(* are flushed, and its pools, which DPDK has allocated, are deleted,      *)
(* which is undefined.  The names of these pools stay taken.               *)
Register == step = "register" /\ Goto("pools")

ReplaceCrashes == step = "register" /\ device \in earlier /\ Goto("crashed")

(* Mutant: a pool that exists is taken for the new one.                    *)
PoolTakenNever(name) == FALSE

(* rte_pktmbuf_pool_create refuses a name a second time.                   *)
PoolTaken(name) == name \in poolNames

NextPool == Cardinality(DOMAIN mbufPools)

(* Mutant: the loop over the queues runs one too far.                      *)
PoolsNeededOneMore == rxq + 1

PoolsNeeded == rxq

(* allocate_mbufs: a pool for every queue, then the one of the GARP thread.*)
AllocatePool ==
  /\ step = "pools"
  /\ NextPool < PoolsNeeded
  /\ ~PoolTaken(PoolName(device, NextPool))
  /\ mbufPools' = Put(mbufPools, NextPool, PoolName(device, NextPool))
  /\ poolNames' = poolNames \cup {PoolName(device, NextPool)}
  /\ UNCHANGED <<vars, step, earlier, device, nicVars>>

AllocateGarpPool ==
  /\ step = "pools"
  /\ NextPool = PoolsNeeded
  /\ ~PoolTaken(GarpPoolName(device))
  /\ poolNames' = poolNames \cup {GarpPoolName(device)}
  /\ step' = "reset"
  /\ UNCHANGED <<vars, earlier, device, mbufPools, nicVars>>

(* get_mempool gets no pool: the name is taken, or there is no memory.     *)
AllocateExits == step = "pools" /\ Goto("exited")

(***************************************************************************)
(* iface_init.  Every call that fails throws.                              *)
(***************************************************************************)
ResetDevice == step = "reset" /\ Goto("configure")

ConfigureDevice == step = "configure" /\ Goto("queues")

NextRxQueue == Cardinality(DOMAIN rxQueues)

(* mbuf_pool[q] of a queue without a pool is a null pointer, with which    *)
(* the call fails.                                                         *)
SetUpRxQueue ==
  /\ step = "queues"
  /\ NextRxQueue < rxq
  /\ NextRxQueue \in DOMAIN mbufPools
  /\ rxQueues' = Put(rxQueues, NextRxQueue, mbufPools[NextRxQueue])
  /\ UNCHANGED <<vars, step, earlier, device, poolVars, devUp, flushed, left>>

SetUpTxQueue == step = "queues" /\ NextRxQueue = rxq /\ Goto("start")

StartDevice ==
  /\ step = "start"
  /\ devUp' = TRUE
  /\ step' = "check"
  /\ UNCHANGED <<vars, earlier, device, poolVars, rxQueues, flushed, left>>

(* The last queries of iface_init.  iface_promiscuous_mode comes after     *)
(* them; whether it succeeds is not looked at.                             *)
CheckDevice == step = "check" /\ Goto("steer")

InitThrows ==
  /\ step \in {"reset", "configure", "queues", "start", "check"}
  /\ Goto("thrown")

(***************************************************************************)
(* setup_flow_steering and setup_xstats.                                   *)
(***************************************************************************)
(* Mutant: rules of an earlier process are not flushed.                    *)
FlushNothing ==
  /\ step = "steer"
  /\ FlushRules
  /\ flushed' = TRUE
  /\ \E ip \in Ips : left' = {<<ip, 0>>}
  /\ UNCHANGED <<step, earlier, device, poolVars, rxQueues, devUp>>

Flush ==
  /\ step = "steer"
  /\ FlushRules
  /\ flushed' = TRUE
  /\ UNCHANGED <<step, earlier, device, poolVars, rxQueues, devUp, left>>

(* The answer of rte_flow_flush is not looked at.                          *)
FlushFails ==
  /\ step = "steer"
  /\ FlushRules
  /\ \E ip \in Ips : left' = {<<ip, 0>>}
  /\ UNCHANGED <<step, earlier, device, poolVars, rxQueues, devUp, flushed>>

Steer ==
  /\ step = "steer"
  /\ \E k \in todoRules : CreateRule(k)
  /\ UNCHANGED setupVars

SteerExits ==
  /\ step = "steer"
  /\ CreateRuleFails
  /\ step' = "exited"
  /\ UNCHANGED <<earlier, device, poolVars, nicVars>>

(* The counters are set up last, see OpmonStats.                           *)
SetupDone ==
  /\ step = "steer"
  /\ RulesDone
  /\ step' = "ready"
  /\ UNCHANGED <<earlier, device, poolVars, nicVars>>

SetupNext ==
  \/ FindDevice
  \/ Construct \/ ConstructCrashes \/ Constructed
  \/ Register \/ ReplaceCrashes
  \/ AllocatePool \/ AllocateGarpPool \/ AllocateExits
  \/ ResetDevice \/ ConfigureDevice \/ SetUpRxQueue \/ SetUpTxQueue
  \/ StartDevice \/ CheckDevice \/ InitThrows
  \/ Flush \/ FlushFails \/ Steer \/ SteerExits \/ SetupDone

SetupSpec == SetupInit /\ [][SetupNext]_allVars

-----------------------------------------------------------------------------
SetupTypeOK ==
  /\ step \in {"find", "construct", "register", "pools", "reset", "configure", "queues",
              "start", "check", "steer", "ready", "thrown", "crashed", "exited"}
  /\ earlier \subseteq Devices
  /\ device \in Devices
  /\ DOMAIN mbufPools \subseteq 0..(rxq - 1)
  /\ \A q \in DOMAIN mbufPools : mbufPools[q] = PoolName(device, q)
  /\ \A q \in DOMAIN mbufPools : mbufPools[q] \in poolNames
  /\ DOMAIN rxQueues \subseteq DOMAIN mbufPools
  /\ \A q \in DOMAIN rxQueues : rxQueues[q] = mbufPools[q]
  /\ devUp \in BOOLEAN
  /\ flushed \in BOOLEAN
  /\ left \subseteq Ips \X Nat

Senders == {conns[k].ip : k \in 1..Len(conns)}

(* The queues a rule of the NIC steers the frames of an address to.        *)
SteeredTo(ip) ==
  {rules[i] : i \in {ip} \cap DOMAIN rules} \cup {r[2] : r \in {o \in left : o[1] = ip}}

(***************************************************************************)
(* When the connection is set up, the device runs; the frames of every     *)
(* sender are steered to one queue, which has the pool made for it on this *)
(* device, is polled, and knows the streams of the sender; and no other    *)
(* address is steered.  If the flush fails all this may be untrue, without *)
(* a word.                                                                 *)
(***************************************************************************)
SteeredAsConfigured ==
  step = "ready" /\ flushed =>
    /\ devUp
    /\ \A ip \in Ips : SteeredTo(ip) # {} => ip \in Senders
    /\ \A ip \in Senders : \E q \in DOMAIN rxQueues :
         /\ SteeredTo(ip) = {q}
         /\ rxQueues[q] = PoolName(device, q)
         /\ \E c \in Cores : <<c, q>> \in DOMAIN rxCoreMap
         /\ DOMAIN streamMap[q] = {c.stream : c \in {conns[k] : k \in 1..Len(conns)}
                                                  \cap {d \in Conn : d.ip = ip}}

(***************************************************************************)
(* A device is never set up for two connections: the second one ends the   *)
(* process before it comes to the device, since the names of the pools of  *)
(* the first are taken.                                                    *)
(***************************************************************************)
DeviceSetUpOnce ==
  device \in earlier =>
    step \in {"find", "construct", "register", "pools", "thrown", "crashed", "exited"}
=============================================================================
