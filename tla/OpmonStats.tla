----------------------------- MODULE OpmonStats -----------------------------
(***************************************************************************)
(* The statistics of one interface: do_configure registers the wrapper     *)
(* with the monitoring, sets the NIC counters up step by step and starts   *)
(* the wrapper; from its registration on, the monitoring thread may call   *)
(* generate_opmon_data, while the NIC counts packets and an lcore keeps    *)
(* the counters of its receive queue.  No lock orders any of them, and     *)
(* the answers of DPDK are not acted upon.                                 *)
(*                                                                         *)
(* One extended counter stands for all.  malloc does not fail.             *)
(***************************************************************************)
EXTENDS Naturals

CONSTANTS
  BurstSize,     (* m_burst_size.                                          *)
  Garbage,       (* The value of memory nobody wrote.                      *)
  MaxFrames      (* Bound: packets the NIC receives.                       *)

ASSUME BurstAssumption == BurstSize \in Nat \ {0}
ASSUME GarbageAssumption == Garbage \notin Nat

VARIABLES
  proc,          (* The process: up or crashed.                            *)
  conf,          (* How far do_configure is with the wrapper: new,         *)
                 (* registered, named, valued, filled, marked, ready,      *)
                 (* entering, started.                                     *)
  names,         (* m_len and m_xstats_names: unset; none (m_len < 0);     *)
                 (* unwritten (allocated, but not given); some.            *)
  xValues,       (* The counter in m_xstats_values.                        *)
  opc,           (* The monitoring thread: idle, poll, copy, reset,        *)
                 (* xstats, queue, insert.                                 *)
  hwX,           (* The extended counter of the NIC for received packets.  *)
  ethStats,      (* m_iface_xstats.m_eth_stats: Garbage or counts.         *)
  xinfos,        (* What generate_opmon_data copied from m_xstats_values.  *)
  entered,       (* Is the queue a key of m_num_full_bursts and            *)
                 (* m_max_burst_size?                                      *)
  maxBurst,      (* m_max_burst_size of the queue.                         *)
  numFrames,     (* m_num_frames_rxq of the queue.                         *)
  lpc,           (* The lcore: check, store, count.                        *)
  nbRx,          (* nb_rx of the burst in hand.                            *)
  loaded,        (* What std::max was given of m_max_burst_size.           *)
  arrived,       (* History: packets the NIC has received.                 *)
  due,           (* History: what the extended counters have to publish:   *)
                 (* what was in hand when set-up was over, and every       *)
                 (* packet since, until a call failed.                     *)
  pubX,          (* History: sum of the extended counters published since  *)
                 (* set-up was over, until a call failed.                  *)
  inWindow,      (* History: has a packet arrived between a poll of the    *)
                 (* counters and their reset, set-up being over?           *)
  failed,        (* History: has a call for the extended counters failed?  *)
  pending,       (* History: the largest burst recorded since the last     *)
                 (* publication of the maximum.                            *)
  begun          (* History: conf when the publication in progress, or the *)
                 (* last one, began.                                       *)

nicVars == <<hwX, arrived, due, inWindow>>
opmonVars == <<opc, ethStats, xinfos, pubX, begun>>
lcoreVars == <<lpc, nbRx, loaded, numFrames>>
maxVars == <<entered, maxBurst, pending>>
xstatsVars == <<names, xValues, failed>>
vars == <<proc, conf, names, xValues, opc, hwX, ethStats, xinfos, entered,
          maxBurst, numFrames, lpc, nbRx, loaded, arrived, due, pubX, inWindow,
          failed, pending, begun>>

Init ==
  /\ proc = "up"
  /\ conf = "new"
  /\ names = "unset"
  /\ xValues = Garbage
  /\ opc = "idle"
  /\ hwX = 0
  /\ ethStats = Garbage
  /\ xinfos = 0
  /\ maxBurst = 0
  /\ numFrames = 0
  /\ lpc = "check"
  /\ nbRx = 0
  /\ loaded = 0
  /\ arrived = 0
  /\ due = 0
  /\ pubX = 0
  /\ inWindow = FALSE
  /\ failed = FALSE
  /\ pending = 0
  /\ entered = FALSE
  /\ begun = "new"

Up == proc = "up"

(* m_allocated.                                                            *)
Allocated == conf \in {"marked", "ready", "entering", "started"}

(* setup_xstats is over.                                                   *)
SetUp == conf \in {"ready", "entering", "started"}

(* Two threads that insert into a map at a time, or one that looks up a    *)
(* key meanwhile, have a data race; a wild pointer is no better.           *)
CrashIf(undefined) == proc' \in IF undefined THEN {"up", "crashed"} ELSE {"up"}

(***************************************************************************)
(* do_configure.  register_node makes the wrapper visible to the           *)
(* monitoring before setup_xstats has given it counters to read.           *)
(***************************************************************************)
RegisterNode ==
  /\ Up /\ conf = "new"
  /\ conf' = "registered"
  /\ UNCHANGED <<proc, xstatsVars, nicVars, opmonVars, lcoreVars, maxVars>>

(* The two resets, whose answers are ignored, and the names.               *)
GetNames ==
  /\ Up /\ conf = "registered"
  /\ conf' = "named"
  /\ hwX' \in {0, hwX}
  /\ names' \in {"none", "unwritten", "some"}
  /\ failed' = (failed \/ names' # "some")
  /\ UNCHANGED <<proc, xValues, arrived, due, inWindow, opmonVars, lcoreVars, maxVars>>

AllocateValues ==
  /\ Up /\ conf = "named"
  /\ conf' = "valued"
  /\ UNCHANGED <<proc, xstatsVars, nicVars, opmonVars, lcoreVars, maxVars>>

(* Mutant: set-up leaves the values to the first poll.                     *)
FillValuesNot ==
  /\ Up /\ conf = "valued"
  /\ conf' = "filled"
  /\ UNCHANGED <<proc, xstatsVars, nicVars, opmonVars, lcoreVars, maxVars>>

FillValues ==
  /\ Up /\ conf = "valued"
  /\ conf' = "filled"
  /\ \/ names # "none" /\ xValues' = hwX /\ failed' = failed
     \/ xValues' = xValues /\ failed' = TRUE
  /\ UNCHANGED <<proc, names, nicVars, opmonVars, lcoreVars, maxVars>>

(* The names are logged before m_allocated is set; m_eth_stats is left as  *)
(* it is.                                                                  *)
MarkAllocated ==
  /\ Up /\ conf = "filled"
  /\ CrashIf(names = "unwritten")
  /\ conf' = "marked"
  /\ UNCHANGED <<xstatsVars, nicVars, opmonVars, lcoreVars, maxVars>>

(* rte_eth_xstats_reset, whose answer is ignored.                          *)
ResetNIC ==
  \/ hwX' = 0 /\ failed' = failed
  \/ hwX' = hwX /\ failed' = TRUE

(* What the publication in progress holds of the extended counter.         *)
InHand ==
  LET value == CASE opc = "copy" -> xValues
                 [] opc \in {"reset", "xstats"} -> xinfos
                 [] OTHER -> 0
  IN IF value = Garbage THEN 0 ELSE value

(* setup_xstats ends with a reset.                                         *)
ResetAtSetUp ==
  /\ Up /\ conf = "marked"
  /\ conf' = "ready"
  /\ ResetNIC
  /\ due' = pubX + InHand
  /\ UNCHANGED <<proc, names, xValues, arrived, inWindow, opmonVars, lcoreVars, maxVars>>

(* start() enters the queue into the maps of its counters ...              *)
EnterCounters ==
  /\ Up /\ conf = "ready"
  /\ conf' = "entering"
  /\ UNCHANGED <<proc, xstatsVars, nicVars, opmonVars, lcoreVars, maxVars>>

(* Mutant: start() clears the count of frames only.                        *)
StartLcoreNoEntry ==
  /\ Up /\ conf = "entering"
  /\ CrashIf(opc = "insert")
  /\ conf' = "started"
  /\ numFrames' = 0
  /\ UNCHANGED <<xstatsVars, nicVars, opmonVars, lpc, nbRx, loaded, maxVars>>

(* ... clears them, and launches the lcore.                                *)
StartLcore ==
  /\ Up /\ conf = "entering"
  /\ CrashIf(opc = "insert")
  /\ conf' = "started"
  /\ entered' = TRUE
  /\ numFrames' = 0 /\ maxBurst' = 0
  /\ UNCHANGED <<xstatsVars, nicVars, opmonVars, lpc, nbRx, loaded, pending>>

(***************************************************************************)
(* The NIC.                                                                *)
(***************************************************************************)
Receive ==
  /\ Up /\ conf # "new"
  /\ arrived < MaxFrames
  /\ arrived' = arrived + 1
  /\ hwX' = hwX + 1
  /\ due' = IF SetUp /\ ~failed THEN due + 1 ELSE due
  /\ inWindow' = (inWindow \/ (SetUp /\ opc \in {"copy", "reset"}))
  /\ UNCHANGED <<proc, conf, xstatsVars, opmonVars, lcoreVars, maxVars>>

(***************************************************************************)
(* generate_opmon_data.                                                    *)
(***************************************************************************)
PublishEth ==
  /\ Up /\ conf # "new" /\ opc = "idle"
  /\ begun' = conf
  /\ opc' = "poll"
  /\ UNCHANGED <<proc, conf, xstatsVars, nicVars, ethStats, xinfos, pubX, lcoreVars,
                 maxVars>>

PollUnallocated ==
  /\ Up /\ opc = "poll" /\ ~Allocated
  /\ opc' = "copy"
  /\ UNCHANGED <<proc, conf, xstatsVars, nicVars, ethStats, xinfos, pubX, begun,
                 lcoreVars, maxVars>>

(* Mutant: only the basic counters are polled.                             *)
PollBasic ==
  /\ Up /\ opc = "poll" /\ Allocated
  /\ ethStats' \in {"counts", ethStats}
  /\ opc' = "copy"
  /\ UNCHANGED <<proc, conf, xstatsVars, nicVars, xinfos, pubX, begun, lcoreVars,
                 maxVars>>

(* A failure is logged at most: the old values stay.                       *)
Poll ==
  /\ Up /\ opc = "poll" /\ Allocated
  /\ \/ names # "none" /\ xValues' = hwX /\ failed' = failed
     \/ xValues' = xValues /\ failed' = TRUE
  /\ ethStats' \in {"counts", ethStats}
  /\ opc' = "copy"
  /\ UNCHANGED <<proc, conf, names, nicVars, xinfos, pubX, begun, lcoreVars,
                 maxVars>>

(* The loop over m_len values looks at no m_allocated.  Before GetNames    *)
(* m_len and both pointers are indeterminate, before AllocateValues        *)
(* m_xstats_values is, and names nobody wrote may have no end.             *)
CopyValues ==
  /\ Up /\ opc = "copy"
  /\ CrashIf(names \in {"unset", "unwritten"} \/ (names = "some" /\ conf = "named"))
  /\ xinfos' \in CASE names = "some" -> {xValues}
                   [] names = "none" -> {0}
                   [] OTHER -> {0, xValues}
  /\ opc' = "reset"
  /\ UNCHANGED <<conf, xstatsVars, nicVars, ethStats, pubX, begun, lcoreVars,
                 maxVars>>

(* Mutant: the counters are never reset.                                   *)
ResetCountersNot ==
  /\ Up /\ opc = "reset"
  /\ opc' = "xstats"
  /\ UNCHANGED <<proc, conf, xstatsVars, nicVars, ethStats, xinfos, pubX, begun,
                 lcoreVars, maxVars>>

ResetCounters ==
  /\ Up /\ opc = "reset"
  /\ IF Allocated THEN ResetNIC ELSE UNCHANGED <<hwX, failed>>
  /\ opc' = "xstats"
  /\ UNCHANGED <<proc, conf, names, xValues, arrived, due, inWindow, ethStats, xinfos,
                 pubX, begun, lcoreVars, maxVars>>

PublishXStats ==
  /\ Up /\ opc = "xstats"
  /\ pubX' = IF SetUp /\ ~failed THEN pubX + InHand ELSE pubX
  /\ xinfos' = 0
  /\ opc' = "queue"
  /\ UNCHANGED <<proc, conf, xstatsVars, nicVars, ethStats, begun, lcoreVars, maxVars>>

(* operator[] inserts a queue that is not in the maps yet, ...             *)
InsertQueue ==
  /\ Up /\ opc = "queue" /\ ~entered
  /\ opc' = "insert"
  /\ UNCHANGED <<proc, conf, xstatsVars, nicVars, ethStats, xinfos, pubX, begun, lcoreVars,
                 maxVars>>

QueueInserted ==
  /\ Up /\ opc = "insert"
  /\ CrashIf(conf = "entering")
  /\ entered' = TRUE
  /\ opc' = "queue"
  /\ UNCHANGED <<conf, xstatsVars, nicVars, ethStats, xinfos, pubX, begun, lcoreVars,
                 maxBurst, pending>>

(* ... and finds one that is.  The maximum is published and cleared by an  *)
(* exchange.                                                               *)
PublishQueue ==
  /\ Up /\ opc = "queue" /\ entered
  /\ CrashIf(conf = "entering")
  /\ maxBurst' = 0
  /\ pending' = 0
  /\ opc' = "idle"
  /\ UNCHANGED <<conf, xstatsVars, nicVars, ethStats, xinfos, pubX, begun, lcoreVars, entered>>

(***************************************************************************)
(* The lcore: m_max_burst_size is loaded and stored in two steps.          *)
(***************************************************************************)
TakeBurst(n) ==
  /\ Up /\ conf = "started" /\ lpc = "check"
  /\ numFrames + n <= arrived
  /\ CrashIf(opc = "insert")
  /\ nbRx' = n
  /\ loaded' = maxBurst
  /\ lpc' = "store"
  /\ UNCHANGED <<conf, xstatsVars, nicVars, opmonVars, maxVars, numFrames>>

Larger(a, b) == IF a > b THEN a ELSE b

(* Mutant: the maximum is only raised past the one loaded before.          *)
StoreMaxIfLarger ==
  /\ Up /\ lpc = "store"
  /\ maxBurst' = IF nbRx > loaded THEN nbRx ELSE maxBurst
  /\ pending' = Larger(pending, nbRx)
  /\ lpc' = "count"
  /\ UNCHANGED <<proc, conf, xstatsVars, nicVars, opmonVars, entered, nbRx, loaded, numFrames>>

(* Mutant: the bursts are added up.                                        *)
StoreMaxAdds ==
  /\ Up /\ lpc = "store"
  /\ maxBurst' = nbRx + loaded
  /\ pending' = Larger(pending, nbRx)
  /\ lpc' = "count"
  /\ UNCHANGED <<proc, conf, xstatsVars, nicVars, opmonVars, entered, nbRx, loaded, numFrames>>

StoreMax ==
  /\ Up /\ lpc = "store"
  /\ maxBurst' = Larger(nbRx, loaded)
  /\ pending' = Larger(pending, nbRx)
  /\ lpc' = "count"
  /\ UNCHANGED <<proc, conf, xstatsVars, nicVars, opmonVars, entered, nbRx, loaded, numFrames>>

CountFrames ==
  /\ Up /\ lpc = "count"
  /\ numFrames' = numFrames + nbRx
  /\ lpc' = "check"
  /\ UNCHANGED <<proc, conf, xstatsVars, nicVars, opmonVars, maxVars, nbRx, loaded>>

ConfStep ==
  \/ RegisterNode \/ GetNames \/ AllocateValues \/ FillValues \/ MarkAllocated
  \/ ResetAtSetUp \/ EnterCounters \/ StartLcore

OpmonStep ==
  \/ PublishEth \/ PollUnallocated \/ Poll \/ CopyValues \/ ResetCounters
  \/ PublishXStats \/ InsertQueue \/ QueueInserted \/ PublishQueue

Next ==
  \/ ConfStep \/ Receive \/ OpmonStep
  \/ \E n \in 1..BurstSize : TakeBurst(n)
  \/ StoreMax \/ CountFrames

Spec == Init /\ [][Next]_vars

(* do_configure goes on, and the monitoring publishes again and again.     *)
FairSpec == Spec /\ WF_vars(ConfStep) /\ WF_vars(OpmonStep)

-----------------------------------------------------------------------------

(***************************************************************************)
(* A maximum is never above m_burst_size.  Memory nobody wrote can be      *)
(* published from m_eth_stats and, see GarbageBeganBeforeSetUp, from       *)
(* m_xstats_values.                                                        *)
(***************************************************************************)
TypeOK ==
  /\ proc \in {"up", "crashed"}
  /\ conf \in {"new", "registered", "named", "valued", "filled", "marked", "ready",
              "entering", "started"}
  /\ names \in {"unset", "none", "unwritten", "some"}
  /\ opc \in {"idle", "poll", "copy", "reset", "xstats", "queue", "insert"}
  /\ hwX \in Nat /\ arrived \in Nat /\ due \in Nat
  /\ ethStats \in {Garbage, "counts"}
  /\ xValues \in Nat \cup {Garbage} /\ xinfos \in Nat \cup {Garbage}
  /\ pubX \in Nat
  /\ inWindow \in BOOLEAN /\ failed \in BOOLEAN /\ entered \in BOOLEAN
  /\ begun \in {"new", "registered", "named", "valued", "filled", "marked", "ready",
               "entering", "started"}
  /\ lpc \in {"check", "store", "count"}
  /\ nbRx \in 0..BurstSize /\ loaded \in 0..BurstSize
  /\ maxBurst \in 0..BurstSize /\ pending \in 0..BurstSize
  /\ numFrames \in Nat

(***************************************************************************)
(* As long as no call for the extended counters has failed, a packet       *)
(* received after set-up is published in them at most once, and every one  *)
(* is published or still counted by the NIC, unless one arrived between a  *)
(* poll and the reset that followed it; also when set-up itself falls into *)
(* a publication.  (A poll that fails publishes the old values again, and  *)
(* the reset after it loses the new ones; a reset that fails leaves values *)
(* to be published twice.)                                                 *)
(***************************************************************************)
XStatsCountedOnce ==
  SetUp /\ ~failed /\ opc \notin {"copy", "reset"} =>
    /\ pubX + InHand + hwX <= due
    /\ ~inWindow => pubX + InHand + hwX = due

(***************************************************************************)
(* The loop over the extended counters does not look at m_allocated.  As   *)
(* long as no call has failed, it publishes values nobody wrote only in a  *)
(* publication that began before setup() had filled them in, since         *)
(* m_allocated is set afterwards and a poll before it changes nothing.     *)
(***************************************************************************)
GarbageBeganBeforeSetUp ==
  opc = "xstats" /\ xinfos = Garbage /\ ~failed =>
    begun \in {"registered", "named", "valued"}

(***************************************************************************)
(* However the exchange of the monitoring falls into the load and store of *)
(* the lcore, the maximum published next is not below a burst recorded     *)
(* before it.  (It may be above: a maximum already published can be stored *)
(* again.)                                                                 *)
(***************************************************************************)
MaxBurstCovered == pending <= maxBurst

(***************************************************************************)
(* The maps of the counters have no lock.  start() enters the queue before *)
(* it launches the lcore, so that neither the lcore nor the monitoring     *)
(* inserts afterwards: only a publication that began before start() was    *)
(* over brings the process down, unless DPDK left the names unwritten.     *)
(***************************************************************************)
CrashBeganBeforeStart ==
  proc = "crashed" /\ names # "unwritten" => begun # "started"

(***************************************************************************)
(* Every packet the extended counters have to publish is published in the  *)
(* end, unless one arrived between a poll and its reset or a call failed.  *)
(***************************************************************************)
PacketsPublished ==
  \A n \in 1..MaxFrames :
    due = n ~> pubX >= n \/ inWindow \/ failed \/ proc = "crashed"
=============================================================================
