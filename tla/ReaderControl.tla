---------------------------- MODULE ReaderControl ----------------------------
(***************************************************************************)
(* The control plane of the NIC reader: the four commands of               *)
(* DPDKReaderModule (conf, start, stop_trigger_sources, scrap) and its     *)
(* destructor, run by one command thread, against the threads they         *)
(* control: one GARP thread per IfaceWrapper and one rx_runner per lcore.  *)
(*                                                                         *)
(* The command thread has a program counter, cmd, that names the loop of   *)
(* the command it is in; todo and todoL are what that loop has still to    *)
(* visit.  The loops over m_ifaces and m_sources follow the order of the   *)
(* ids, which are arbitrary, so a loop visits its set in any order.        *)
(*                                                                         *)
(* What a frame holds, and where handle_eth_payload routes it, is the      *)
(* subject of RxPath: here a frame is delivered to any source.             *)
(***************************************************************************)
EXTENDS Naturals, FiniteSets

CONSTANTS
  Ifaces,           (* Interfaces of the enabled connections.              *)
  Lcores,           (* Worker lcores handed to the EAL with -l.            *)
  LcoresOf,         (* Keys of m_rx_core_map of every interface.           *)
  Sources,          (* Keys of m_sources, filled by init.                  *)
  CallbackSources,  (* Those whose queue UID starts with "cb".             *)
  MaxBurst,         (* Frames one pass of rx_runner takes off its queues.  *)
  ExitWithoutScrap, (* May the module be destroyed while it is running?    *)
  NoIface           (* What an idle lcore runs.                            *)

ASSUME IfaceAssumption == NoIface \notin Ifaces
ASSUME LcoreAssumption == LcoresOf \in [Ifaces -> SUBSET Lcores]
ASSUME SourceAssumption == CallbackSources \subseteq Sources
ASSUME BurstAssumption == MaxBurst \in Nat \ {0}
ASSUME ExitAssumption == ExitWithoutScrap \in BOOLEAN

(***************************************************************************)
(* No lcore serves two interfaces.  rte_eal_remote_launch refuses a busy   *)
(* lcore and start() only logs its return code, so this condition on the   *)
(* configuration is what makes every queue polled.  Nothing else here      *)
(* needs it.                                                               *)
(***************************************************************************)
DisjointLcores ==
  \A i, j \in Ifaces : i # j => LcoresOf[i] \cap LcoresOf[j] = {}

VARIABLES
  proc,      (* The process: up, or how it ended.                          *)
  ealUp,     (* rte_eal_init has been called.                              *)
  cmd,       (* Where the command thread is.                               *)
  todo,      (* Interfaces the current loop has still to visit.            *)
  todoL,     (* Lcores IfaceWrapper::start has still to launch.            *)
  cur,       (* Interface whose start or stop is in progress.              *)
  wrapped,   (* m_ifaces.                                                  *)
  runMarker, (* m_run_marker, shared with every wrapper.                   *)
  flowOn,    (* Interfaces with m_lcore_enable_flow set.                   *)
  quit,      (* Interfaces with m_lcore_quit_signal set.                   *)
  acquired,  (* Sources with m_callback_is_acquired set.                   *)
  garp,      (* m_garp_thread: none, test or send in its loop, or exited.  *)
  lpc,       (* Every lcore: wait (the EAL state), check, packet, deliver. *)
  owner,     (* The wrapper whose rx_runner the lcore executes.            *)
  left,      (* Frames of the burst the lcore has still to process.        *)
  late       (* Frames delivered since the flow was last enabled, counting *)
             (* only those delivered with the flow disabled.  A history    *)
             (* variable.                                                  *)

ctlVars == <<proc, ealUp, cmd, todo, todoL, cur, wrapped, runMarker>>
sigVars == <<flowOn, quit, acquired>>
lcoreVars == <<lpc, owner, left, late>>
vars == <<proc, ealUp, cmd, todo, todoL, cur, wrapped, runMarker,
          flowOn, quit, acquired, garp, lpc, owner, left, late>>

Commands == {"idle", "conf", "launch", "acquire", "enable", "disable",
             "stop", "join", "wait", "destroy"}
Endings == {"exited", "nullcall", "terminated", "crashed", "gone"}

TypeOK ==
  /\ proc \in {"up"} \cup Endings
  /\ ealUp \in BOOLEAN
  /\ cmd \in Commands
  /\ todo \subseteq Ifaces
  /\ todoL \subseteq Lcores
  /\ cur \in Ifaces \cup {NoIface}
  /\ wrapped \subseteq Ifaces
  /\ runMarker \in BOOLEAN
  /\ flowOn \subseteq Ifaces
  /\ quit \subseteq Ifaces
  /\ acquired \subseteq CallbackSources
  /\ garp \in [Ifaces -> {"none", "test", "send", "exited"}]
  /\ lpc \in [Lcores -> {"wait", "check", "packet", "deliver"}]
  /\ owner \in [Lcores -> Ifaces \cup {NoIface}]
  /\ left \in [Lcores -> 0..MaxBurst]
  /\ late \in [Lcores -> Nat]

Init ==
  /\ proc = "up"
  /\ ealUp = FALSE
  /\ cmd = "idle"
  /\ todo = {}
  /\ todoL = {}
  /\ cur = NoIface
  /\ wrapped = {}
  /\ runMarker = FALSE
  /\ flowOn = {}
  /\ quit = {}
  /\ acquired = {}
  /\ garp = [i \in Ifaces |-> "none"]
  /\ lpc = [l \in Lcores |-> "wait"]
  /\ owner = [l \in Lcores |-> NoIface]
  /\ left = [l \in Lcores |-> 0]
  /\ late = [l \in Lcores |-> 0]

(***************************************************************************)
(* The command thread takes the next command when the previous one is      *)
(* over: the application framework runs the commands of a module one       *)
(* after the other, in the order its run control sends them.  Nothing in   *)
(* the module restricts that order, so every order is allowed here.        *)
(***************************************************************************)
Ready == proc = "up" /\ cmd = "idle"
At(step) == proc = "up" /\ cmd = step

(***************************************************************************)
(* conf.  rte_eal_init may be called once in a process: init_eal leaves    *)
(* the process when it fails, for the first call and for every later one.  *)
(* A connection that is none, or has no DPDKReceiver, throws before that   *)
(* call, and changes nothing.                                              *)
(***************************************************************************)
(* Mutant: init_eal does nothing when the EAL is up already.               *)
ConfInitEalAgain ==
  /\ Ready
  /\ ealUp' = TRUE
  /\ cmd' = "conf"
  /\ todo' = Ifaces
  /\ UNCHANGED <<proc, todoL, cur, wrapped, runMarker, sigVars, garp, lcoreVars>>

ConfInitEal ==
  /\ Ready
  /\ ~ealUp
  /\ ealUp' = TRUE
  /\ cmd' = "conf"
  /\ todo' = Ifaces
  /\ UNCHANGED <<proc, todoL, cur, wrapped, runMarker, sigVars, garp, lcoreVars>>

ConfInitEalFails ==
  /\ Ready
  /\ proc' = "exited"
  /\ UNCHANGED <<ealUp, cmd, todo, todoL, cur, wrapped, runMarker,
                 sigVars, garp, lcoreVars>>

(* The wrapper is constructed, its mbufs, queues and flow rules set up.    *)
ConfIface(i) ==
  /\ At("conf")
  /\ i \in todo
  /\ wrapped' = wrapped \cup {i}
  /\ todo' = todo \ {i}
  /\ UNCHANGED <<proc, ealUp, cmd, todoL, cur, runMarker, sigVars, garp, lcoreVars>>

(* A sender of the wrong type or a missing interface throws before the     *)
(* wrapper is in m_ifaces, setup_interface after: the command is over.     *)
ConfIfaceThrows(i) ==
  /\ At("conf")
  /\ i \in todo
  /\ wrapped' \in {wrapped, wrapped \cup {i}}
  /\ cmd' = "idle"
  /\ todo' = {}
  /\ UNCHANGED <<proc, ealUp, todoL, cur, runMarker, sigVars, garp, lcoreVars>>

(* get_mempool and setup_flow_steering call rte_exit.                      *)
ConfIfaceExits ==
  /\ At("conf")
  /\ todo # {}
  /\ proc' = "exited"
  /\ UNCHANGED <<ealUp, cmd, todo, todoL, cur, wrapped, runMarker,
                 sigVars, garp, lcoreVars>>

ConfLaunch ==
  /\ At("conf")
  /\ todo = {}
  /\ IF runMarker
       THEN cmd' = "idle" /\ UNCHANGED <<runMarker, todo>>
       ELSE cmd' = "launch" /\ runMarker' = TRUE /\ todo' = wrapped
  /\ UNCHANGED <<proc, ealUp, todoL, cur, wrapped, sigVars, garp, lcoreVars>>

(* Mutant: the loop over m_rx_core_map misses one lcore.                   *)
StartIfaceMissesLcore(i) ==
  /\ At("launch")
  /\ todoL = {}
  /\ i \in todo
  /\ flowOn' = flowOn \ {i}
  /\ quit' = quit \ {i}
  /\ garp' = [garp EXCEPT ![i] = "test"]
  /\ cur' = i
  /\ todo' = todo \ {i}
  /\ todoL' = LcoresOf[i] \ {CHOOSE l \in LcoresOf[i] : TRUE}
  /\ UNCHANGED <<proc, ealUp, cmd, wrapped, runMarker, acquired, lcoreVars>>

(* IfaceWrapper::start up to the GARP thread; assigning to a thread that   *)
(* is joinable terminates the process.                                     *)
StartIface(i) ==
  /\ At("launch")
  /\ todoL = {}
  /\ i \in todo
  /\ flowOn' = flowOn \ {i}
  /\ quit' = quit \ {i}
  /\ IF garp[i] = "none"
       THEN garp' = [garp EXCEPT ![i] = "test"] /\ UNCHANGED proc
       ELSE proc' = "terminated" /\ UNCHANGED garp
  /\ cur' = i
  /\ todo' = todo \ {i}
  /\ todoL' = LcoresOf[i]
  /\ UNCHANGED <<ealUp, cmd, wrapped, runMarker, acquired, lcoreVars>>

(* rte_eal_remote_launch returns -EBUSY for an lcore that is not waiting.  *)
LaunchLcore(l) ==
  /\ At("launch")
  /\ l \in todoL
  /\ todoL' = todoL \ {l}
  /\ IF lpc[l] = "wait"
       THEN /\ lpc' = [lpc EXCEPT ![l] = "check"]
            /\ owner' = [owner EXCEPT ![l] = cur]
            /\ late' = [late EXCEPT ![l] = 0]
       ELSE UNCHANGED <<lpc, owner, late>>
  /\ UNCHANGED <<proc, ealUp, cmd, todo, cur, wrapped, runMarker, sigVars, garp, left>>

ConfDone ==
  /\ At("launch")
  /\ todo = {}
  /\ todoL = {}
  /\ cmd' = "idle"
  /\ cur' = NoIface
  /\ UNCHANGED <<proc, ealUp, todo, todoL, wrapped, runMarker, sigVars, garp, lcoreVars>>

(***************************************************************************)
(* start: every source acquires its callback, then every interface opens   *)
(* its flow.                                                               *)
(***************************************************************************)
(* Mutant: the flow is enabled and no callback was acquired before.        *)
StartCommandSkipsCallbacks ==
  /\ Ready
  /\ cmd' = "enable"
  /\ todo' = wrapped
  /\ UNCHANGED <<proc, ealUp, todoL, cur, wrapped, runMarker, sigVars, garp, lcoreVars>>

StartCommand ==
  /\ Ready
  /\ cmd' = "acquire"
  /\ UNCHANGED <<proc, ealUp, todo, todoL, cur, wrapped, runMarker,
                 sigVars, garp, lcoreVars>>

AcquireCallback(s) ==
  /\ At("acquire")
  /\ s \in CallbackSources \ acquired
  /\ acquired' = acquired \cup {s}
  /\ UNCHANGED <<proc, ealUp, cmd, todo, todoL, cur, wrapped, runMarker,
                 flowOn, quit, garp, lcoreVars>>

CallbacksAcquired ==
  /\ At("acquire")
  /\ CallbackSources \subseteq acquired
  /\ cmd' = "enable"
  /\ todo' = wrapped
  /\ UNCHANGED <<proc, ealUp, todoL, cur, wrapped, runMarker, sigVars, garp, lcoreVars>>

EnableFlow(i) ==
  /\ At("enable")
  /\ i \in todo
  /\ todo' = todo \ {i}
  /\ flowOn' = flowOn \cup {i}
  /\ late' = [l \in Lcores |-> IF owner[l] = i THEN 0 ELSE late[l]]
  /\ UNCHANGED <<proc, ealUp, cmd, todoL, cur, wrapped, runMarker, quit, acquired,
                 garp, lpc, owner, left>>

(***************************************************************************)
(* stop_trigger_sources closes the flow of every interface and leaves the  *)
(* lcores polling.                                                         *)
(***************************************************************************)
StopCommand ==
  /\ Ready
  /\ cmd' = "disable"
  /\ todo' = wrapped
  /\ UNCHANGED <<proc, ealUp, todoL, cur, wrapped, runMarker, sigVars, garp, lcoreVars>>

DisableFlow(i) ==
  /\ At("disable")
  /\ i \in todo
  /\ todo' = todo \ {i}
  /\ flowOn' = flowOn \ {i}
  /\ UNCHANGED <<proc, ealUp, cmd, todoL, cur, wrapped, runMarker, quit, acquired,
                 garp, lcoreVars>>

(* The loop of start or of stop_trigger_sources is over.                   *)
FlowLoopDone ==
  /\ At("enable") \/ At("disable")
  /\ todo = {}
  /\ cmd' = "idle"
  /\ UNCHANGED <<proc, ealUp, todo, todoL, cur, wrapped, runMarker,
                 sigVars, garp, lcoreVars>>

(***************************************************************************)
(* scrap clears the run marker, on which the GARP threads exit, raises the *)
(* quit signal of every interface and joins its GARP thread, then waits    *)
(* for the lcores.  m_ifaces keeps the wrappers.                           *)
(***************************************************************************)
(* Mutant: the wrappers are stopped before the run marker is cleared.      *)
ScrapCommandKeepsMarker ==
  /\ Ready
  /\ runMarker
  /\ cmd' = "stop"
  /\ todo' = wrapped
  /\ UNCHANGED <<proc, ealUp, todoL, cur, wrapped, runMarker, sigVars, garp, lcoreVars>>

ScrapCommand ==
  /\ Ready
  /\ runMarker
  /\ runMarker' = FALSE
  /\ cmd' = "stop"
  /\ todo' = wrapped
  /\ UNCHANGED <<proc, ealUp, todoL, cur, wrapped, sigVars, garp, lcoreVars>>

(* Mutant: IfaceWrapper::stop returns without joining the GARP thread.     *)
StopIfaceNoJoin(i) ==
  /\ At("stop")
  /\ i \in todo
  /\ flowOn' = flowOn \ {i}
  /\ quit' = quit \cup {i}
  /\ todo' = todo \ {i}
  /\ UNCHANGED <<proc, ealUp, cmd, todoL, cur, wrapped, runMarker, acquired, garp,
                 lcoreVars>>

StopIface(i) ==
  /\ At("stop")
  /\ i \in todo
  /\ flowOn' = flowOn \ {i}
  /\ quit' = quit \cup {i}
  /\ todo' = todo \ {i}
  /\ cmd' = "join"
  /\ cur' = i
  /\ UNCHANGED <<proc, ealUp, todoL, wrapped, runMarker, acquired, garp, lcoreVars>>

(* The end of IfaceWrapper::stop: a thread that is joinable is joined.     *)
JoinGarp ==
  /\ At("join")
  /\ garp[cur] \in {"none", "exited"}
  /\ garp' = [garp EXCEPT ![cur] = "none"]
  /\ cmd' = "stop"
  /\ cur' = NoIface
  /\ UNCHANGED <<proc, ealUp, todo, todoL, wrapped, runMarker, sigVars, lcoreVars>>

(* Mutant: scrap does not call wait_for_lcores.                            *)
AllStoppedNoWait ==
  /\ At("stop")
  /\ todo = {}
  /\ cmd' = "idle"
  /\ UNCHANGED <<proc, ealUp, todo, todoL, cur, wrapped, runMarker, sigVars, garp,
                 lcoreVars>>

AllStopped ==
  /\ At("stop")
  /\ todo = {}
  /\ cmd' = "wait"
  /\ UNCHANGED <<proc, ealUp, todo, todoL, cur, wrapped, runMarker, sigVars, garp,
                 lcoreVars>>

WaitForLcores ==
  /\ At("wait")
  /\ \A l \in Lcores : lpc[l] = "wait"
  /\ cmd' = "idle"
  /\ UNCHANGED <<proc, ealUp, todo, todoL, cur, wrapped, runMarker, sigVars, garp,
                 lcoreVars>>

(***************************************************************************)
(* The destructor.  Nothing in it, or in the destructor of IfaceWrapper,   *)
(* stops a thread.                                                         *)
(***************************************************************************)
(* No thread of a wrapper exists, no lcore runs.                           *)
Quiet ==
  /\ \A i \in Ifaces : garp[i] = "none"
  /\ \A l \in Lcores : lpc[l] = "wait"

(* finish_eal; it takes their memory from threads that still run.          *)
Destroy ==
  /\ Ready
  /\ ExitWithoutScrap \/ ~runMarker
  /\ cmd' = "destroy"
  /\ todo' = wrapped
  /\ proc' \in IF Quiet THEN {"up"} ELSE {"up", "crashed"}
  /\ UNCHANGED <<ealUp, todoL, cur, wrapped, runMarker, sigVars, garp, lcoreVars>>

(* Then the members are destroyed, m_ifaces with the wrappers.  Destroying *)
(* a std::thread that is joinable terminates the process.                  *)
DestroyIface(i) ==
  /\ At("destroy")
  /\ i \in todo
  /\ todo' = todo \ {i}
  /\ wrapped' = wrapped \ {i}
  /\ proc' = IF garp[i] = "none" THEN proc ELSE "terminated"
  /\ UNCHANGED <<ealUp, cmd, todoL, cur, runMarker, sigVars, garp, lcoreVars>>

Destroyed ==
  /\ At("destroy")
  /\ todo = {}
  /\ proc' = "gone"
  /\ UNCHANGED <<ealUp, cmd, todo, todoL, cur, wrapped, runMarker, sigVars, garp,
                 lcoreVars>>

(***************************************************************************)
(* garp_func, the GARP thread of an interface: it tests the run marker of  *)
(* the module, not the quit signal of its wrapper, between two rounds.     *)
(***************************************************************************)
GarpTest(i) ==
  /\ proc = "up"
  /\ garp[i] = "test"
  /\ garp' = [garp EXCEPT ![i] = IF runMarker THEN "send" ELSE "exited"]
  /\ UNCHANGED <<ctlVars, sigVars, lcoreVars>>

GarpSend(i) ==
  /\ proc = "up"
  /\ garp[i] = "send"
  /\ garp' = [garp EXCEPT ![i] = "test"]
  /\ UNCHANGED <<ctlVars, sigVars, lcoreVars>>

(***************************************************************************)
(* rx_runner.  A pass that takes no frame changes nothing.                 *)
(***************************************************************************)
Running(l, step) == proc = "up" /\ lpc[l] = step

(* Mutant: a burst may be one frame longer than its array.                 *)
TakeBurstPlusOne(l) ==
  /\ Running(l, "check")
  /\ owner[l] \notin quit
  /\ \E n \in 1..(MaxBurst + 1) : left' = [left EXCEPT ![l] = n]
  /\ lpc' = [lpc EXCEPT ![l] = "packet"]
  /\ UNCHANGED <<ctlVars, sigVars, garp, owner, late>>

TakeBurst(l) ==
  /\ Running(l, "check")
  /\ owner[l] \notin quit
  /\ \E n \in 1..MaxBurst : left' = [left EXCEPT ![l] = n]
  /\ lpc' = [lpc EXCEPT ![l] = "packet"]
  /\ UNCHANGED <<ctlVars, sigVars, garp, owner, late>>

ReturnFromRunner(l) ==
  /\ Running(l, "check")
  /\ owner[l] \in quit
  /\ lpc' = [lpc EXCEPT ![l] = "wait"]
  /\ owner' = [owner EXCEPT ![l] = NoIface]
  /\ UNCHANGED <<ctlVars, sigVars, garp, left, late>>

(* A frame of at most 7000 bytes, or any frame while the flow is disabled. *)
SkipFrame(l) ==
  /\ Running(l, "packet")
  /\ left[l] > 0
  /\ left' = [left EXCEPT ![l] = @ - 1]
  /\ UNCHANGED <<ctlVars, sigVars, garp, lpc, owner, late>>

(* A longer frame reads the flag, and is handled in a later step.          *)
AcceptFrame(l) ==
  /\ Running(l, "packet")
  /\ left[l] > 0
  /\ owner[l] \in flowOn
  /\ lpc' = [lpc EXCEPT ![l] = "deliver"]
  /\ UNCHANGED <<ctlVars, sigVars, garp, owner, left, late>>

(* SourceModel::handle_payload dereferences the callback without a test.   *)
CanTake(s) == s \in CallbackSources => s \in acquired

LateAfter(l) == IF owner[l] \in flowOn THEN late[l] ELSE late[l] + 1

(* Mutant: the flag is read once for a whole burst.                        *)
DeliverFlagReadOnce(l, s) ==
  /\ Running(l, "deliver")
  /\ left' = [left EXCEPT ![l] = @ - 1]
  /\ lpc' = [lpc EXCEPT ![l] = IF left[l] > 1 THEN "deliver" ELSE "packet"]
  /\ late' = [late EXCEPT ![l] = LateAfter(l)]
  /\ UNCHANGED <<ctlVars, sigVars, garp, owner>>

Deliver(l, s) ==
  /\ Running(l, "deliver")
  /\ left' = [left EXCEPT ![l] = @ - 1]
  /\ lpc' = [lpc EXCEPT ![l] = "packet"]
  /\ late' = [late EXCEPT ![l] = LateAfter(l)]
  /\ proc' = IF CanTake(s) THEN proc ELSE "nullcall"
  /\ UNCHANGED <<ealUp, cmd, todo, todoL, cur, wrapped, runMarker, sigVars, garp,
                 owner>>

(* The stream leads to no source: the frame is only counted.               *)
CountUnexpected(l) ==
  /\ Running(l, "deliver")
  /\ left' = [left EXCEPT ![l] = @ - 1]
  /\ lpc' = [lpc EXCEPT ![l] = "packet"]
  /\ UNCHANGED <<ctlVars, sigVars, garp, owner, late>>

(* The mbufs of the burst go back to their pool.                           *)
BurstDone(l) ==
  /\ Running(l, "packet")
  /\ left[l] = 0
  /\ lpc' = [lpc EXCEPT ![l] = "check"]
  /\ UNCHANGED <<ctlVars, sigVars, garp, owner, left, late>>

NewCommand ==
  \/ ConfInitEal \/ ConfInitEalFails
  \/ StartCommand \/ StopCommand \/ ScrapCommand \/ Destroy

ConfStep ==
  \/ \E i \in Ifaces : ConfIface(i) \/ ConfIfaceThrows(i) \/ StartIface(i)
  \/ \E l \in Lcores : LaunchLcore(l)
  \/ ConfIfaceExits \/ ConfLaunch \/ ConfDone

FlowStep ==
  \/ \E s \in Sources : AcquireCallback(s)
  \/ \E i \in Ifaces : EnableFlow(i) \/ DisableFlow(i)
  \/ CallbacksAcquired \/ FlowLoopDone

ScrapStep ==
  \/ \E i \in Ifaces : StopIface(i)
  \/ JoinGarp \/ AllStopped \/ WaitForLcores

DestroyStep == (\E i \in Ifaces : DestroyIface(i)) \/ Destroyed

CommandStep == ConfStep \/ FlowStep \/ ScrapStep \/ DestroyStep

GarpStep(i) == GarpTest(i) \/ GarpSend(i)

LcoreStep(l) ==
  \/ TakeBurst(l) \/ ReturnFromRunner(l) \/ SkipFrame(l) \/ AcceptFrame(l)
  \/ CountUnexpected(l) \/ BurstDone(l)
  \/ \E s \in Sources : Deliver(l, s)

Next ==
  \/ NewCommand
  \/ CommandStep
  \/ \E i \in Ifaces : GarpStep(i)
  \/ \E l \in Lcores : LcoreStep(l)

Spec == Init /\ [][Next]_vars

(***************************************************************************)
(* The operating system runs every thread: a command in progress, a GARP   *)
(* thread and an lcore take a step whenever they can; a callback comes     *)
(* back (RxPath says what is left if one does not).  No command need ever  *)
(* arrive.                                                                 *)
(***************************************************************************)
Fairness ==
  /\ WF_vars(CommandStep)
  /\ \A i \in Ifaces : WF_vars(GarpStep(i))
  /\ \A l \in Lcores : WF_vars(LcoreStep(l))

FairSpec == Spec /\ Fairness

-----------------------------------------------------------------------------

(***************************************************************************)
(* An lcore never calls a callback that was not acquired, whatever order   *)
(* the commands come in: the order of the two loops of do_start protects   *)
(* SourceModel::handle_payload.                                            *)
(***************************************************************************)
NoNullCallback == proc # "nullcall"

(***************************************************************************)
(* rx_runner reads the flag and hands the frame over in two steps, so a    *)
(* frame may reach a source after stop_trigger_sources returned: at most   *)
(* one per lcore, until the flow is enabled again.                         *)
(***************************************************************************)
AtMostOneLateFrame == \A l \in Lcores : late[l] <= 1

(***************************************************************************)
(* Between commands, with the run marker cleared (before conf, after a     *)
(* conf that failed, after scrap) no GARP thread exists and no lcore runs. *)
(***************************************************************************)
QuietWhenNotRunning == Ready /\ ~runMarker => Quiet

(***************************************************************************)
(* Between commands, with the run marker set, every lcore of every         *)
(* interface executes rx_runner for that interface: no receive queue is    *)
(* without a poller.  It needs DisjointLcores.                             *)
(***************************************************************************)
EveryQueuePolled ==
  Ready /\ runMarker =>
    \A i \in Ifaces : \A l \in LcoresOf[i] : lpc[l] # "wait" /\ owner[l] = i

(***************************************************************************)
(* "First stop check, then closing iface", says the destructor of          *)
(* IfaceWrapper: when a wrapper is not there, or no longer, none of its    *)
(* threads is.                                                             *)
(***************************************************************************)
StoppedWhenDestroyed ==
  \A i \in Ifaces \ wrapped :
    /\ garp[i] = "none"
    /\ \A l \in Lcores : owner[l] # i

(***************************************************************************)
(* Every command comes to an end, scrap with its join and its wait         *)
(* included, or the process does.                                          *)
(***************************************************************************)
CommandsReturn == cmd # "idle" ~> cmd = "idle" \/ proc # "up"
(***************************************************************************)
(* A scrap is final, and so is a conf that threw: whatever commands come   *)
(* afterwards, a second conf included, no lcore is launched again in this  *)
(* process.                                                                *)
(***************************************************************************)
ScrapIsFinal == [](ealUp /\ cmd = "idle" /\ ~runMarker => []~runMarker)
=============================================================================
