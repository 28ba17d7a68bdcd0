------------------------------ MODULE NICSender ------------------------------
(***************************************************************************)
(* The test sender: a module with the commands conf, start, stop and       *)
(* scrap, whose lcores send the same batch of messages for every board,    *)
(* over and over, until the run mark falls.                                *)
(*                                                                         *)
(* An lcore allocates one array of mbufs, pkt, before its loop, and fills  *)
(* and hands over these mbufs again and again.  mbuf i is kept as what it  *)
(* holds: the message of the current batch last written into it, or Old.   *)
(* Time stamps, addresses and the rate limiter are left out; so is what    *)
(* the NIC makes of an mbuf after the driver has taken it.  Every          *)
(* configuration gives the same sizes and as many addresses as boards.     *)
(***************************************************************************)
EXTENDS Naturals, FiniteSets

CONSTANTS
  Cores,          (* Lcores a core list may name.                          *)
  NumberOfCores,  (* m_number_of_cores, the transmit queues of device 0.   *)
  BoardsPerCore,  (* m_number_of_ips_per_core.                             *)
  BurstSize,      (* m_burst_size.                                         *)
  Batch           (* Messages of a board in one round: 64 in the code.     *)

(* Lcore lid sends on queue lid - 1 without looking whether there is one.  *)
ASSUME CoreAssumption == NumberOfCores \in Nat /\ Cores \subseteq 1..NumberOfCores
ASSUME SizeAssumption ==
  BoardsPerCore \in Nat /\ BurstSize \in Nat \ {0} /\ Batch \in Nat \ {0}

VARIABLES
  proc,     (* The process: up, or how it ended.                           *)
  cleaned,  (* rte_eal_cleanup has been called.                            *)
  cmd,      (* The command thread: idle, launch, stop.                     *)
  todo,     (* Cores do_start has still to launch.                         *)
  ealUp,    (* rte_eal_init has been called.                               *)
  devUp,    (* iface_init has started device 0.                            *)
  coreMap,  (* Keys of m_core_map so far.                                  *)
  ips,      (* Keys of m_core_map32 so far.                                *)
  tde,      (* m_frontend_type is "tde".                                   *)
  runMark,  (* m_run_mark.                                                 *)
  lpc,      (* Every lcore: wait (the EAL state), prepare, test, board,    *)
            (* fill, send, free.                                           *)
  listed,   (* Lcores that have found their addresses.                     *)
  board,    (* board_index.                                                *)
  count,    (* batch_count.                                                *)
  pkt,      (* What the mbufs of the array hold.                           *)
  sent,     (* sent: packets the driver took of this burst.                *)
  nbTx,     (* nb_tx: the answer of the last call.                         *)
  handed,   (* History: how often each message of the batch was taken.     *)
  given,    (* History: mbufs the driver took of this burst.               *)
  short,    (* History: a call of this batch took less than it was offered.*)
  misfreed  (* History: mbufs of this batch freed although the driver had  *)
            (* taken them.                                                 *)

confVars == <<ealUp, devUp, coreMap, ips, tde>>
cmdVars == <<cleaned, cmd, todo, confVars, runMark>>
sendVars == <<pkt, sent, nbTx>>
histVars == <<handed, given, short, misfreed>>
lcoreVars == <<lpc, listed, board, count, sendVars, histVars>>
vars == <<proc, cleaned, cmd, todo, ealUp, devUp, coreMap, ips, tde, runMark, lpc,
          listed, board, count, pkt, sent, nbTx, handed, given, short, misfreed>>

Mbufs == 1..BurstSize
Messages == 1..Batch
Old == 0
NoneHanded == [m \in Messages |-> 0]

Init ==
  /\ proc = "up"
  /\ cleaned = FALSE
  /\ cmd = "idle"
  /\ todo = {}
  /\ ealUp = FALSE
  /\ devUp = FALSE
  /\ coreMap = {}
  /\ ips = {}
  /\ tde = FALSE
  /\ runMark = FALSE
  /\ lpc = [l \in Cores |-> "wait"]
  /\ listed = {}
  /\ board = [l \in Cores |-> 0]
  /\ count = [l \in Cores |-> 0]
  /\ pkt = [l \in Cores |-> [i \in Mbufs |-> Old]]
  /\ sent = [l \in Cores |-> 0]
  /\ nbTx = [l \in Cores |-> 0]
  /\ handed = [l \in Cores |-> NoneHanded]
  /\ given = [l \in Cores |-> {}]
  /\ short = [l \in Cores |-> FALSE]
  /\ misfreed = [l \in Cores |-> {}]

Ready == proc = "up" /\ cmd = "idle"

(* Undefined behaviour: the process dies, or nothing comes of it.          *)
CrashIf(undefined) == proc' \in IF undefined THEN {"up", "crashed"} ELSE {"up"}

(***************************************************************************)
(* The commands, in any order.  scrap does nothing.                        *)
(***************************************************************************)
(* do_configure.  iface_init throws where the device is not started; the   *)
(* maps and the front end are set by then.                                 *)
Configure ==
  /\ Ready
  /\ ~ealUp
  /\ ealUp' = TRUE
  /\ \E list \in SUBSET Cores :
       /\ coreMap' = coreMap \cup list
       /\ ips' = ips \cup list
  /\ tde' \in BOOLEAN
  /\ devUp' \in BOOLEAN
  /\ UNCHANGED <<proc, cleaned, cmd, todo, runMark, lcoreVars>>

(* rte_eal_init fails: the first time, or because it is called again.      *)
ConfigureExits ==
  /\ Ready
  /\ proc' = "exited"
  /\ UNCHANGED <<cmdVars, lcoreVars>>

(* An address is no address: std::stoi or substr throws, after some of the *)
(* list is in the maps, its lcore in m_core_map only; EAL is not touched.  *)
(* An lcore that is reading m_core_map32 does so without a lock.           *)
ConfigureThrows ==
  /\ Ready
  /\ \E done \in SUBSET Cores : \E failing \in Cores \ done :
       /\ coreMap' = coreMap \cup done \cup {failing}
       /\ ips' = ips \cup done
  /\ tde' \in BOOLEAN
  /\ CrashIf(\E l \in Cores : lpc[l] = "prepare")
  /\ UNCHANGED <<cleaned, cmd, todo, ealUp, devUp, runMark, lcoreVars>>

(* do_start.                                                               *)
Start ==
  /\ Ready
  /\ runMark' = TRUE
  /\ cmd' = "launch"
  /\ todo' = IF tde THEN coreMap ELSE {}
  /\ UNCHANGED <<proc, cleaned, confVars, lcoreVars>>

(* rte_eal_remote_launch refuses an lcore that is not waiting; its answer  *)
(* is not looked at.                                                       *)
Launch(l) ==
  /\ proc = "up" /\ cmd = "launch"
  /\ ealUp
  /\ l \in todo
  /\ todo' = todo \ {l}
  /\ lpc' = [lpc EXCEPT ![l] = IF @ = "wait" THEN "prepare" ELSE @]
  /\ CrashIf(cleaned)
  /\ UNCHANGED <<cleaned, cmd, confVars, runMark, listed, board, count, sendVars,
                 histVars>>

(* Without EAL there is no lcore: the call may die, may wait for ever (the *)
(* step is never taken), or come back.                                     *)
LaunchWithoutEal(l) ==
  /\ proc = "up" /\ cmd = "launch"
  /\ ~ealUp
  /\ l \in todo
  /\ todo' = todo \ {l}
  /\ CrashIf(TRUE)
  /\ UNCHANGED <<cleaned, cmd, confVars, runMark, lcoreVars>>

Launched ==
  /\ proc = "up" /\ cmd = "launch"
  /\ todo = {}
  /\ cmd' = "idle"
  /\ UNCHANGED <<proc, cleaned, todo, confVars, runMark, lcoreVars>>

(* Mutant: do_stop leaves the run mark set.                                *)
StopKeepsMark ==
  /\ Ready
  /\ cmd' = "stop"
  /\ UNCHANGED <<proc, cleaned, todo, confVars, runMark, lcoreVars>>

(* do_stop; in the five seconds it sleeps the lcores may, or may not, see  *)
(* the mark.                                                               *)
Stop ==
  /\ Ready
  /\ runMark' = FALSE
  /\ cmd' = "stop"
  /\ UNCHANGED <<proc, cleaned, todo, confVars, lcoreVars>>

(* Mutant: no lcore is waited for.                                         *)
CleanUpAtOnce ==
  /\ proc = "up" /\ cmd = "stop"
  /\ cleaned' = TRUE
  /\ cmd' = "idle"
  /\ CrashIf(~ealUp \/ cleaned)
  /\ UNCHANGED <<todo, confVars, runMark, lcoreVars>>

(* rte_eal_wait_lcore(1), whatever lcores there are, and rte_eal_cleanup.  *)
(* The module stays, and so do the lcores nobody waited for.               *)
CleanUp ==
  /\ proc = "up" /\ cmd = "stop"
  /\ 1 \in Cores => lpc[1] = "wait"
  /\ cleaned' = TRUE
  /\ cmd' = "idle"
  /\ CrashIf(~ealUp \/ cleaned)
  /\ UNCHANGED <<todo, confVars, runMark, lcoreVars>>

(***************************************************************************)
(* lcore_main.  After rte_eal_cleanup its mbufs and its device are used    *)
(* all the same.                                                           *)
(***************************************************************************)
Running(l, place) == proc = "up" /\ lpc[l] = place

Goto(l, place) == lpc' = [lpc EXCEPT ![l] = place]

(* The addresses, the pool, the thread that prints the rate, and the       *)
(* mbufs.  A pool that could not be created is used all the same.          *)
Prepare(l) ==
  /\ Running(l, "prepare")
  /\ listed' = listed \cup ({l} \cap ips)
  /\ CrashIf(TRUE)
  /\ Goto(l, "test")
  /\ UNCHANGED <<cmdVars, board, count, sendVars, histVars>>

(* A round over the boards, while the run mark is set.                     *)
StartRound(l) ==
  /\ Running(l, "test")
  /\ runMark
  /\ Goto(l, "board")
  /\ board' = [board EXCEPT ![l] = 0]
  /\ UNCHANGED <<proc, cmdVars, listed, count, sendVars, histVars>>

(* The return destroys the thread that prints the rate, which nobody has   *)
(* joined: std::terminate.                                                 *)
Return(l) ==
  /\ Running(l, "test")
  /\ ~runMark
  /\ proc' = "terminated"
  /\ UNCHANGED <<cmdVars, lcoreVars>>

(* ips[board_index], of an empty vector if no addresses were found.        *)
StartBatch(l) ==
  /\ Running(l, "board")
  /\ board[l] < BoardsPerCore
  /\ Goto(l, "fill")
  /\ count' = [count EXCEPT ![l] = 0]
  /\ CrashIf(l \notin listed)
  /\ UNCHANGED <<cmdVars, listed, board, sendVars, histVars>>

RoundDone(l) ==
  /\ Running(l, "board")
  /\ board[l] = BoardsPerCore
  /\ Goto(l, "test")
  /\ CrashIf(cleaned)
  /\ UNCHANGED <<cmdVars, listed, board, count, sendVars, histVars>>

(* Messages written in one turn of the filling loop.                       *)
Filled(l) ==
  IF count[l] + BurstSize <= Batch THEN BurstSize ELSE Batch - count[l]

(* Mutant: every burst takes its messages from the first on.               *)
MessageInFromFirst(l, i) == i

(* The message the filling loop writes into mbuf i.                        *)
MessageIn(l, i) == count[l] + i

Fill(l) ==
  /\ Running(l, "fill")
  /\ count[l] < Batch
  /\ pkt' = [pkt EXCEPT ![l] =
               [i \in Mbufs |-> IF i <= Filled(l) THEN MessageIn(l, i) ELSE @[i]]]
  /\ count' = [count EXCEPT ![l] = @ + Filled(l)]
  /\ sent' = [sent EXCEPT ![l] = 0]
  /\ nbTx' = [nbTx EXCEPT ![l] = 0]
  /\ given' = [given EXCEPT ![l] = {}]
  /\ Goto(l, "send")
  /\ CrashIf(cleaned)
  /\ UNCHANGED <<cmdVars, listed, board, handed, short, misfreed>>

(* What the array holds is of no current batch any more.                   *)
BatchDone(l) ==
  /\ Running(l, "fill")
  /\ count[l] = Batch
  /\ board' = [board EXCEPT ![l] = @ + 1]
  /\ Goto(l, "board")
  /\ pkt' = [pkt EXCEPT ![l] = [i \in Mbufs |-> Old]]
  /\ handed' = [handed EXCEPT ![l] = NoneHanded]
  /\ given' = [given EXCEPT ![l] = {}]
  /\ short' = [short EXCEPT ![l] = FALSE]
  /\ misfreed' = [misfreed EXCEPT ![l] = {}]
  /\ UNCHANGED <<proc, cmdVars, listed, count, sent, nbTx>>

TimesOffered(l, m, n) == Cardinality({i \in 1..n : pkt[l][i] = m})

(* Mutant: the burst is offered again from the next mbuf on, but whole.    *)
OfferedWhole(l) == BurstSize

Offered(l) == BurstSize - sent[l]

(* rte_eth_tx_burst takes the first n of the mbufs it is offered, which    *)
(* are the first of the array every time; a device that was not started    *)
(* takes none.                                                             *)
TxBurst(l, n) ==
  /\ Running(l, "send")
  /\ sent[l] < BurstSize
  /\ n <= Offered(l)
  /\ ~devUp => n = 0
  /\ nbTx' = [nbTx EXCEPT ![l] = n]
  /\ sent' = [sent EXCEPT ![l] = @ + n]
  /\ handed' = [handed EXCEPT ![l] = [m \in Messages |-> @[m] + TimesOffered(l, m, n)]]
  /\ given' = [given EXCEPT ![l] = @ \cup 1..n]
  /\ short' = [short EXCEPT ![l] = @ \/ n < Offered(l)]
  /\ CrashIf(cleaned)
  /\ UNCHANGED <<cmdVars, lpc, listed, board, count, pkt, misfreed>>

BurstSent(l) ==
  /\ Running(l, "send")
  /\ sent[l] >= BurstSize
  /\ Goto(l, "free")
  /\ UNCHANGED <<proc, cmdVars, listed, board, count, sendVars, histVars>>

(* "Free any unsent packets": those from the last nb_tx on.                *)
Freed(l) == {i \in Mbufs : i > nbTx[l]}

FreeUnsent(l) ==
  /\ Running(l, "free")
  /\ misfreed' = [misfreed EXCEPT ![l] = @ \cup (Freed(l) \cap given[l])]
  /\ Goto(l, "fill")
  /\ CrashIf(cleaned)
  /\ UNCHANGED <<cmdVars, listed, board, count, sendVars, handed, given, short>>

CommandStep == (\E l \in Cores : Launch(l)) \/ Launched \/ CleanUp

LcoreStep(l) ==
  \/ Prepare(l) \/ StartRound(l) \/ Return(l) \/ StartBatch(l) \/ RoundDone(l)
  \/ Fill(l) \/ BatchDone(l) \/ BurstSent(l) \/ FreeUnsent(l)
  \/ \E n \in 0..BurstSize : TxBurst(l, n)

Next ==
  \/ Configure \/ ConfigureExits \/ ConfigureThrows \/ Start \/ Stop
  \/ CommandStep
  \/ \E l \in Cores : LaunchWithoutEal(l)
  \/ \E l \in Cores : LcoreStep(l)

Spec == Init /\ [][Next]_vars

(* An lcore has a core of its own, and a device that is up takes packets   *)
(* again after a while, as long as EAL was not cleaned up.                 *)
Sends(l) == ~cleaned /\ \E n \in 1..BurstSize : TxBurst(l, n)

FairSpec ==
  /\ Spec
  /\ WF_vars(CommandStep)
  /\ \A l \in Cores : WF_vars(LcoreStep(l)) /\ SF_vars(Sends(l))

-----------------------------------------------------------------------------
TypeOK ==
  /\ proc \in {"up", "exited", "crashed", "terminated"}
  /\ cleaned \in BOOLEAN
  /\ cmd \in {"idle", "launch", "stop"}
  /\ todo \subseteq Cores
  /\ ealUp \in BOOLEAN /\ devUp \in BOOLEAN /\ tde \in BOOLEAN /\ runMark \in BOOLEAN
  /\ coreMap \subseteq Cores /\ ips \subseteq Cores /\ listed \subseteq Cores
  /\ lpc \in [Cores -> {"wait", "prepare", "test", "board", "fill", "send", "free"}]
  /\ board \in [Cores -> 0..BoardsPerCore]
  /\ count \in [Cores -> 0..Batch]
  /\ pkt \in [Cores -> [Mbufs -> Messages \cup {Old}]]
  /\ sent \in [Cores -> 0..BurstSize]
  /\ nbTx \in [Cores -> 0..BurstSize]
  /\ handed \in [Cores -> [Messages -> Nat]]
  /\ given \in [Cores -> SUBSET Mbufs]
  /\ short \in [Cores -> BOOLEAN]
  /\ misfreed \in [Cores -> SUBSET Mbufs]

(***************************************************************************)
(* Unless the driver took less than it was offered, a message is handed    *)
(* over as soon as its burst is sent; and no message of the batch twice, if *)
(* the bursts fill the batch evenly (else the last burst is sent with what  *)
(* an earlier one left in the array).                                      *)
(***************************************************************************)
Even == \E k \in 1..Batch : k * BurstSize = Batch

HandedOverOnce ==
  \A l \in Cores : ~short[l] =>
    /\ lpc[l] = "fill" => \A m \in 1..count[l] : handed[l][m] >= 1
    /\ Even => \A m \in Messages : handed[l][m] <= 1

(***************************************************************************)
(* "Free any unsent packets" (the comment in lcore_main): no mbuf is freed *)
(* that the driver has taken.                                              *)
(***************************************************************************)
FreesOnlyUnsent == \A l \in Cores : misfreed[l] = {}

(***************************************************************************)
(* The first stop of a sender whose device was started comes back, or the  *)
(* process ends: no lcore sends so long that do_stop waits for ever.  (If  *)
(* the device was not started, or EAL was cleaned up before, lcore 1 may   *)
(* offer packets for ever, and stop wait for it for ever.)                 *)
(***************************************************************************)
StopEnds ==
  cmd = "stop" /\ devUp /\ ~cleaned ~> cmd = "idle" \/ proc # "up"

(***************************************************************************)
(* EAL is not cleaned up once lcore 1 has been launched: do_stop waits for *)
(* it, and its return ends the process, with the thread it left behind.    *)
(* (Under another lcore EAL may be cleaned up: it is not waited for.)      *)
(***************************************************************************)
LaunchedEndsInTerminate ==
  1 \in Cores =>
    (cmd = "stop" /\ devUp /\ ~cleaned /\ lpc[1] # "wait"
       ~> proc \in {"terminated", "crashed"})
=============================================================================
