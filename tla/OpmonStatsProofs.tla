-------------------------- MODULE OpmonStatsProofs --------------------------
(***************************************************************************)
(* Proofs about OpmonStats, for every burst size and bound of frames.      *)
(*                                                                         *)
(* None of the four properties is inductive.  That of the extended         *)
(* counters needs what holds between a poll and its reset, when what was   *)
(* polled is in the hand of the monitoring and in the NIC at once, and     *)
(* that from the filling on m_xstats_values holds a count as long as no    *)
(* call failed; so does that of the values nobody wrote, which also needs  *)
(* that do_configure never goes back.  That of the maximum needs that a    *)
(* burst already recorded is covered by the value the lcore loaded, which  *)
(* it is going to store.  That of the crashes needs that the monitoring    *)
(* inserts nothing in a publication begun after start().                   *)
(***************************************************************************)
EXTENDS OpmonStats, TLAPS

(* What setup() has not filled in yet.                                     *)
Unfilled == {"new", "registered", "named", "valued"}

(* From the filling on there is a count to copy, and nothing else.         *)
CountsFilled ==
  /\ conf \notin {"new", "registered"} /\ ~failed => names = "some"
  /\ conf \notin Unfilled /\ ~failed => xValues # Garbage

(* Between a poll and its reset what is in hand counts, not the NIC.       *)
PolledCountedOnce ==
  SetUp /\ ~failed /\ opc \in {"copy", "reset"} =>
    /\ pubX + InHand <= due
    /\ ~inWindow => pubX + InHand = due

(* A publication begun after the filling holds no memory nobody wrote.     *)
FilledWhenBegun ==
  /\ begun \notin Unfilled => conf \notin Unfilled
  /\ opc \in {"reset", "xstats"} /\ xinfos = Garbage /\ ~failed => begun \in Unfilled
  /\ opc # "idle" => begun # "new"
  /\ conf = "new" => opc = "idle"

(* What the lcore is about to store covers the bursts recorded, too.       *)
LoadedCovered ==
  /\ lpc = "store" => pending <= loaded
  /\ conf # "started" => lpc = "check" /\ pending = 0

(* After start() the queue is in the maps; a publication that began then   *)
(* never inserts it, and the names are those DPDK gave or none.            *)
NoLateInsertion ==
  /\ conf = "started" => entered
  /\ begun = "started" => conf = "started" /\ opc # "insert"
  /\ names = "unset" => conf \in {"new", "registered"}

XInv == TypeOK /\ CountsFilled /\ PolledCountedOnce /\ XStatsCountedOnce

GInv == TypeOK /\ CountsFilled /\ FilledWhenBegun

MInv == TypeOK /\ LoadedCovered /\ MaxBurstCovered

-----------------------------------------------------------------------------

(* The variables have their types at the start.                            *)
LEMMA TypeInit == Init => TypeOK
<1> SUFFICES ASSUME Init
             PROVE  TypeOK
  OBVIOUS
<1>1. 0 \in 0..BurstSize
  BY BurstAssumption
<1> QED
  BY <1>1 DEF Init, TypeOK

(* What is in hand is a number.                                            *)
LEMMA InHandType == TypeOK => InHand \in Nat
<1> SUFFICES ASSUME TypeOK
             PROVE  InHand \in Nat
  OBVIOUS
<1>1. xValues \in Nat \cup {Garbage} /\ xinfos \in Nat \cup {Garbage}
  BY DEF TypeOK
<1> QED
  BY <1>1 DEF InHand

(* A reading of the counters gives their values, or fails.                 *)
LEMMA Reading ==
  ASSUME TypeOK, FillValues \/ Poll
  PROVE  /\ failed' \in BOOLEAN
         /\ failed => failed'
         /\ ~failed' => xValues' = hwX
         /\ xValues' \in {xValues, hwX}
<1>1. failed \in BOOLEAN
  BY DEF TypeOK
<1>2. \/ names # "none" /\ xValues' = hwX /\ failed' = failed
      \/ xValues' = xValues /\ failed' = TRUE
  BY Zenon DEF FillValues, Poll
<1> QED
  BY <1>1, <1>2, Zenon

(* A reset of the counters clears them, or fails.                          *)
LEMMA Resetting ==
  ASSUME TypeOK, ResetNIC
  PROVE  /\ failed' \in BOOLEAN
         /\ failed => failed'
         /\ ~failed' => hwX' = 0
         /\ hwX' \in {hwX, 0}
<1>1. failed \in BOOLEAN
  BY DEF TypeOK
<1>2. CASE hwX' = 0 /\ failed' = failed
  BY <1>1, <1>2, Zenon
<1>3. CASE hwX' = hwX /\ failed' = TRUE
  BY <1>1, <1>3, Zenon
<1> QED
  BY <1>2, <1>3, Zenon DEF ResetNIC

(* Every step of do_configure keeps the types.                             *)
LEMMA TypeConf ==
  ASSUME TypeOK, ConfStep
  PROVE  TypeOK'
<1> USE DEF Up, nicVars, opmonVars, lcoreVars, maxVars, xstatsVars
<1>1. CASE RegisterNode \/ AllocateValues \/ EnterCounters
  BY <1>1 DEF TypeOK, RegisterNode, AllocateValues, EnterCounters
<1>2. CASE GetNames
  BY <1>2 DEF TypeOK, GetNames
<1>3. CASE FillValues
  <2>1. xValues' \in Nat \cup {Garbage} /\ failed' \in BOOLEAN
    BY <1>3, Reading DEF TypeOK
  <2> QED
    BY <1>3, <2>1 DEF TypeOK, FillValues
<1>4. CASE MarkAllocated
  BY <1>4 DEF TypeOK, MarkAllocated, CrashIf
<1>5. CASE ResetAtSetUp
  <2>1. pubX + InHand \in Nat
    BY InHandType DEF TypeOK
  <2> QED
    BY <1>5, <2>1, Resetting DEF TypeOK, ResetAtSetUp
<1>6. CASE StartLcore
  BY <1>6, BurstAssumption DEF TypeOK, StartLcore, CrashIf
<1> QED
  BY <1>1, <1>2, <1>3, <1>4, <1>5, <1>6 DEF ConfStep

(* Every step of the monitoring keeps the types.                           *)
LEMMA TypeOpmon ==
  ASSUME TypeOK, OpmonStep
  PROVE  TypeOK'
<1> USE DEF Up, nicVars, opmonVars, lcoreVars, maxVars, xstatsVars
<1>1. CASE PublishEth
  BY <1>1 DEF TypeOK, PublishEth
<1>2. CASE PollUnallocated
  BY <1>2 DEF TypeOK, PollUnallocated
<1>3. CASE Poll
  <2>1. xValues' \in Nat \cup {Garbage} /\ failed' \in BOOLEAN
    BY <1>3, Reading DEF TypeOK
  <2> QED
    BY <1>3, <2>1 DEF TypeOK, Poll
<1>4. CASE CopyValues
  <2>1. xinfos' \in Nat \cup {Garbage} /\ proc' \in {"up", "crashed"} /\ opc' = "reset"
    BY <1>4 DEF TypeOK, CopyValues, CrashIf
  <2> QED
    BY <1>4, <2>1 DEF TypeOK, CopyValues
<1>5. CASE ResetCounters
  <2>1. ResetNIC \/ UNCHANGED <<hwX, failed>>
    BY <1>5 DEF ResetCounters
  <2> QED
    BY <1>5, <2>1, Resetting DEF TypeOK, ResetCounters
<1>6. CASE PublishXStats
  <2>1. pubX' \in Nat
    BY <1>6, InHandType DEF TypeOK, PublishXStats
  <2> QED
    BY <1>6, <2>1 DEF TypeOK, PublishXStats
<1>7. CASE PublishQueue
  BY <1>7, BurstAssumption DEF TypeOK, PublishQueue, CrashIf
<1>8. CASE InsertQueue \/ QueueInserted
  BY <1>8 DEF TypeOK, InsertQueue, QueueInserted, CrashIf
<1> QED
  BY <1>1, <1>2, <1>3, <1>4, <1>5, <1>6, <1>7, <1>8 DEF OpmonStep

(* A packet and every step of the lcore keep the types.                    *)
LEMMA TypeLcore ==
  ASSUME TypeOK,
         Receive \/ (\E n \in 1..BurstSize : TakeBurst(n)) \/ StoreMax \/ CountFrames
  PROVE  TypeOK'
<1> USE DEF Up, nicVars, opmonVars, lcoreVars, maxVars, xstatsVars
<1>1. CASE \E n \in 1..BurstSize : TakeBurst(n)
  BY <1>1, BurstAssumption DEF TypeOK, TakeBurst, CrashIf
<1>2. CASE StoreMax
  BY <1>2, BurstAssumption DEF TypeOK, StoreMax, Larger
<1>3. CASE CountFrames
  BY <1>3, BurstAssumption DEF TypeOK, CountFrames
<1>4. CASE Receive
  <2>1. inWindow' \in BOOLEAN
    BY <1>4, Zenon DEF Receive
  <2> QED
    BY <1>4, <2>1 DEF TypeOK, Receive
<1> QED
  BY <1>1, <1>2, <1>3, <1>4

(* The variables keep their types.                                         *)
LEMMA TypeStep == TypeOK /\ [Next]_vars => TypeOK'
<1> SUFFICES ASSUME TypeOK, [Next]_vars
             PROVE  TypeOK'
  OBVIOUS
<1>1. CASE ConfStep
  BY <1>1, TypeConf
<1>2. CASE OpmonStep
  BY <1>2, TypeOpmon
<1>3. CASE Receive \/ (\E n \in 1..BurstSize : TakeBurst(n)) \/ StoreMax \/ CountFrames
  BY <1>3, TypeLcore
<1>4. CASE UNCHANGED vars
  BY <1>4 DEF TypeOK, vars
<1> QED
  BY <1>1, <1>2, <1>3, <1>4 DEF Next

(***************************************************************************)
(* TypeOK: what is published of the counters is a count or memory nobody   *)
(* wrote, whatever fails; no maximum is above m_burst_size.                *)
(***************************************************************************)
THEOREM TypeCorrect == Spec => []TypeOK
  BY TypeInit, TypeStep, PTL DEF Spec

-----------------------------------------------------------------------------

(* Steps that leave the extended counters alone.                           *)
XUnchanged == UNCHANGED <<names, xValues, failed, hwX, due, inWindow, xinfos, pubX>>

(* From the filling on there is a count in m_xstats_values, or a call has  *)
(* failed.                                                                 *)
LEMMA FilledStep ==
  ASSUME TypeOK, CountsFilled, [Next]_vars
  PROVE  CountsFilled'
<1> USE DEF Up, nicVars, opmonVars, lcoreVars, maxVars, xstatsVars, CountsFilled, Unfilled
<1>1. hwX # Garbage
  BY GarbageAssumption DEF TypeOK
<1>2. CASE RegisterNode \/ AllocateValues \/ MarkAllocated \/ EnterCounters \/ StartLcore
  BY <1>2 DEF RegisterNode, AllocateValues, MarkAllocated, EnterCounters, StartLcore
<1>8. CASE GetNames
  <2>1. failed' \/ names' = "some"
    BY <1>8, Zenon DEF GetNames
  <2> QED
    BY <1>8, <2>1 DEF GetNames
<1>3. CASE FillValues
  BY <1>1, <1>3, Reading DEF FillValues
<1>7. CASE Poll
  BY <1>1, <1>7, Reading DEF Poll, Allocated
<1>4. CASE ResetCounters \/ ResetAtSetUp
  <2>1. ResetNIC \/ failed' = failed
    BY <1>4, Zenon DEF ResetCounters, ResetAtSetUp
  <2>2. failed => failed'
    BY <2>1, Resetting, Zenon
  <2> QED
    BY <1>4, <2>2 DEF ResetCounters, ResetAtSetUp
<1>5. CASE PublishEth \/ PollUnallocated \/ CopyValues \/ PublishXStats
             \/ InsertQueue \/ QueueInserted \/ PublishQueue
  BY <1>5 DEF PublishEth, PollUnallocated, CopyValues, PublishXStats, InsertQueue,
              QueueInserted, PublishQueue
<1>6. CASE Receive \/ (\E n \in 1..BurstSize : TakeBurst(n)) \/ StoreMax \/ CountFrames
             \/ UNCHANGED vars
  BY <1>6 DEF Receive, TakeBurst, StoreMax, CountFrames, vars
<1> QED
  BY <1>2, <1>3, <1>4, <1>5, <1>6, <1>7, <1>8 DEF Next, ConfStep, OpmonStep

(* Nothing is counted at the start.                                        *)
LEMMA XInit == Init => XInv
<1> SUFFICES ASSUME Init
             PROVE  XInv
  OBVIOUS
<1>1. TypeOK
  BY TypeInit
<1>2. CountsFilled /\ PolledCountedOnce /\ XStatsCountedOnce
  BY DEF Init, CountsFilled, Unfilled, PolledCountedOnce, XStatsCountedOnce, SetUp
<1> QED
  BY <1>1, <1>2 DEF XInv

(* Every step keeps a packet from being published twice.                   *)
LEMMA XStep == XInv /\ [Next]_vars => XInv'
<1> SUFFICES ASSUME XInv, [Next]_vars
             PROVE  XInv'
  OBVIOUS
<1> USE DEF Up, nicVars, opmonVars, lcoreVars, maxVars, xstatsVars
<1>1. TypeOK' /\ CountsFilled'
  BY TypeStep, FilledStep DEF XInv
<1>2. /\ hwX \in Nat /\ due \in Nat /\ pubX \in Nat
      /\ InHand \in Nat /\ InHand' \in Nat
      /\ xValues \in Nat \cup {Garbage} /\ xinfos \in Nat \cup {Garbage}
      /\ Garbage \notin Nat
  <2>1. (TypeOK => InHand \in Nat)'
    BY InHandType, PTL
  <2> QED
    BY <1>1, <2>1, InHandType, GarbageAssumption DEF XInv, TypeOK
<1>3. SUFFICES (PolledCountedOnce /\ XStatsCountedOnce)'
  BY <1>1 DEF XInv
<1>4. PolledCountedOnce /\ XStatsCountedOnce /\ CountsFilled
  BY DEF XInv
<1> USE DEF PolledCountedOnce, XStatsCountedOnce
<1>5. CASE RegisterNode \/ GetNames \/ AllocateValues \/ FillValues \/ MarkAllocated
  BY <1>5 DEF RegisterNode, GetNames, AllocateValues, FillValues, MarkAllocated, SetUp
<1>6. CASE ResetAtSetUp
  <2>1. SUFFICES ASSUME ~failed'
                 PROVE  /\ pubX' + InHand' = due'
                        /\ hwX' = 0
    <3>1. pubX' \in Nat
      BY <1>1 DEF TypeOK
    <3> QED
      BY <1>2, <2>1, <3>1
  <2>2. hwX' = 0
    BY <1>6, <2>1, Resetting DEF ResetAtSetUp, XInv
  <2>3. InHand' = InHand /\ pubX' = pubX /\ due' = pubX + InHand
    BY <1>6 DEF ResetAtSetUp, InHand
  <2> QED
    BY <2>2, <2>3
<1>7. CASE EnterCounters \/ StartLcore
  <2>1. InHand' = InHand /\ SetUp /\ XUnchanged /\ opc' = opc
    BY <1>7 DEF EnterCounters, StartLcore, InHand, SetUp, XUnchanged
  <2> QED
    BY <1>4, <2>1 DEF XUnchanged
<1>8. CASE Receive
  <2>1. SUFFICES ASSUME SetUp, ~failed
                 PROVE  (PolledCountedOnce /\ XStatsCountedOnce)'
    BY <1>8 DEF Receive, SetUp
  <2>2. ~inWindow' => ~inWindow /\ opc \notin {"copy", "reset"}
    BY <1>8, <2>1, Zenon DEF Receive
  <2>3. /\ due' = due + 1 /\ hwX' = hwX + 1 /\ InHand' = InHand
        /\ UNCHANGED <<opc, pubX>>
    BY <1>8, <2>1 DEF Receive, InHand
  <2> QED
    BY <1>2, <1>4, <2>1, <2>2, <2>3
<1>9. CASE PublishEth \/ PollUnallocated
  <2>1. XUnchanged /\ (SetUp' = SetUp)
    BY <1>9 DEF PublishEth, PollUnallocated, XUnchanged, SetUp
  <2> QED
    BY <1>2, <1>4, <1>9, <2>1
    DEF PublishEth, PollUnallocated, InHand, SetUp, Allocated
<1>10. CASE Poll
  <2>1. SUFFICES ASSUME SetUp, ~failed, ~failed'
                 PROVE  (PolledCountedOnce /\ XStatsCountedOnce)'
    BY <1>10, Reading DEF Poll, SetUp, XInv
  <2>3. xValues' = hwX
    BY <1>10, <2>1, Reading DEF XInv
  <2>2. InHand = 0 /\ InHand' = hwX /\ opc = "poll" /\ opc' = "copy"
        /\ UNCHANGED <<pubX, due, inWindow>>
    BY <1>2, <1>10, <2>1, <2>3 DEF Poll, InHand
  <2> QED
    BY <1>2, <1>4, <2>1, <2>2
<1>11. CASE CopyValues
  <2>1. SUFFICES ASSUME SetUp, ~failed
                 PROVE  (PolledCountedOnce /\ XStatsCountedOnce)'
    BY <1>11 DEF CopyValues, SetUp
  <2>2. xinfos' = xValues
    BY <1>4, <1>11, <2>1 DEF CopyValues, CountsFilled, Unfilled, SetUp
  <2>3. InHand' = InHand /\ opc = "copy" /\ opc' = "reset"
        /\ UNCHANGED <<pubX, due, inWindow>>
    BY <1>11, <2>2 DEF CopyValues, InHand
  <2> QED
    BY <1>4, <2>1, <2>3
<1>12. CASE ResetCounters
  <2>1. SUFFICES ASSUME SetUp, ~failed, ~failed'
                 PROVE  (PolledCountedOnce /\ XStatsCountedOnce)'
    <3>1. ResetNIC \/ failed' = failed
      BY <1>12, Zenon DEF ResetCounters
    <3>2. failed => failed'
      BY <3>1, Resetting, Zenon DEF XInv
    <3> QED
      BY <1>12, <3>2 DEF ResetCounters, SetUp
  <2>3. ResetNIC
    BY <1>12, <2>1 DEF ResetCounters, Allocated, SetUp
  <2>4. hwX' = 0
    BY <2>1, <2>3, Resetting DEF XInv
  <2>2. hwX' = 0 /\ InHand' = InHand /\ opc = "reset" /\ opc' = "xstats"
        /\ UNCHANGED <<pubX, due, inWindow>>
    BY <1>12, <2>4 DEF ResetCounters, InHand
  <2> QED
    BY <1>2, <1>4, <2>1, <2>2
<1>13. CASE PublishXStats
  <2>1. SUFFICES ASSUME SetUp, ~failed
                 PROVE  (PolledCountedOnce /\ XStatsCountedOnce)'
    BY <1>13 DEF PublishXStats, SetUp
  <2>2. InHand' = 0 /\ pubX' = pubX + InHand /\ opc = "xstats" /\ opc' = "queue"
        /\ UNCHANGED <<hwX, due, inWindow>>
    BY <1>13, <1>2, <2>1 DEF PublishXStats, InHand
  <2> QED
    BY <1>2, <1>4, <2>1, <2>2
<1>14. CASE InsertQueue \/ QueueInserted \/ PublishQueue
  <2>1. InHand = 0 /\ InHand' = 0 /\ (SetUp' = SetUp) /\ XUnchanged
        /\ opc \in {"queue", "insert"} /\ opc' \in {"queue", "insert", "idle"}
    BY <1>14 DEF InsertQueue, QueueInserted, PublishQueue, InHand, SetUp, XUnchanged
  <2> QED
    BY <1>4, <2>1 DEF XUnchanged
<1>15. CASE (\E n \in 1..BurstSize : TakeBurst(n)) \/ StoreMax \/ CountFrames \/ UNCHANGED vars
  <2>1. InHand' = InHand /\ (SetUp' = SetUp) /\ XUnchanged /\ opc' = opc
    BY <1>15 DEF TakeBurst, StoreMax, CountFrames, vars, InHand, SetUp, XUnchanged
  <2> QED
    BY <1>4, <2>1 DEF XUnchanged
<1> QED
  BY <1>5, <1>6, <1>7, <1>8, <1>9, <1>10, <1>11, <1>12, <1>13, <1>14, <1>15
  DEF Next, ConfStep, OpmonStep

(***************************************************************************)
(* XStatsCountedOnce: as long as no call for them fails, the extended      *)
(* counters of generate_opmon_data publish no packet twice, and lose none  *)
(* but those that arrive between a poll and its reset, wherever set-up     *)
(* falls into a publication.                                               *)
(***************************************************************************)
THEOREM PacketsPublishedOnce == Spec => []XStatsCountedOnce
<1>1. XInv => XStatsCountedOnce
  BY DEF XInv
<1> QED
  BY <1>1, XInit, XStep, PTL DEF Spec

-----------------------------------------------------------------------------

(* Every step keeps the publications begun after the filling clean.        *)
LEMMA GStep == GInv /\ [Next]_vars => GInv'
<1> SUFFICES ASSUME GInv, [Next]_vars
             PROVE  GInv'
  OBVIOUS
<1> USE DEF Up, nicVars, opmonVars, lcoreVars, maxVars, xstatsVars
<1>1. TypeOK' /\ CountsFilled'
  BY TypeStep, FilledStep DEF GInv
<1>2. SUFFICES FilledWhenBegun'
  BY <1>1 DEF GInv
<1>3. FilledWhenBegun /\ CountsFilled /\ TypeOK
  BY DEF GInv
<1> USE DEF FilledWhenBegun, Unfilled
<1>4. CASE ConfStep
  <2>1. failed => failed'
    <3>1. CASE FillValues
      BY <1>3, <3>1, Reading
    <3>2. CASE ResetAtSetUp
      BY <1>3, <3>2, Resetting DEF ResetAtSetUp
    <3>3. CASE GetNames
      BY <3>3, Zenon DEF GetNames
    <3> QED
      BY <1>4, <3>1, <3>2, <3>3
      DEF ConfStep, RegisterNode, AllocateValues, MarkAllocated, EnterCounters, StartLcore
  <2> QED
    BY <1>3, <1>4, <2>1
    DEF ConfStep, RegisterNode, GetNames, AllocateValues, FillValues, MarkAllocated,
        ResetAtSetUp, EnterCounters, StartLcore
<1>5. CASE PublishEth \/ PollUnallocated
  BY <1>3, <1>5 DEF PublishEth, PollUnallocated, TypeOK
<1>6. CASE Poll
  BY <1>3, <1>6, Reading DEF Poll
<1>7. CASE CopyValues
  <2>1. ~failed /\ begun \notin Unfilled => xinfos' # Garbage
    BY <1>3, <1>7 DEF CopyValues, CountsFilled
  <2> QED
    BY <1>3, <1>7, <2>1 DEF CopyValues
<1>8. CASE ResetCounters
  <2>1. ResetNIC \/ failed' = failed
    BY <1>8, Zenon DEF ResetCounters
  <2>2. failed => failed'
    BY <1>3, <2>1, Resetting, Zenon
  <2> QED
    BY <1>3, <1>8, <2>2 DEF ResetCounters
<1>9. CASE PublishXStats \/ InsertQueue \/ QueueInserted \/ PublishQueue
  BY <1>3, <1>9 DEF PublishXStats, InsertQueue, QueueInserted, PublishQueue
<1>10. CASE Receive \/ (\E n \in 1..BurstSize : TakeBurst(n)) \/ StoreMax \/ CountFrames
              \/ UNCHANGED vars
  BY <1>3, <1>10 DEF Receive, TakeBurst, StoreMax, CountFrames, vars
<1> QED
  BY <1>4, <1>5, <1>6, <1>7, <1>8, <1>9, <1>10 DEF Next, OpmonStep

(***************************************************************************)
(* GarbageBeganBeforeSetUp: setup() fills m_xstats_values before it sets   *)
(* m_allocated, so that, no call having failed, generate_opmon_data        *)
(* publishes values nobody wrote only if it was called before they were    *)
(* filled in.                                                              *)
(***************************************************************************)
THEOREM FilledBeforePublished == Spec => []GarbageBeganBeforeSetUp
<1>1. Init => GInv
  <2> SUFFICES ASSUME Init
               PROVE  GInv
    OBVIOUS
  <2>1. TypeOK
    BY TypeInit
  <2>2. CountsFilled /\ FilledWhenBegun
    BY DEF Init, CountsFilled, FilledWhenBegun, Unfilled
  <2> QED
    BY <2>1, <2>2 DEF GInv
<1>2. GInv => GarbageBeganBeforeSetUp
  BY DEF GInv, FilledWhenBegun, Unfilled, GarbageBeganBeforeSetUp
<1> QED
  BY <1>1, <1>2, GStep, PTL DEF Spec

-----------------------------------------------------------------------------

(* No burst is recorded at the start.                                      *)
LEMMA MInit == Init => MInv
<1> SUFFICES ASSUME Init
             PROVE  MInv
  OBVIOUS
<1>1. TypeOK
  BY TypeInit
<1>2. LoadedCovered /\ MaxBurstCovered
  BY DEF Init, LoadedCovered, MaxBurstCovered
<1> QED
  BY <1>1, <1>2 DEF MInv

(* Every step leaves the bursts recorded covered.                          *)
LEMMA MStep == MInv /\ [Next]_vars => MInv'
<1> SUFFICES ASSUME MInv, [Next]_vars
             PROVE  MInv'
  OBVIOUS
<1> USE DEF Up, nicVars, opmonVars, lcoreVars, maxVars, xstatsVars
<1>1. TypeOK'
  BY TypeStep DEF MInv
<1>2. pending \in Nat /\ maxBurst \in Nat /\ loaded \in Nat /\ nbRx \in Nat
  BY BurstAssumption DEF MInv, TypeOK
<1>3. CASE RegisterNode \/ GetNames \/ AllocateValues \/ FillValues \/ MarkAllocated
             \/ ResetAtSetUp \/ EnterCounters
  BY <1>1, <1>2, <1>3 DEF MInv, LoadedCovered, MaxBurstCovered, RegisterNode, GetNames,
              AllocateValues, FillValues, MarkAllocated, ResetAtSetUp, EnterCounters
<1>4. CASE StartLcore
  BY <1>1, <1>2, <1>4 DEF MInv, LoadedCovered, MaxBurstCovered, StartLcore
<1>5. CASE Receive \/ PublishEth \/ PollUnallocated \/ Poll \/ CopyValues \/ ResetCounters
             \/ PublishXStats \/ InsertQueue \/ QueueInserted
  BY <1>1, <1>2, <1>5 DEF MInv, LoadedCovered, MaxBurstCovered, Receive, PublishEth,
              PollUnallocated, Poll, CopyValues, ResetCounters, PublishXStats, InsertQueue,
              QueueInserted
<1>6. CASE PublishQueue
  BY <1>1, <1>2, <1>6 DEF MInv, LoadedCovered, MaxBurstCovered, PublishQueue
<1>7. CASE \E n \in 1..BurstSize : TakeBurst(n)
  BY <1>1, <1>2, <1>7 DEF MInv, LoadedCovered, MaxBurstCovered, TakeBurst
<1>8. CASE StoreMax
  BY <1>1, <1>2, <1>8 DEF MInv, LoadedCovered, MaxBurstCovered, StoreMax, Larger
<1>9. CASE CountFrames \/ UNCHANGED vars
  BY <1>1, <1>2, <1>9 DEF MInv, LoadedCovered, MaxBurstCovered, CountFrames, vars
<1> QED
  BY <1>1, <1>3, <1>4, <1>5, <1>6, <1>7, <1>8, <1>9
  DEF Next, ConfStep, OpmonStep, MInv

(***************************************************************************)
(* MaxBurstCovered: no exchange of the monitoring between the load and the *)
(* store of m_max_burst_size in rx_runner makes the next published maximum *)
(* fall below a burst recorded before it.                                  *)
(***************************************************************************)
THEOREM RecordedBurstsCovered == Spec => []MaxBurstCovered
<1>1. MInv => MaxBurstCovered
  BY DEF MInv
<1> QED
  BY <1>1, MInit, MStep, PTL DEF Spec

-----------------------------------------------------------------------------

(* Every step keeps late insertions, and so late crashes, away.            *)
LEMMA RaceStep ==
  NoLateInsertion /\ CrashBeganBeforeStart /\ [Next]_vars
    => (NoLateInsertion /\ CrashBeganBeforeStart)'
<1> SUFFICES ASSUME NoLateInsertion, CrashBeganBeforeStart, [Next]_vars
             PROVE  (NoLateInsertion /\ CrashBeganBeforeStart)'
  OBVIOUS
<1> USE DEF Up, nicVars, opmonVars, lcoreVars, maxVars, xstatsVars, CrashIf, NoLateInsertion,
            CrashBeganBeforeStart
<1>1. CASE ConfStep
  BY <1>1 DEF ConfStep, RegisterNode, GetNames, AllocateValues, FillValues, MarkAllocated,
              ResetAtSetUp, EnterCounters, StartLcore
<1>2. CASE Receive \/ PollUnallocated \/ Poll \/ ResetCounters \/ PublishXStats
  BY <1>2 DEF Receive, PollUnallocated, Poll, ResetCounters, PublishXStats
<1>3. CASE PublishEth \/ CopyValues
  BY <1>3 DEF PublishEth, CopyValues
<1>4. CASE InsertQueue \/ QueueInserted \/ PublishQueue
  BY <1>4 DEF InsertQueue, QueueInserted, PublishQueue
<1>5. CASE \E n \in 1..BurstSize : TakeBurst(n)
  BY <1>5 DEF TakeBurst
<1>6. CASE StoreMax \/ CountFrames \/ UNCHANGED vars
  BY <1>6 DEF StoreMax, CountFrames, vars
<1> QED
  BY <1>1, <1>2, <1>3, <1>4, <1>5, <1>6 DEF Next, OpmonStep

(***************************************************************************)
(* CrashBeganBeforeStart: that start() enters every queue into the maps of *)
(* the counters before it launches an lcore keeps the lcores and every     *)
(* publication begun after it from inserting.                              *)
(***************************************************************************)
THEOREM CrashesBeginBeforeStart == Spec => []CrashBeganBeforeStart
<1>1. Init => NoLateInsertion /\ CrashBeganBeforeStart
  BY DEF Init, NoLateInsertion, CrashBeganBeforeStart
<1> QED
  BY <1>1, RaceStep, PTL DEF Spec
=============================================================================
