---------------------------- MODULE RxPathProofs ----------------------------
(***************************************************************************)
(* The theorems of RxPath: no mbuf is lost or returned twice, what is      *)
(* handed over is what FrameDelivery promises, every unexpected source id  *)
(* is recorded while the map is sound, every jumbo frame processed is      *)
(* counted once, and the passes of an lcore end.                           *)
(***************************************************************************)
EXTENDS RxPath, FiniteSetTheorems, TLAPS

USE DEF Phases

-----------------------------------------------------------------------------
(* Helpers.                                                                *)

(* Taking n frames off the front of a ring splits it in two.               *)
LEMMA TakeFromFront ==
  ASSUME NEW s \in Seq(Nat), NEW n \in 0..Len(s)
  PROVE  /\ SubSeq(s, 1, n) \in Seq(Nat)
         /\ Len(SubSeq(s, 1, n)) = n
         /\ \A k \in 1..n : SubSeq(s, 1, n)[k] = s[k]
         /\ SubSeq(s, n + 1, Len(s)) \in Seq(Nat)
         /\ Len(SubSeq(s, n + 1, Len(s))) = Len(s) - n
         /\ \A k \in 1..(Len(s) - n) : SubSeq(s, n + 1, Len(s))[k] = s[n + k]
  OBVIOUS

(* What the NIC steers to a queue are frames.                              *)
LEMMA ArrivingFrames == \A q \in Queues : \A f \in Arriving[q] : f \in Frame
  BY ArrivingType

(* Every frame leads to one of SourceIds.                                  *)
LEMMA SourceOfType == \A q \in Queues : \A st : SourceOf(q, st) \in SourceIds
  BY DEF SourceOf, SourceIds

(* The queue an lcore is at is one of the queues.                          *)
LEMMA QueueAtType ==
  ASSUME TypeOK, NEW l \in Lcores
  PROVE  QueuesOf[l][qi[l]] \in Queues
<1>1. QueuesOf[l] \in Seq(Queues)
  BY QueuesOfType DEF HaveQueues
<1>2. qi[l] \in 1..Len(QueuesOf[l])
  BY <1>1 DEF TypeOK
<1>3. QED
  BY <1>1, <1>2

(* What rte_eth_rx_burst takes: no more than there is, than m_bufs holds   *)
(* and than the pool can replace.                                          *)
LEMMA BurstTaken ==
  ASSUME TypeOK, NEW l \in Lcores, RxBurst(l)
  PROVE  LET q == QueuesOf[l][qi[l]] IN
         /\ q \in Queues
         /\ \E n \in 0..Len(ring[q]) :
              /\ n <= BurstSize /\ n <= pool[q]
              /\ bufs' = [bufs EXCEPT ![q] = SubSeq(ring[q], 1, n)]
              /\ ring' = [ring EXCEPT ![q] = SubSeq(ring[q], n + 1, Len(ring[q]))]
              /\ pool' = [pool EXCEPT ![q] = pool[q] - n]
<1> DEFINE q == QueuesOf[l][qi[l]]
           most == Smaller(Smaller(Len(ring[q]), BurstSize), pool[q])
<1>1. q \in Queues
  BY QueueAtType
<1>2. /\ Len(ring[q]) \in Nat /\ pool[q] \in Nat /\ BurstSize \in Nat
  BY <1>1, SizeAssumption DEF TypeOK
<1>3. /\ most \in Nat /\ most <= Len(ring[q]) /\ most <= BurstSize /\ most <= pool[q]
      /\ Smaller(1, most) \in Nat
  BY <1>2 DEF Smaller
<1>4. PICK n \in Smaller(1, most)..most :
        /\ bufs' = [bufs EXCEPT ![q] = SubSeq(ring[q], 1, n)]
        /\ ring' = [ring EXCEPT ![q] = SubSeq(ring[q], n + 1, Len(ring[q]))]
        /\ pool' = [pool EXCEPT ![q] = pool[q] - n]
  BY Zenon DEF RxBurst
<1>5. n \in 0..Len(ring[q]) /\ n <= BurstSize /\ n <= pool[q]
  BY <1>2, <1>3
<1>6. QED
  BY <1>1, <1>4, <1>5, Zenon

(* The loops over the queues of an lcore stay within its queues.           *)
LEMMA NextQueueType ==
  ASSUME TypeOK, NEW l \in Lcores, NEW phase \in {"check", "frames"}, NextQueue(l, phase)
  PROVE  /\ qi' \in [Lcores -> Nat \ {0}]
         /\ \A m \in Lcores : qi'[m] <= Len(QueuesOf[m])
         /\ pc' \in [Lcores -> Phases]
<1>1. ASSUME NEW m \in Lcores
      PROVE  Len(QueuesOf[m]) \in Nat /\ 1 <= Len(QueuesOf[m])
  <2>1. QueuesOf[m] \in Seq(Queues) /\ QueuesOf[m] # <<>>
    BY QueuesOfType DEF HaveQueues
  <2>2. QED
    BY <2>1
<1>2. /\ pc \in [Lcores -> Phases]
      /\ qi \in [Lcores -> Nat \ {0}]
      /\ \A m \in Lcores : qi[m] <= Len(QueuesOf[m])
  BY DEF TypeOK
<1>3. CASE LastQueue(l)
  BY <1>1, <1>2, <1>3 DEF NextQueue
<1>4. CASE ~LastQueue(l)
  <2>1. qi' = [qi EXCEPT ![l] = qi[l] + 1] /\ pc' = pc
    BY <1>4 DEF NextQueue
  <2>2. /\ qi[l] \in Nat \ {0} /\ Len(QueuesOf[l]) \in Nat
        /\ qi[l] <= Len(QueuesOf[l]) /\ qi[l] # Len(QueuesOf[l])
    BY <1>1, <1>2, <1>4 DEF LastQueue
  <2>3. qi[l] + 1 \in Nat \ {0} /\ qi[l] + 1 <= Len(QueuesOf[l])
    BY <2>2
  <2>4. QED
    BY <1>2, <2>1, <2>3
<1>5. QED
  BY <1>3, <1>4

-----------------------------------------------------------------------------
(* Types.                                                                  *)

(* The source id of the frame at the place of an lcore is one of them.     *)
LEMMA SourceInHandType ==
  ASSUME TypeOK, NEW l \in Lcores
  PROVE  SourceInHand(l) \in SourceIds
  BY QueueAtType, SourceOfType DEF SourceInHand, SourceOfFrame

LEMMA CountOfType ==
  ASSUME TypeOK, NEW s
  PROVE  CountOf(s) \in Nat
  BY DEF CountOf, TypeOK

LEMMA WithCountType ==
  ASSUME TypeOK, NEW s \in SourceIds, NEW count \in Nat
  PROVE  /\ DOMAIN WithCount(s, count) \subseteq SourceIds
         /\ \A t \in DOMAIN WithCount(s, count) : WithCount(s, count)[t] \in Nat
  BY DEF WithCount, TypeOK

(* Whatever an access does to the map, ids are mapped to counts.           *)
LEMMA AccessMapType ==
  ASSUME TypeOK, NEW l, NEW phases, NEW result, AccessMap(l, phases, result),
         DOMAIN result \subseteq SourceIds, \A s \in DOMAIN result : result[s] \in Nat
  PROVE  /\ DOMAIN unexid' \subseteq SourceIds
         /\ \A s \in DOMAIN unexid' : unexid'[s] \in Nat
         /\ tree' \in {"sound", "raced", "fatal"}
<1>1. CASE unexid' = result /\ UNCHANGED tree
  BY <1>1 DEF TypeOK
<1>2. CASE unexid' \in {result, unexid, [s \in {} |-> 0]} /\ tree' \in {"raced", "fatal"}
  <2>1. CASE unexid' = result
    BY <1>2, <2>1
  <2>2. CASE unexid' = unexid
    BY <1>2, <2>2 DEF TypeOK
  <2>3. CASE unexid' = [s \in {} |-> 0]
    BY <1>2, <2>3
  <2> QED
    BY <1>2, <2>1, <2>2, <2>3
<1> QED
  BY <1>1, <1>2 DEF AccessMap

(* An access that leaves the map sound did what it would have done alone.  *)
LEMMA SoundAccess ==
  ASSUME NEW l, NEW phases, NEW result, AccessMap(l, phases, result), tree' = "sound"
  PROVE  tree = "sound" /\ unexid' = result
  BY DEF AccessMap

(* Every step of the receive path keeps the types.                         *)
LEMMA TypeStep ==
  TypeOK /\ [Next]_vars => TypeOK'
<1> SUFFICES ASSUME TypeOK, [Next]_vars
             PROVE  TypeOK'
  OBVIOUS
<1>1. ASSUME NEW q \in Queues, NEW f \in Frame,
             Arrive(q, f)
      PROVE  TypeOK'
  <2>1. wire' \in [Queues -> Seq(Frame)]
    <3>1. /\ wire \in [Queues -> Seq(Frame)]
      BY DEF TypeOK
    <3>2. QED
      BY <1>1, <3>1 DEF Arrive
  <2>2. Len(wire[q]) + 1 \in Nat
    BY <1>1 DEF Arrive, TypeOK
  <2>3. /\ ring' \in [Queues -> Seq(Nat)]
       /\ \A p \in Queues : Len(ring'[p]) <= RingSize
       /\ lost' \in [Queues -> SUBSET Nat]
    <3>1. /\ ring \in [Queues -> Seq(Nat)] /\ \A p \in Queues : Len(ring[p]) <= RingSize
          /\ lost \in [Queues -> SUBSET Nat]
      BY DEF TypeOK
    <3>2. /\ ring[q] \in Seq(Nat) /\ Len(ring[q]) \in Nat
          /\ Append(ring[q], Len(wire[q]) + 1) \in Seq(Nat)
          /\ Len(Append(ring[q], Len(wire[q]) + 1)) = Len(ring[q]) + 1
      BY <3>1, <2>2
    <3>3. CASE Len(ring[q]) < RingSize
      <4>1. /\ ring' = [ring EXCEPT ![q] = Append(ring[q], Len(wire[q]) + 1)]
            /\ lost' = lost
        BY <1>1, <3>3 DEF Arrive
      <4> DEFINE longer == Append(ring[q], Len(wire[q]) + 1)
      <4>2. longer \in Seq(Nat) /\ Len(longer) <= RingSize
        BY <3>2, <3>3, SizeAssumption
      <4> HIDE DEF longer
      <4>3. ring' = [ring EXCEPT ![q] = longer]
        BY <4>1 DEF longer
      <4>4. QED
        BY <4>1, <4>2, <4>3, <3>1
    <3>4. CASE ~(Len(ring[q]) < RingSize)
      <4>1. /\ lost' = [lost EXCEPT ![q] = lost[q] \cup {Len(wire[q]) + 1}]
            /\ ring' = ring
        BY <1>1, <3>4 DEF Arrive
      <4>2. lost[q] \cup {Len(wire[q]) + 1} \in SUBSET Nat
        BY <3>1, <2>2
      <4>3. QED
        BY <4>1, <4>2, <3>1
    <3>5. QED
      BY <3>3, <3>4
  <2>4. QED
    BY <1>1, <2>1, <2>2, <2>3 DEF Arrive, sigVars, statVars, sinkVars, TypeOK
<1>2. CASE ToggleFlow
  BY <1>2 DEF ToggleFlow, nicVars, statVars, sinkVars, TypeOK
<1>3. CASE RaiseQuit
  BY <1>3 DEF RaiseQuit, nicVars, statVars, sinkVars, TypeOK
<1>4. ASSUME NEW s \in Sources,
             ReadSink(s)
      PROVE  TypeOK'
  <2>1. sink' \in [Sources -> 0..SinkSize]
    <3>1. /\ sink \in [Sources -> 0..SinkSize]
      BY DEF TypeOK
    <3>2. QED
      BY <1>4, <3>1, SizeAssumption DEF ReadSink
  <2>2. QED
    BY <1>4, <2>1 DEF ReadSink, nicVars, sigVars, statVars, TypeOK
<1>5. ASSUME NEW l \in Lcores,
             StartPass(l)
      PROVE  TypeOK'
  BY <1>5 DEF StartPass, nicVars, sigVars, statVars, sinkVars, TypeOK
<1>6. ASSUME NEW l \in Lcores,
             RxBurst(l)
      PROVE  TypeOK'
  <2> DEFINE q == QueuesOf[l][qi[l]]
  <2>1. q \in Queues
    BY QueueAtType
  <2>2. PICK n \in 0..Len(ring[q]) :
          /\ n <= BurstSize /\ n <= pool[q]
          /\ bufs' = [bufs EXCEPT ![q] = SubSeq(ring[q], 1, n)]
          /\ ring' = [ring EXCEPT ![q] = SubSeq(ring[q], n + 1, Len(ring[q]))]
          /\ pool' = [pool EXCEPT ![q] = pool[q] - n]
    BY <1>6, BurstTaken
  <2> DEFINE front == SubSeq(ring[q], 1, n)
             back == SubSeq(ring[q], n + 1, Len(ring[q]))
  <2>3. ring[q] \in Seq(Nat) /\ Len(ring[q]) \in Nat /\ Len(ring[q]) <= RingSize
    BY <2>1 DEF TypeOK
  <2>4. /\ front \in Seq(Nat) /\ Len(front) = n
        /\ back \in Seq(Nat) /\ Len(back) = Len(ring[q]) - n
    BY <2>3, TakeFromFront
  <2>5. Len(front) <= BurstSize /\ Len(back) <= RingSize
    <3> HIDE DEF q, front, back
    <3>1. QED
      BY <2>2, <2>3, <2>4, SizeAssumption
  <2>6. /\ bufs' \in [Queues -> Seq(Nat)]
        /\ ring' \in [Queues -> Seq(Nat)]
        /\ pool' \in [Queues -> Nat]
    <3> HIDE DEF q, front, back
    <3>1. /\ bufs \in [Queues -> Seq(Nat)] /\ ring \in [Queues -> Seq(Nat)]
          /\ pool \in [Queues -> Nat]
      BY DEF TypeOK
    <3>2. pool[q] - n \in Nat
      BY <2>1, <2>2, <3>1
    <3>3. QED
      BY <2>1, <2>2, <2>4, <3>1, <3>2 DEF front, back
  <2>7. /\ \A p \in Queues : Len(ring'[p]) <= RingSize
        /\ \A p \in Queues : Len(bufs'[p]) <= BurstSize
    <3> HIDE DEF q
    <3>1. QED
      BY <2>1, <2>2, <2>5 DEF TypeOK
  <2>8. /\ qi' \in [Lcores -> Nat \ {0}]
        /\ \A m \in Lcores : qi'[m] <= Len(QueuesOf[m])
        /\ pc' \in [Lcores -> Phases]
    BY <1>6, NextQueueType DEF RxBurst
  <2>9. QED
    BY <1>6, <2>6, <2>7, <2>8 DEF RxBurst, sigVars, statVars, sinkVars, TypeOK
<1>7. ASSUME NEW l \in Lcores,
             InsertUnexpected(l)
      PROVE  TypeOK'
  <2>1. /\ DOMAIN unexid' \subseteq SourceIds /\ \A s \in DOMAIN unexid' : unexid'[s] \in Nat
        /\ tree' \in {"sound", "raced", "fatal"}
    <3>1. AccessMap(l, {"insert", "count"}, WithCount(SourceInHand(l), 0))
      BY <1>7 DEF InsertUnexpected
    <3> QED
      BY <3>1, SourceInHandType, WithCountType, AccessMapType
  <2>2. pc' \in [Lcores -> Phases]
    BY <1>7 DEF InsertUnexpected, TypeOK
  <2> QED
    BY <1>7, <2>1, <2>2 DEF InsertUnexpected, nicVars, sigVars, sinkVars, TypeOK
<1>8. ASSUME NEW l \in Lcores,
             CountUnexpected(l)
      PROVE  TypeOK'
  <2>1. QueuesOf[l][qi[l]] \in Queues
    BY <1>8, QueueAtType DEF TypeOK
  <2>2. /\ ib' \in [Queues -> Nat]
       /\ numFrames' \in [Queues -> Nat]
    <3>1. /\ ib \in [Queues -> Nat]
          /\ numFrames \in [Queues -> Nat]
      BY DEF TypeOK
    <3>2. QED
      BY <1>8, <3>1, <2>1 DEF CountUnexpected, FrameProcessed
  <2>3. /\ DOMAIN unexid' \subseteq SourceIds /\ \A s \in DOMAIN unexid' : unexid'[s] \in Nat
        /\ tree' \in {"sound", "raced", "fatal"}
    <3> DEFINE s == SourceInHand(l)
    <3>1. AccessMap(l, {"insert"}, WithCount(s, CountOf(s) + 1))
      BY <1>8 DEF CountUnexpected
    <3>2. s \in SourceIds /\ CountOf(s) + 1 \in Nat
      BY SourceInHandType, CountOfType
    <3> QED
      BY <3>1, <3>2, WithCountType, AccessMapType
  <2>4. pc' \in [Lcores -> Phases]
    BY <1>8 DEF CountUnexpected, TypeOK
  <2>5. QED
    BY <1>8, <2>2, <2>3, <2>4 DEF CountUnexpected, FrameProcessed, nicVars,
        sigVars, sinkVars, TypeOK
<1>9. ASSUME NEW l \in Lcores,
             FreeBurst(l)
      PROVE  TypeOK'
  <2> DEFINE q == QueuesOf[l][qi[l]]
  <2>1. q \in Queues
    BY QueueAtType
  <2>2. /\ pool' \in [Queues -> Nat]
        /\ bufs' \in [Queues -> Seq(Nat)]
        /\ ib' \in [Queues -> Nat]
        /\ \A p \in Queues : Len(bufs'[p]) <= BurstSize
    <3>1. /\ pool \in [Queues -> Nat] /\ ib \in [Queues -> Nat]
          /\ bufs \in [Queues -> Seq(Nat)]
          /\ \A p \in Queues : Len(bufs[p]) <= BurstSize
      BY DEF TypeOK
    <3> HIDE DEF q
    <3>4. Len(bufs[q]) \in Nat
      BY <2>1, <3>1
    <3>5. <<>> \in Seq(Nat) /\ Len(<<>>) = 0 /\ 0 <= BurstSize
      BY SizeAssumption
    <3>2. /\ pool' = [pool EXCEPT ![q] = pool[q] + Len(bufs[q])]
          /\ bufs' = [bufs EXCEPT ![q] = <<>>]
          /\ ib' = [ib EXCEPT ![q] = 0]
      BY <1>9 DEF FreeBurst, q
    <3>3. QED
      BY <2>1, <3>1, <3>2, <3>4, <3>5
  <2>3. /\ qi' \in [Lcores -> Nat \ {0}]
        /\ \A m \in Lcores : qi'[m] <= Len(QueuesOf[m])
        /\ pc' \in [Lcores -> Phases]
    BY <1>9, NextQueueType DEF FreeBurst
  <2>4. QED
    BY <1>9, <2>2, <2>3 DEF FreeBurst, nicVars, sigVars, statVars, sinkVars, TypeOK
<1>10. ASSUME NEW l \in Lcores, NEW q \in Queues, NEW n \in 1..Len(wire[q]),
             SkipSmallFrame(l, q, n)
      PROVE  TypeOK'
  <2>1. ib' \in [Queues -> Nat]
    <3>1. /\ ib \in [Queues -> Nat]
      BY DEF TypeOK
    <3>2. QED
      BY <1>10, <3>1 DEF SkipSmallFrame
  <2>2. QED
    BY <1>10, <2>1 DEF SkipSmallFrame, AtFrame, InHand, nicVars, sigVars, statVars,
        sinkVars, TypeOK
<1>11. ASSUME NEW l \in Lcores, NEW q \in Queues, NEW n \in 1..Len(wire[q]),
             DiscardFrame(l, q, n)
      PROVE  TypeOK'
  <2>1. /\ ib' \in [Queues -> Nat]
       /\ numFrames' \in [Queues -> Nat]
    <3>1. /\ ib \in [Queues -> Nat]
          /\ numFrames \in [Queues -> Nat]
      BY DEF TypeOK
    <3>2. QED
      BY <1>11, <3>1 DEF DiscardFrame, FrameProcessed
  <2>2. QED
    BY <1>11, <2>1, Zenon DEF DiscardFrame, AtFrame, InHand, FrameProcessed, nicVars, sigVars,
        sinkVars, TypeOK
<1>12. ASSUME NEW l \in Lcores, NEW q \in Queues, NEW n \in 1..Len(wire[q]),
             HandlePayload(l, q, n)
      PROVE  TypeOK'
  <2>1. SourceOfFrame(q, n) \in SourceIds
    BY <1>12, SourceOfType DEF SourceOfFrame, TypeOK
  <2>2. /\ ib' \in [Queues -> Nat]
       /\ numFrames' \in [Queues -> Nat]
    <3>1. /\ ib \in [Queues -> Nat]
          /\ numFrames \in [Queues -> Nat]
      BY DEF TypeOK
    <3>2. QED
      BY <1>12, <3>1 DEF HandlePayload, FrameProcessed
  <2>3. /\ sink' \in [Sources -> 0..SinkSize]
       /\ dropped' \in [Sources -> Nat]
    <3>1. /\ sink \in [Sources -> 0..SinkSize]
          /\ dropped \in [Sources -> Nat]
      BY DEF TypeOK
    <3> DEFINE s == SourceOfFrame(q, n)
    <3>2. /\ s \in Sources
          /\ \/ /\ sink[s] < SinkSize
                /\ sink' = [sink EXCEPT ![s] = sink[s] + 1]
                /\ dropped' = dropped
             \/ /\ dropped' = [dropped EXCEPT ![s] = dropped[s] + 1]
                /\ sink' = sink
      BY <1>12 DEF HandlePayload
    <3> HIDE DEF s
    <3>3. sink[s] \in 0..SinkSize /\ dropped[s] \in Nat /\ SinkSize \in Nat
      BY <3>1, <3>2, SizeAssumption
    <3>4. CASE sink[s] < SinkSize /\ sink' = [sink EXCEPT ![s] = sink[s] + 1]
               /\ dropped' = dropped
      <4>1. sink[s] + 1 \in 0..SinkSize
        BY <3>3, <3>4
      <4>2. QED
        BY <3>1, <3>2, <3>4, <4>1
    <3>5. CASE dropped' = [dropped EXCEPT ![s] = dropped[s] + 1] /\ sink' = sink
      BY <3>1, <3>2, <3>3, <3>5
    <3>6. QED
      BY <3>2, <3>4, <3>5
  <2>4. handed' \in [Queues -> [n : Nat, to : SourceIds]]
    <3>1. /\ handed \in [Queues -> [n : Nat, to : SourceIds]]
      BY DEF TypeOK
    <3>2. QED
      BY <1>12, <3>1, <2>1 DEF HandlePayload
  <2>5. QED
    BY <1>12, <2>1, <2>2, <2>3, <2>4, Zenon DEF HandlePayload, AtFrame, InHand, FrameProcessed,
        nicVars, sigVars, TypeOK
<1>13. ASSUME NEW l \in Lcores, NEW q \in Queues, NEW n \in 1..Len(wire[q]),
             FindUnexpected(l, q, n)
      PROVE  TypeOK'
  <2>1. unexSeen' \in [SourceIds -> Nat]
    <3>1. /\ unexSeen \in [SourceIds -> Nat]
      BY DEF TypeOK
    <3> DEFINE s == SourceOfFrame(q, n)
    <3>2. s \in SourceIds
      BY SourceOfType DEF SourceOfFrame
    <3>3. unexSeen' = [unexSeen EXCEPT ![s] = unexSeen[s] + 1]
      BY <1>13 DEF FindUnexpected
    <3> HIDE DEF s
    <3>4. unexSeen[s] + 1 \in Nat
      BY <3>1, <3>2
    <3>5. QED
      BY <3>1, <3>2, <3>3, <3>4
  <2>2. pc' \in [Lcores -> Phases]
    <3>1. /\ pc \in [Lcores -> Phases]
      BY DEF TypeOK
    <3>2. QED
      BY <1>13, <3>1 DEF FindUnexpected
  <2>3. /\ DOMAIN unexid' \subseteq SourceIds /\ \A s \in DOMAIN unexid' : unexid'[s] \in Nat
        /\ tree' \in {"sound", "raced", "fatal"}
    <3>1. AccessMap(l, {"insert"}, unexid)
      BY <1>13 DEF FindUnexpected
    <3>2. DOMAIN unexid \subseteq SourceIds /\ \A s \in DOMAIN unexid : unexid[s] \in Nat
      BY DEF TypeOK
    <3> QED
      BY <3>1, <3>2, AccessMapType
  <2>4. QED
    BY <1>13, <2>1, <2>2, <2>3, Zenon DEF FindUnexpected, AtFrame, InHand, nicVars, sigVars,
        sinkVars, TypeOK
<1>14. ASSUME NEW l \in Lcores, NEW q \in Queues, NEW n \in 1..Len(wire[q]),
              CallCallback(l, q, n)
       PROVE  TypeOK'
  <2>1. pc' \in [Lcores -> Phases]
    BY <1>14 DEF CallCallback, TypeOK
  <2> QED
    BY <1>14, <2>1, Zenon DEF CallCallback, nicVars, sigVars, statVars, sinkVars, TypeOK
<1>15. ASSUME NEW l \in Lcores, NEW q \in Queues, NEW n \in 1..Len(wire[q]),
              CallbackReturns(l, q, n)
       PROVE  TypeOK'
  <2>1. pc' \in [Lcores -> Phases]
    BY <1>15 DEF CallbackReturns, TypeOK
  <2>2. ib' \in [Queues -> Nat] /\ numFrames' \in [Queues -> Nat]
    <3>1. ib \in [Queues -> Nat] /\ numFrames \in [Queues -> Nat]
      BY DEF TypeOK
    <3> QED
      BY <1>15, <3>1 DEF CallbackReturns, FrameProcessed
  <2>3. handed' \in [Queues -> [n : Nat, to : SourceIds]]
    <3>1. handed \in [Queues -> [n : Nat, to : SourceIds]] /\ SourceOfFrame(q, n) \in SourceIds
      BY SourceOfType DEF SourceOfFrame, TypeOK
    <3> QED
      BY <1>15, <3>1 DEF CallbackReturns
  <2> QED
    BY <1>15, <2>1, <2>2, <2>3, Zenon DEF CallbackReturns, nicVars, sigVars, TypeOK
<1>16. CASE UNCHANGED vars
  BY <1>16 DEF vars, TypeOK
<1>17. QED
  BY <1>1, <1>2, <1>3, <1>4, <1>5, <1>6, <1>7, <1>8, <1>9, <1>10, <1>11, ArrivingFrames,
      <1>12, <1>13, <1>14, <1>15, <1>16 DEF Next, Environment, LcoreStep, RunnerStep

-----------------------------------------------------------------------------
(* Of the queues of an lcore, those whose burst may hold frames: in the    *)
(* first loop of a pass the ones before the current queue, in the second   *)
(* the current one and the ones after it, and between two passes none.     *)
MayHold(l, k) ==
  \/ pc[l] = "burst" /\ k < qi[l]
  \/ pc[l] \in {"frames", "callback", "insert", "count"} /\ qi[l] <= k

BurstInv ==
  \A l \in Lcores : \A k \in 1..Len(QueuesOf[l]) :
    bufs[QueuesOf[l][k]] # <<>> => MayHold(l, k)

PoolInv ==
  \A q \in Queues : pool[q] + Len(bufs[q]) + RingSize = NumMbufs

MbufInv == TypeOK /\ BurstInv /\ PoolInv

(* The index of the queue an lcore is at is one of its indices.            *)
LEMMA QueueIndex ==
  ASSUME TypeOK, NEW l \in Lcores
  PROVE  /\ Len(QueuesOf[l]) \in Nat
         /\ qi[l] \in 1..Len(QueuesOf[l])
         /\ QueuesOf[l][qi[l]] \in Queues
         /\ \A k \in 1..Len(QueuesOf[l]) : QueuesOf[l][k] \in Queues
<1>1. QueuesOf[l] \in Seq(Queues)
  BY QueuesOfType DEF HaveQueues
<1>2. qi[l] \in 1..Len(QueuesOf[l])
  BY <1>1 DEF TypeOK
<1>3. QED
  BY <1>1, <1>2

(* rx_runner leaves the bursts of the queues it is not at alone.           *)
LEMMA OtherQueues ==
  ASSUME TypeOK, NEW l \in Lcores, NEW m \in Lcores, NEW k \in 1..Len(QueuesOf[m]),
         ~(m = l /\ k = qi[l]), NEW b,
         bufs' = [bufs EXCEPT ![QueuesOf[l][qi[l]]] = b]
  PROVE  bufs'[QueuesOf[m][k]] = bufs[QueuesOf[m][k]]
<1>1. qi[l] \in 1..Len(QueuesOf[l]) /\ QueuesOf[m][k] \in Queues
  BY QueueIndex
<1>2. QueuesOf[m][k] # QueuesOf[l][qi[l]]
  BY <1>1, QueuesDisjoint DEF NoneShared
<1>3. bufs \in [Queues -> Seq(Nat)]
  BY DEF TypeOK
<1>4. QED
  BY <1>1, <1>2, <1>3

(* What NextQueue does to the lcore that takes it and to the others.       *)
LEMMA NextQueueMoves ==
  ASSUME TypeOK, NEW l \in Lcores, NEW phase, NextQueue(l, phase)
  PROVE  /\ \/ qi[l] = Len(QueuesOf[l]) /\ qi'[l] = 1 /\ pc'[l] = phase
            \/ qi[l] # Len(QueuesOf[l]) /\ qi'[l] = qi[l] + 1 /\ pc'[l] = pc[l]
         /\ \A m \in Lcores : m # l => qi'[m] = qi[m] /\ pc'[m] = pc[m]
  BY DEF NextQueue, LastQueue, TypeOK

(* Every step leaves a burst only where its lcore may hold one.            *)
LEMMA BurstStep ==
  MbufInv /\ [Next]_vars => BurstInv'
<1> SUFFICES ASSUME MbufInv, [Next]_vars
             PROVE  BurstInv'
  OBVIOUS
<1> USE DEF MbufInv
<1>1. ASSUME NEW l \in Lcores, RxBurst(l)
      PROVE  BurstInv'
  <2>1. PICK b : bufs' = [bufs EXCEPT ![QueuesOf[l][qi[l]]] = b]
    BY <1>1 DEF RxBurst
  <2>2. /\ pc[l] = "burst"
        /\ \/ qi[l] = Len(QueuesOf[l]) /\ qi'[l] = 1 /\ pc'[l] = "frames"
           \/ qi[l] # Len(QueuesOf[l]) /\ qi'[l] = qi[l] + 1 /\ pc'[l] = pc[l]
        /\ \A m \in Lcores : m # l => qi'[m] = qi[m] /\ pc'[m] = pc[m]
    BY <1>1, NextQueueMoves DEF RxBurst
  <2>3. ASSUME NEW m \in Lcores, NEW k \in 1..Len(QueuesOf[m]),
               bufs'[QueuesOf[m][k]] # <<>>
        PROVE  MayHold(m, k)'
    <3>1. /\ Len(QueuesOf[m]) \in Nat /\ Len(QueuesOf[l]) \in Nat
          /\ qi[l] \in 1..Len(QueuesOf[l]) /\ qi[m] \in 1..Len(QueuesOf[m])
      BY QueueIndex
    <3>2. CASE m = l /\ k = qi[l]
      BY <2>2, <3>1, <3>2 DEF MayHold
    <3>3. CASE ~(m = l /\ k = qi[l])
      <4>1. MayHold(m, k)
        BY <2>1, <2>3, <3>3, OtherQueues DEF BurstInv
      <4>2. QED
        BY <2>2, <3>1, <3>3, <4>1 DEF MayHold
    <3>4. QED
      BY <3>2, <3>3
  <2>4. QED
    BY <2>3 DEF BurstInv
<1>2. ASSUME NEW l \in Lcores, FreeBurst(l)
      PROVE  BurstInv'
  <2>1. bufs' = [bufs EXCEPT ![QueuesOf[l][qi[l]]] = <<>>]
    BY <1>2 DEF FreeBurst
  <2>2. /\ pc[l] = "frames"
        /\ \/ qi[l] = Len(QueuesOf[l]) /\ qi'[l] = 1 /\ pc'[l] = "check"
           \/ qi[l] # Len(QueuesOf[l]) /\ qi'[l] = qi[l] + 1 /\ pc'[l] = pc[l]
        /\ \A m \in Lcores : m # l => qi'[m] = qi[m] /\ pc'[m] = pc[m]
    BY <1>2, NextQueueMoves DEF FreeBurst
  <2>3. ASSUME NEW m \in Lcores, NEW k \in 1..Len(QueuesOf[m]),
               bufs'[QueuesOf[m][k]] # <<>>
        PROVE  MayHold(m, k)'
    <3>1. /\ Len(QueuesOf[m]) \in Nat /\ Len(QueuesOf[l]) \in Nat
          /\ qi[l] \in 1..Len(QueuesOf[l]) /\ qi[m] \in 1..Len(QueuesOf[m])
          /\ QueuesOf[l][qi[l]] \in Queues
      BY QueueIndex
    <3>2. ~(m = l /\ k = qi[l])
      BY <2>1, <2>3, <3>1 DEF TypeOK
    <3>3. MayHold(m, k)
      BY <2>1, <2>3, <3>2, OtherQueues DEF BurstInv
    <3>4. CASE m = l
      <4>1. k # qi[l] /\ k \in Nat /\ qi[l] \in Nat
        BY <3>1, <3>2, <3>4
      <4>2. qi[l] + 1 <= k /\ pc[l] = "frames"
        BY <2>2, <3>1, <3>3, <3>4, <4>1 DEF MayHold
      <4> QED
        BY <2>2, <3>1, <3>4, <4>1, <4>2 DEF MayHold
    <3>5. CASE m # l
      BY <2>2, <3>3, <3>5 DEF MayHold
    <3>6. QED
      BY <3>4, <3>5
  <2>4. QED
    BY <2>3 DEF BurstInv
<1>3. ASSUME NEW l \in Lcores, StartPass(l)
      PROVE  BurstInv'
  <2>1. /\ pc[l] = "check" /\ bufs' = bufs /\ qi' = qi
        /\ \A m \in Lcores : m # l => pc'[m] = pc[m]
    BY <1>3 DEF StartPass, TypeOK
  <2>2. QED
    BY <2>1 DEF BurstInv, MayHold
<1>4. ASSUME UNCHANGED <<bufs, qi>>,
             \A m \in Lcores : \/ pc'[m] = pc[m]
                               \/ {pc[m], pc'[m]} \subseteq {"frames", "callback", "insert", "count"}
      PROVE  BurstInv'
  BY <1>4 DEF BurstInv, MayHold
<1>5. ASSUME NEW l \in Lcores,
             \/ InsertUnexpected(l) \/ CountUnexpected(l)
             \/ \E q \in Queues : \E n \in 1..Len(wire[q]) :
                  \/ SkipSmallFrame(l, q, n) \/ DiscardFrame(l, q, n)
                  \/ HandlePayload(l, q, n) \/ CallCallback(l, q, n)
                  \/ CallbackReturns(l, q, n) \/ FindUnexpected(l, q, n)
      PROVE  BurstInv'
  BY <1>4, <1>5 DEF InsertUnexpected, CountUnexpected, SkipSmallFrame, DiscardFrame,
     HandlePayload, CallCallback, CallbackReturns, FindUnexpected, AtFrame, InHand, TypeOK
<1>6. CASE Environment
  BY <1>4, <1>6 DEF Environment, Arrive, ToggleFlow, RaiseQuit, ReadSink
<1>7. CASE UNCHANGED vars
  BY <1>4, <1>7 DEF vars
<1>8. QED
  BY <1>1, <1>2, <1>3, <1>5, <1>6, <1>7 DEF Next, LcoreStep, RunnerStep

(* Every step keeps the mbufs of a queue accounted for.                    *)
LEMMA PoolStep ==
  MbufInv /\ [Next]_vars => PoolInv'
<1> SUFFICES ASSUME MbufInv, [Next]_vars
             PROVE  PoolInv'
  OBVIOUS
<1> USE DEF MbufInv
<1>1. ASSUME NEW l \in Lcores, RxBurst(l)
      PROVE  PoolInv'
  <2> DEFINE q == QueuesOf[l][qi[l]]
  <2>1. /\ q \in Queues /\ qi[l] \in 1..Len(QueuesOf[l]) /\ qi[l] \in Nat
    BY QueueIndex
  <2>2. PICK n \in 0..Len(ring[q]) :
          /\ n <= BurstSize /\ n <= pool[q]
          /\ bufs' = [bufs EXCEPT ![q] = SubSeq(ring[q], 1, n)]
          /\ pool' = [pool EXCEPT ![q] = pool[q] - n]
    BY <1>1, BurstTaken
  <2>3. bufs[q] = <<>>
    <3>1. ~MayHold(l, qi[l])
      BY <1>1, <2>1, SMTT(30) DEF MayHold, RxBurst
    <3>2. QED
      BY <2>1, <3>1 DEF BurstInv
  <2> DEFINE front == SubSeq(ring[q], 1, n)
  <2>4. /\ Len(bufs[q]) = 0 /\ Len(front) = n
        /\ n \in Nat /\ pool[q] \in Nat
    BY <2>1, <2>3, TakeFromFront DEF TypeOK
  <2>5. bufs' = [bufs EXCEPT ![q] = front]
    BY <2>2
  <2> HIDE DEF q, front
  <2>6. pool \in [Queues -> Nat] /\ bufs \in [Queues -> Seq(Nat)]
    BY DEF TypeOK
  <2>7. ASSUME NEW p \in Queues, p # q
        PROVE  pool'[p] = pool[p] /\ bufs'[p] = bufs[p]
    BY <2>2, <2>5, <2>6, <2>7
  <2>8. pool'[q] = pool[q] - n /\ bufs'[q] = front
    BY <2>1, <2>2, <2>5, <2>6
  <2>9. pool'[q] + Len(bufs'[q]) = pool[q] + Len(bufs[q])
    BY <2>4, <2>8
  <2>10. QED
    BY <2>7, <2>9 DEF PoolInv
<1>2. ASSUME NEW l \in Lcores, FreeBurst(l)
      PROVE  PoolInv'
  <2> DEFINE q == QueuesOf[l][qi[l]]
  <2>1. q \in Queues
    BY QueueIndex
  <2>2. /\ bufs' = [bufs EXCEPT ![q] = <<>>]
        /\ pool' = [pool EXCEPT ![q] = pool[q] + Len(bufs[q])]
    BY <1>2 DEF FreeBurst
  <2>3. Len(bufs[q]) \in Nat /\ pool[q] \in Nat /\ Len(<<>>) = 0
    BY <2>1 DEF TypeOK
  <2> HIDE DEF q
  <2>4. QED
    BY <2>1, <2>2, <2>3, SizeAssumption DEF PoolInv, TypeOK
<1>3. CASE UNCHANGED <<pool, bufs>>
  BY <1>3 DEF PoolInv
<1>4. ASSUME NEW l \in Lcores, LcoreStep(l)
      PROVE  PoolInv'
  BY <1>1, <1>2, <1>3, <1>4 DEF LcoreStep, RunnerStep, StartPass, InsertUnexpected, CountUnexpected,
     SkipSmallFrame, DiscardFrame, HandlePayload, CallCallback, CallbackReturns, FindUnexpected
<1>5. CASE Environment
  BY <1>3, <1>5 DEF Environment, Arrive, ToggleFlow, RaiseQuit, ReadSink
<1>6. CASE UNCHANGED vars
  BY <1>3, <1>6 DEF vars
<1>7. QED
  BY <1>4, <1>5, <1>6 DEF Next

(* Every mbuf is accounted for at the start.                               *)
LEMMA InitMbufInv == Init => MbufInv
<1> SUFFICES ASSUME Init
             PROVE  MbufInv
  OBVIOUS
<1>1. /\ RingSize \in Nat /\ NumMbufs \in Nat /\ NumMbufs - RingSize \in Nat
      /\ BurstSize \in Nat /\ 0 \in 0..SinkSize /\ 0 \in SourceIds
  BY SizeAssumption DEF SourceIds
<1>2. \A l \in Lcores : 1 <= Len(QueuesOf[l])
  <2>1. \A l \in Lcores : QueuesOf[l] \in Seq(Queues) /\ QueuesOf[l] # <<>>
    BY QueuesOfType DEF HaveQueues
  <2>2. QED
    BY <2>1
<1>3. <<>> \in Seq(Nat) /\ <<>> \in Seq(Frame) /\ Len(<<>>) = 0
  OBVIOUS
<1>4. /\ unexid = [s \in {} |-> 0]
      /\ DOMAIN unexid = {}
  BY DEF Init
<1>5. TypeOK
  <2>1. /\ wire \in [Queues -> Seq(Frame)] /\ ring \in [Queues -> Seq(Nat)]
        /\ bufs \in [Queues -> Seq(Nat)] /\ lost \in [Queues -> SUBSET Nat]
        /\ \A q \in Queues : Len(ring[q]) <= RingSize /\ Len(bufs[q]) <= BurstSize
    BY <1>1, <1>3 DEF Init
  <2>2. /\ pool \in [Queues -> Nat] /\ ib \in [Queues -> Nat]
        /\ numFrames \in [Queues -> Nat] /\ flow \in BOOLEAN /\ quit \in BOOLEAN
    BY <1>1 DEF Init
  <2>3. /\ pc \in [Lcores -> Phases]
        /\ qi \in [Lcores -> Nat \ {0}]
        /\ \A l \in Lcores : qi[l] <= Len(QueuesOf[l])
    BY <1>2 DEF Init
  <2>4. /\ DOMAIN unexid \subseteq SourceIds
        /\ \A s \in DOMAIN unexid : unexid[s] \in Nat
        /\ unexSeen \in [SourceIds -> Nat]
    BY <1>4 DEF Init
  <2>5. /\ sink \in [Sources -> 0..SinkSize] /\ dropped \in [Sources -> Nat]
        /\ handed \in [Queues -> [n : Nat, to : SourceIds]]
    BY <1>1 DEF Init, Nothing
  <2>6. tree \in {"sound", "raced", "fatal"}
    BY DEF Init
  <2>7. QED
    BY <2>1, <2>2, <2>3, <2>4, <2>5, <2>6 DEF TypeOK
<1>6. BurstInv
  <2>1. ASSUME NEW l \in Lcores, NEW k \in 1..Len(QueuesOf[l])
        PROVE  bufs[QueuesOf[l][k]] = <<>>
    BY <1>5, QueueIndex DEF Init
  <2>2. QED
    BY <2>1 DEF BurstInv
<1>7. PoolInv
  BY <1>1, <1>3 DEF Init, PoolInv
<1>8. QED
  BY <1>5, <1>6, <1>7 DEF MbufInv

(* The inductive invariant of the mbufs is one.                            *)
LEMMA MbufInvHolds == Spec => []MbufInv
<1>1. MbufInv /\ [Next]_vars => MbufInv'
  BY TypeStep, BurstStep, PoolStep DEF MbufInv
<1>2. QED
  BY InitMbufInv, <1>1, PTL DEF Spec

(***************************************************************************)
(* The type invariant, with the bounds that matter: a receive ring never   *)
(* holds more than RingSize frames nor m_bufs more than BurstSize, and the *)
(* loops over the queues of an lcore never run past the last one.          *)
(***************************************************************************)
THEOREM TypeCorrect == Spec => []TypeOK
<1>1. MbufInv => TypeOK
  BY DEF MbufInv
<1>2. QED
  BY MbufInvHolds, <1>1, PTL

(***************************************************************************)
(* Every mbuf taken from a ring is returned to the pool, once: an lcore    *)
(* that checks the quit signal, or has left rx_runner, holds none.         *)
(***************************************************************************)
THEOREM NoMbufLost == Spec => []MbufsConserved
<1>1. MbufInv => MbufsConserved
  BY DEF MbufInv, BurstInv, PoolInv, MayHold, MbufsConserved
<1>2. QED
  BY MbufInvHolds, <1>1, PTL

-----------------------------------------------------------------------------
(* The order of the frames of a queue.  Ring and burst hold frames that    *)
(* have arrived, oldest first, the burst older ones than the ring; and the *)
(* frame handed over last is older than all that is still to be processed. *)
Ascending(f) ==
  \A j, k \in 1..Len(f) : j < k => f[j] < f[k]

OrderOf(q) ==
  /\ \A k \in 1..Len(ring[q]) : ring[q][k] <= Len(wire[q])
  /\ Ascending(ring[q])
  /\ Ascending(bufs[q])
  /\ \A j \in 1..Len(bufs[q]) : bufs[q][j] <= Len(wire[q])
  /\ \A j \in 1..Len(bufs[q]), k \in 1..Len(ring[q]) : bufs[q][j] < ring[q][k]
  /\ handed[q].n <= Len(wire[q])
  /\ \A k \in 1..Len(ring[q]) : handed[q].n < ring[q][k]
  /\ \A k \in (ib[q] + 1)..Len(bufs[q]) : handed[q].n < bufs[q][k]

OrderInv == \A q \in Queues : OrderOf(q)

(* The types of what OrderOf relates.                                      *)
LEMMA QueueTypes ==
  ASSUME TypeOK, NEW q \in Queues
  PROVE  /\ ring[q] \in Seq(Nat) /\ Len(ring[q]) \in Nat
         /\ bufs[q] \in Seq(Nat) /\ Len(bufs[q]) \in Nat
         /\ Len(wire[q]) \in Nat
         /\ ib[q] \in Nat
         /\ handed[q].n \in Nat
         /\ \A k \in 1..Len(ring[q]) : ring[q][k] \in Nat
         /\ \A k \in 1..Len(bufs[q]) : bufs[q][k] \in Nat
<1>1. /\ ring[q] \in Seq(Nat) /\ bufs[q] \in Seq(Nat) /\ wire[q] \in Seq(Frame)
      /\ ib[q] \in Nat /\ handed[q] \in [n : Nat, to : SourceIds]
  BY DEF TypeOK
<1>2. handed[q].n \in Nat
  BY <1>1
<1>3. /\ Len(ring[q]) \in Nat /\ \A k \in 1..Len(ring[q]) : ring[q][k] \in Nat
  BY <1>1
<1>4. /\ Len(bufs[q]) \in Nat /\ \A k \in 1..Len(bufs[q]) : bufs[q][k] \in Nat
  BY <1>1
<1>5. Len(wire[q]) \in Nat
  BY <1>1
<1>6. QED
  BY <1>1, <1>2, <1>3, <1>4, <1>5

(* A queue a step does not touch keeps its order.                          *)
LEMMA SameOrder ==
  ASSUME NEW q \in Queues, OrderOf(q),
         ring'[q] = ring[q], bufs'[q] = bufs[q], wire'[q] = wire[q],
         ib'[q] = ib[q], handed'[q] = handed[q]
  PROVE  OrderOf(q)'
  BY DEF OrderOf, Ascending

(* Nor does processing a frame without handing it over change the order.   *)
LEMMA OrderAfterFrame ==
  ASSUME TypeOK, NEW q \in Queues, OrderInv, ib' = [ib EXCEPT ![q] = ib[q] + 1],
         UNCHANGED <<ring, bufs, wire, handed>>
  PROVE  OrderInv'
<1>1. ASSUME NEW p \in Queues, p # q
      PROVE  OrderOf(p)'
  <2>1. ib'[p] = ib[p]
    BY <1>1 DEF TypeOK
  <2>2. QED
    BY <2>1, SameOrder DEF OrderInv
<1>2. ib'[q] = ib[q] + 1 /\ ib[q] \in Nat /\ Len(bufs[q]) \in Nat
  BY QueueTypes DEF TypeOK
<1>3. OrderOf(q)'
  BY <1>2 DEF OrderInv, OrderOf, Ascending
<1>4. QED
  BY <1>1, <1>3 DEF OrderInv

(* A frame that arrives is younger than all of its queue.                  *)
LEMMA ArriveOrder ==
  ASSUME TypeOK, OrderInv, NEW q \in Queues, NEW f \in Frame, Arrive(q, f)
  PROVE  OrderInv'
<1>1. ASSUME NEW p \in Queues, p # q
      PROVE  OrderOf(p)'
  <2>1. ring'[p] = ring[p] /\ wire'[p] = wire[p]
    BY <1>1 DEF Arrive, TypeOK
  <2>2. QED
    BY <2>1, SameOrder DEF OrderInv, Arrive, sinkVars
<1>2. OrderOf(q)'
  <2> DEFINE len == Len(wire[q])
             longer == Append(ring[q], len + 1)
  <2>1. /\ len \in Nat /\ Len(ring[q]) \in Nat /\ Len(bufs[q]) \in Nat
        /\ ring[q] \in Seq(Nat)
        /\ \A k \in 1..Len(ring[q]) : ring[q][k] \in Nat
        /\ \A k \in 1..Len(bufs[q]) : bufs[q][k] \in Nat
        /\ ib[q] \in Nat /\ handed[q].n \in Nat
    BY QueueTypes
  <2>2. /\ Len(longer) = Len(ring[q]) + 1
        /\ \A k \in 1..Len(ring[q]) : longer[k] = ring[q][k]
        /\ longer[Len(ring[q]) + 1] = len + 1
    BY <2>1
  <2>3. Len(wire'[q]) = len + 1
    BY DEF Arrive, TypeOK
  <2>4. bufs'[q] = bufs[q] /\ ib'[q] = ib[q] /\ handed'[q] = handed[q]
    BY DEF Arrive, sinkVars
  <2>5. ring'[q] = ring[q] \/ ring'[q] = longer
    BY DEF Arrive, TypeOK
  <2> HIDE DEF len, longer
  <2>6. OrderOf(q) /\ len = Len(wire[q])
    BY DEF OrderInv, len
  <2>10. /\ \A j \in 1..Len(bufs[q]) : bufs[q][j] <= len + 1
         /\ \A k \in 1..Len(ring[q]) : ring[q][k] <= len + 1
         /\ handed[q].n <= len + 1
    <3>1. /\ \A j \in 1..Len(bufs[q]) : bufs[q][j] <= len
          /\ \A k \in 1..Len(ring[q]) : ring[q][k] <= len
          /\ handed[q].n <= len
      BY <2>6 DEF OrderOf
    <3>2. \A x \in Nat : x <= len => x <= len + 1
      BY <2>1
    <3>3. QED
      BY <2>1, <3>1, <3>2
  <2>7. CASE ring'[q] = ring[q]
    <3>1. /\ Ascending(ring[q]) /\ Ascending(bufs[q])
          /\ \A j \in 1..Len(bufs[q]), k \in 1..Len(ring[q]) : bufs[q][j] < ring[q][k]
          /\ \A k \in 1..Len(ring[q]) : handed[q].n < ring[q][k]
          /\ \A k \in (ib[q] + 1)..Len(bufs[q]) : handed[q].n < bufs[q][k]
      BY <2>6 DEF OrderOf
    <3>2. Ascending(ring'[q]) /\ Ascending(bufs'[q])
      BY <2>4, <2>7, <3>1
    <3>3. QED
      BY <2>3, <2>4, <2>7, <2>10, <3>1, <3>2 DEF OrderOf
  <2>8. CASE ring'[q] = longer
    <3>1. \A k \in 1..Len(longer) : k \in 1..Len(ring[q]) \/ k = Len(ring[q]) + 1
      BY <2>1, <2>2
    <3>2. ASSUME NEW k \in 1..Len(longer)
          PROVE  /\ longer[k] <= len + 1 /\ handed[q].n < longer[k]
                 /\ \A j \in 1..Len(bufs[q]) : bufs[q][j] < longer[k]
      <4>1. CASE k \in 1..Len(ring[q])
        <5>1. longer[k] = ring[q][k] /\ ring[q][k] \in Nat
          BY <2>1, <2>2, <4>1
        <5>2. /\ ring[q][k] <= len /\ handed[q].n < ring[q][k]
              /\ \A j \in 1..Len(bufs[q]) : bufs[q][j] < ring[q][k]
          BY <2>6, <4>1 DEF OrderOf
        <5>3. ring[q][k] <= len + 1
          BY <2>1, <5>1, <5>2
        <5>4. QED
          BY <5>1, <5>2, <5>3
      <4>2. CASE k = Len(ring[q]) + 1
        <5>1. longer[k] = len + 1
          BY <2>2, <4>2
        <5>2. handed[q].n <= len /\ \A j \in 1..Len(bufs[q]) : bufs[q][j] <= len
          BY <2>6 DEF OrderOf
        <5>3. QED
          BY <2>1, <5>1, <5>2, SMTT(30)
      <4>3. k \in 1..Len(ring[q]) \/ k = Len(ring[q]) + 1
        BY <3>1, <3>2
      <4>4. QED
        BY <4>1, <4>2, <4>3
    <3>3. ASSUME NEW j \in 1..Len(longer), NEW k \in 1..Len(longer), j < k
          PROVE  longer[j] < longer[k]
      <4> DEFINE m == Len(ring[q])
      <4>0. Len(longer) = m + 1 /\ m \in Nat
        BY <2>1, <2>2
      <4>5. j \in 1..(m + 1) /\ k \in 1..(m + 1) /\ j < k
        BY <3>3, <4>0
      <4> HIDE DEF m
      <4>6. j \in 1..m
        BY <4>0, <4>5
      <4> USE DEF m
      <4>1. j \in 1..Len(ring[q]) /\ longer[j] = ring[q][j]
        BY <2>2, <4>6
      <4>2. CASE k \in 1..Len(ring[q])
        <5>1. ring[q][j] < ring[q][k]
          BY <2>6, <3>3, <4>1, <4>2 DEF OrderOf, Ascending
        <5>2. QED
          BY <2>2, <4>1, <4>2, <5>1
      <4>3. CASE k = Len(ring[q]) + 1
        <5>1. ring[q][j] <= len /\ ring[q][j] \in Nat
          BY <2>1, <2>6, <4>1 DEF OrderOf
        <5>2. longer[k] = len + 1
          BY <2>2, <4>3
        <5>3. QED
          BY <2>1, <4>1, <5>1, <5>2
      <4>4. k \in 1..Len(ring[q]) \/ k = Len(ring[q]) + 1
        BY <3>1, <3>3
      <4>7. QED
        BY <4>2, <4>3, <4>4
    <3>4. Ascending(longer)
      BY <3>3 DEF Ascending
    <3>5. \A k \in 1..Len(longer) :
            /\ longer[k] <= Len(wire'[q]) /\ handed'[q].n < longer[k]
            /\ \A j \in 1..Len(bufs'[q]) : bufs'[q][j] < longer[k]
      BY <2>3, <2>4, <3>2
    <3>6. QED
      BY <2>3, <2>4, <2>6, <2>8, <2>10, <3>4, <3>5 DEF OrderOf, Ascending
  <2>9. QED
    BY <2>5, <2>7, <2>8
<1>3. QED
  BY <1>1, <1>2 DEF OrderInv

(* The frames taken into a burst keep their order.                         *)
LEMMA RxBurstOrder ==
  ASSUME TypeOK, OrderInv, NEW l \in Lcores, RxBurst(l)
  PROVE  OrderInv'
<1>1. PICK q \in Queues : q = QueuesOf[l][qi[l]]
  BY QueueAtType
<1>2. PICK n \in 0..Len(ring[q]) :
        /\ bufs' = [bufs EXCEPT ![q] = SubSeq(ring[q], 1, n)]
        /\ ring' = [ring EXCEPT ![q] = SubSeq(ring[q], n + 1, Len(ring[q]))]
  BY <1>1, BurstTaken
<1>3. wire' = wire /\ ib' = ib /\ handed' = handed
  BY DEF RxBurst, sinkVars
<1> DEFINE front == SubSeq(ring[q], 1, n)
           back == SubSeq(ring[q], n + 1, Len(ring[q]))
           all == ring[q]
<1>4. /\ all \in Seq(Nat) /\ Len(all) \in Nat /\ n \in 0..Len(all)
      /\ \A k \in 1..Len(all) : all[k] \in Nat
      /\ Len(wire[q]) \in Nat /\ ib[q] \in Nat /\ handed[q].n \in Nat
  BY <1>1, QueueTypes
<1>5. /\ Len(front) = n
      /\ \A k \in 1..n : front[k] = all[k]
      /\ Len(back) = Len(all) - n
      /\ \A k \in 1..(Len(all) - n) : back[k] = all[n + k]
  BY <1>4, TakeFromFront
<1>6. /\ \A k \in 1..Len(all) : all[k] <= Len(wire[q])
      /\ Ascending(all)
      /\ \A k \in 1..Len(all) : handed[q].n < all[k]
      /\ handed[q].n <= Len(wire[q])
  BY <1>1 DEF OrderInv, OrderOf
<1>7. bufs'[q] = front /\ ring'[q] = back
  BY <1>1, <1>2 DEF TypeOK
<1>8. ASSUME NEW p \in Queues, p # q
      PROVE  OrderOf(p)'
  <2>1. ring'[p] = ring[p] /\ bufs'[p] = bufs[p]
    BY <1>2, <1>8 DEF TypeOK
  <2>2. QED
    BY <1>3, <2>1, SameOrder DEF OrderInv
<1> HIDE DEF front, back, all
<1>9. \A k \in 1..Len(back) : n + k \in 1..Len(all) /\ back[k] = all[n + k]
  <2>1. /\ Len(back) = Len(all) - n /\ Len(all) \in Nat /\ n \in 0..Len(all)
        /\ \A k \in 1..(Len(all) - n) : back[k] = all[n + k]
    BY <1>4, <1>5
  <2>2. \A k \in 1..(Len(all) - n) : n + k \in 1..Len(all)
    BY <2>1
  <2>3. QED
    BY <2>1, <2>2
<1>10. /\ \A k \in 1..Len(back) : back[k] <= Len(wire[q]) /\ handed[q].n < back[k]
       /\ Ascending(back)
  <2>1. ASSUME NEW j \in 1..Len(back), NEW k \in 1..Len(back), j < k
        PROVE  back[j] < back[k]
    <3>1. n + j < n + k /\ n + j \in 1..Len(all) /\ n + k \in 1..Len(all)
      BY <1>4, <1>5, <1>9, <2>1
    <3>2. QED
      BY <1>6, <1>9, <3>1 DEF Ascending
  <2>2. QED
    BY <1>6, <1>9, <2>1 DEF Ascending
<1>11. \A k \in 1..Len(front) : k \in 1..Len(all) /\ front[k] = all[k]
  BY <1>4, <1>5
<1>12. /\ \A k \in 1..Len(front) : front[k] <= Len(wire[q]) /\ handed[q].n < front[k]
       /\ Ascending(front)
  BY <1>4, <1>5, <1>6, <1>11 DEF Ascending
<1>13. ASSUME NEW j \in 1..Len(front), NEW k \in 1..Len(back)
       PROVE  front[j] < back[k]
  <2>3. /\ j \in 1..n /\ k \in 1..Len(back) /\ n \in 0..Len(all) /\ Len(all) \in Nat
        /\ n + k \in 1..Len(all)
    BY <1>4, <1>5, <1>9
  <2>1. j < n + k /\ j \in 1..Len(all) /\ n + k \in 1..Len(all)
    <3>1. \A a, b, c, d \in Nat :
            a \in 1..b /\ b \in 0..c /\ d >= 1 => a < b + d /\ a \in 1..c
      OBVIOUS
    <3>2. j \in Nat /\ n \in Nat /\ k \in Nat /\ k >= 1
      BY <2>3, <1>4, <1>5
    <3>3. QED
      BY <2>3, <3>1, <3>2
  <2>2. QED
    BY <1>6, <1>9, <1>11, <2>1 DEF Ascending
<1>14. OrderOf(q)'
  <2>1. \A k \in (ib[q] + 1)..Len(front) : k \in 1..Len(front)
    BY <1>4, <1>5
  <2>2. QED
    BY <1>3, <1>6, <1>7, <1>10, <1>12, <1>13, <2>1 DEF OrderOf, Ascending
<1>15. QED
  BY <1>8, <1>14 DEF OrderInv

(* Freeing a burst whose frames are all processed keeps the order.         *)
LEMMA FreeBurstOrder ==
  ASSUME TypeOK, OrderInv, NEW l \in Lcores, FreeBurst(l)
  PROVE  OrderInv'
<1>1. PICK q \in Queues : q = QueuesOf[l][qi[l]]
  BY QueueAtType
<1>2. /\ bufs' = [bufs EXCEPT ![q] = <<>>]
      /\ ib' = [ib EXCEPT ![q] = 0]
      /\ ring' = ring /\ wire' = wire /\ handed' = handed
  BY <1>1 DEF FreeBurst, nicVars, sinkVars
<1>3. ASSUME NEW p \in Queues, p # q
      PROVE  OrderOf(p)'
  <2>1. bufs'[p] = bufs[p] /\ ib'[p] = ib[p]
    BY <1>2, <1>3 DEF TypeOK
  <2>2. QED
    BY <1>2, <2>1, SameOrder DEF OrderInv
<1>4. OrderOf(q)'
  <2>1. bufs'[q] = <<>> /\ Len(bufs'[q]) = 0 /\ ib'[q] = 0
    BY <1>1, <1>2 DEF TypeOK
  <2>2. QED
    BY <1>1, <1>2, <2>1 DEF OrderInv, OrderOf, Ascending
<1>5. QED
  BY <1>3, <1>4 DEF OrderInv

(* The frame in hand is younger than the one handed over last, and older   *)
(* than the frames behind it.                                              *)
LEMMA HandedOverOrder ==
  ASSUME TypeOK, OrderInv, NEW l \in Lcores, NEW q \in Queues,
         NEW n \in 1..Len(wire[q]), HandlePayload(l, q, n) \/ CallbackReturns(l, q, n)
  PROVE  handed[q].n < n /\ OrderInv'
<1> DEFINE s == SourceOfFrame(q, n)
<1>1. /\ ib[q] < Len(bufs[q]) /\ n = bufs[q][ib[q] + 1]
      /\ ib' = [ib EXCEPT ![q] = ib[q] + 1]
      /\ handed' = [handed EXCEPT ![q] = [n |-> n, to |-> s]]
      /\ ring' = ring /\ bufs' = bufs /\ wire' = wire
  BY Zenon DEF HandlePayload, CallbackReturns, AtFrame, InHand, FrameProcessed, nicVars
<1> HIDE DEF s
<1>2. /\ Len(wire[q]) \in Nat /\ Len(bufs[q]) \in Nat /\ Len(ring[q]) \in Nat
      /\ ib[q] \in Nat
  BY QueueTypes
<1>3. ib[q] + 1 \in 1..Len(bufs[q])
  BY <1>1, <1>2
<1>4. OrderOf(q)
  BY DEF OrderInv
<1>5. handed[q].n < n
  BY <1>1, <1>2, <1>3, <1>4 DEF OrderOf
<1>6. ASSUME NEW p \in Queues, p # q
      PROVE  OrderOf(p)'
  <2>1. ib'[p] = ib[p] /\ handed'[p] = handed[p]
    BY <1>1, <1>6 DEF TypeOK
  <2>2. QED
    BY <1>1, <2>1, SameOrder DEF OrderInv
<1>7. OrderOf(q)'
  <2>1. ib'[q] = ib[q] + 1 /\ handed'[q].n = n
    BY <1>1 DEF TypeOK
  <2>2. \A k \in 1..Len(ring[q]) : n < ring[q][k]
    BY <1>1, <1>3, <1>4 DEF OrderOf
  <2>3. ASSUME NEW k \in (ib[q] + 2)..Len(bufs[q])
        PROVE  n < bufs[q][k]
    <3>1. k \in 1..Len(bufs[q]) /\ ib[q] + 1 < k
      BY <1>2
    <3>2. QED
      BY <1>1, <1>3, <1>4, <3>1 DEF OrderOf, Ascending
  <2>4. ib[q] + 1 + 1 = ib[q] + 2 /\ n <= Len(wire[q])
    BY <1>2
  <2>5. QED
    BY <1>1, <1>4, <2>1, <2>2, <2>3, <2>4 DEF OrderOf
<1>8. QED
  BY <1>5, <1>6, <1>7 DEF OrderInv

(* Every step keeps the frames of a queue in order.                        *)
LEMMA OrderStep ==
  TypeOK /\ OrderInv /\ [Next]_vars => OrderInv'
<1> SUFFICES ASSUME TypeOK, OrderInv, [Next]_vars
             PROVE  OrderInv'
  OBVIOUS
<1>1. CASE UNCHANGED <<ring, bufs, wire, ib, handed>>
  BY <1>1 DEF OrderInv, OrderOf, Ascending
<1>2. ASSUME NEW l \in Lcores, LcoreStep(l)
      PROVE  OrderInv'
  <2>1. CASE StartPass(l) \/ InsertUnexpected(l)
    BY <1>1, <2>1 DEF StartPass, InsertUnexpected, nicVars, sinkVars
  <2>2. CASE RxBurst(l)
    BY <2>2, RxBurstOrder
  <2>3. CASE FreeBurst(l)
    BY <2>3, FreeBurstOrder
  <2>4. CASE CountUnexpected(l)
    BY <2>4, QueueAtType, OrderAfterFrame DEF CountUnexpected, FrameProcessed, nicVars,
       sinkVars
  <2>5. ASSUME NEW q \in Queues, NEW n \in 1..Len(wire[q]),
               SkipSmallFrame(l, q, n) \/ DiscardFrame(l, q, n)
        PROVE  OrderInv'
    BY <2>5, OrderAfterFrame DEF SkipSmallFrame, DiscardFrame, FrameProcessed, nicVars,
       sinkVars
  <2>6. ASSUME NEW q \in Queues, NEW n \in 1..Len(wire[q]),
               HandlePayload(l, q, n) \/ CallbackReturns(l, q, n)
        PROVE  OrderInv'
    BY <2>6, HandedOverOrder
  <2>7. ASSUME NEW q \in Queues, NEW n \in 1..Len(wire[q]),
               FindUnexpected(l, q, n) \/ CallCallback(l, q, n)
        PROVE  OrderInv'
    BY <1>1, <2>7 DEF FindUnexpected, CallCallback, nicVars, sinkVars
  <2>8. QED
    BY <1>2, <2>1, <2>2, <2>3, <2>4, <2>5, <2>6, <2>7 DEF LcoreStep, RunnerStep
<1>3. CASE Environment
  <2>1. ASSUME NEW q \in Queues, NEW f \in Frame, Arrive(q, f)
        PROVE  OrderInv'
    BY <2>1, ArriveOrder
  <2>2. CASE ToggleFlow \/ RaiseQuit \/ \E s \in Sources : ReadSink(s)
    BY <1>1, <2>2 DEF ToggleFlow, RaiseQuit, ReadSink, nicVars, sinkVars
  <2>3. QED
    BY <1>3, <2>1, <2>2, ArrivingFrames DEF Environment
<1>4. CASE UNCHANGED vars
  BY <1>1, <1>4 DEF vars
<1>5. QED
  BY <1>2, <1>3, <1>4 DEF Next

LEMMA OrderInvHolds == Spec => [](TypeOK /\ OrderInv)
<1>1. Init => TypeOK /\ OrderInv
  <2>1. Init => TypeOK
    BY InitMbufInv DEF MbufInv
  <2>2. ASSUME Init
        PROVE  OrderInv
    <3>1. Len(<<>>) = 0
      OBVIOUS
    <3>2. ASSUME NEW q \in Queues
          PROVE  /\ Len(ring[q]) = 0 /\ Len(bufs[q]) = 0 /\ Len(wire[q]) = 0
                 /\ ib[q] = 0 /\ handed[q].n = 0
      BY <2>2, <3>1 DEF Init, Nothing
    <3>3. QED
      BY <3>2 DEF OrderInv, OrderOf, Ascending
  <2>3. QED
    BY <2>1, <2>2
<1> QED
  BY <1>1, TypeStep, OrderStep, PTL DEF Spec

-----------------------------------------------------------------------------
(* The frame an lcore has in hand, while it runs a callback or counts the  *)
(* frame as unexpected, is in its burst until it is done with it.          *)
Holding(l) == pc[l] \in {"callback", "insert", "count"}

FrameInHand(l) ==
  LET q == QueuesOf[l][qi[l]] IN ib[q] < Len(bufs[q]) /\ bufs[q][ib[q] + 1] \in 1..Len(wire[q])

JumboInHand(l) ==
  LET q == QueuesOf[l][qi[l]] IN wire[q][bufs[q][ib[q] + 1]].jumbo

HandInv ==
  \A l \in Lcores : Holding(l) =>
    /\ FrameInHand(l) /\ JumboInHand(l)
    /\ pc[l] = "callback" => SourceInHand(l) \in Sources

(* For the count of a source id, what matters is which lcores are between  *)
(* the test and the increment.                                             *)
Finding(l) == pc[l] \in {"insert", "count"}

Pending(s) == {l \in Lcores : Finding(l) /\ SourceInHand(l) = s}

CountedInv ==
  \A s \in SourceIds :
    /\ CountOf(s) + Cardinality(Pending(s)) <= unexSeen[s]
    /\ unexSeen[s] > 0 => CountOf(s) > 0 \/ Pending(s) # {}

FoundInv == \A l \in Lcores : pc[l] = "count" => SourceInHand(l) \in DOMAIN unexid

RecordedInv == tree = "sound" => FoundInv /\ CountedInv

UnexpectedInv == TypeOK /\ HandInv /\ RecordedInv

(* The lcores between test and increment are finitely many.                *)
LEMMA PendingFinite ==
  ASSUME NEW s
  PROVE  IsFiniteSet(Pending(s)) /\ Cardinality(Pending(s)) \in Nat
<1>1. Pending(s) \in SUBSET Lcores
  BY DEF Pending
<1> QED
  BY <1>1, LcoresFinite, FS_Subset, FS_CardinalityType

(* A frame in hand stays the frame it is when frames arrive behind it.     *)
LEMMA SameFrameInHand ==
  ASSUME TypeOK, NEW m \in Lcores, Holding(m), FrameInHand(m), pc'[m] = pc[m], qi'[m] = qi[m],
         bufs'[QueuesOf[m][qi[m]]] = bufs[QueuesOf[m][qi[m]]],
         ib'[QueuesOf[m][qi[m]]] = ib[QueuesOf[m][qi[m]]],
         Len(wire'[QueuesOf[m][qi[m]]]) \in Nat,
         Len(wire'[QueuesOf[m][qi[m]]]) >= Len(wire[QueuesOf[m][qi[m]]]),
         \A n \in 1..Len(wire[QueuesOf[m][qi[m]]]) :
           wire'[QueuesOf[m][qi[m]]][n] = wire[QueuesOf[m][qi[m]]][n]
  PROVE  /\ Holding(m)' /\ FrameInHand(m)' /\ SourceInHand(m)' = SourceInHand(m)
         /\ JumboInHand(m)' = JumboInHand(m)
<1> DEFINE q == QueuesOf[m][qi[m]]
           n == bufs[q][ib[q] + 1]
<1>1. q \in Queues /\ Len(wire[q]) \in Nat
  BY QueueAtType, QueueTypes
<1>2. n \in 1..Len(wire[q]) /\ ib[q] < Len(bufs[q])
  BY DEF FrameInHand
<1>3. QueuesOf[m][qi'[m]] = q /\ bufs'[q][ib'[q] + 1] = n
  OBVIOUS
<1>4. wire'[q][n] = wire[q][n]
  BY <1>2, Zenon
<1>5. n \in 1..Len(wire'[q])
  <2> HIDE DEF n, q
  <2> QED
    BY <1>1, <1>2 DEF q
<1>6. SourceInHand(m)' = SourceInHand(m)
  BY <1>3, <1>4, Zenon DEF SourceInHand, SourceOfFrame
<1>7. FrameInHand(m)'
  BY <1>2, <1>3, <1>5, Zenon DEF FrameInHand
<1>8. JumboInHand(m)' = JumboInHand(m)
  BY <1>3, <1>4, Zenon DEF JumboInHand
<1> QED
  BY <1>6, <1>7, <1>8 DEF Holding

(* A step of one lcore leaves the place and the burst of another alone.    *)
LEMMA OtherLcoreStays ==
  ASSUME TypeOK, NEW l \in Lcores, LcoreStep(l), NEW m \in Lcores, m # l
  PROVE  /\ pc'[m] = pc[m] /\ qi'[m] = qi[m]
         /\ bufs'[QueuesOf[m][qi[m]]] = bufs[QueuesOf[m][qi[m]]]
         /\ ib'[QueuesOf[m][qi[m]]] = ib[QueuesOf[m][qi[m]]]
<1> DEFINE p == QueuesOf[l][qi[l]]
           q == QueuesOf[m][qi[m]]
<1>1. p \in Queues /\ q \in Queues /\ p # q
  BY QueueIndex, QueuesDisjoint DEF NoneShared
<1>2. /\ pc \in [Lcores -> Phases]
      /\ qi \in [Lcores -> Nat \ {0}] /\ bufs \in [Queues -> Seq(Nat)]
      /\ ib \in [Queues -> Nat]
  BY DEF TypeOK
<1> SUFFICES pc'[m] = pc[m] /\ qi'[m] = qi[m] /\ bufs'[q] = bufs[q] /\ ib'[q] = ib[q]
  OBVIOUS
<1> HIDE DEF p, q
<1>3. CASE StartPass(l)
  BY <1>3, <1>1, <1>2 DEF StartPass
<1>4. CASE RxBurst(l)
  <2>1. pc'[m] = pc[m] /\ qi'[m] = qi[m]
    BY <1>4, NextQueueMoves DEF RxBurst
  <2>2. PICK b : bufs' = [bufs EXCEPT ![p] = b]
    BY <1>4, BurstTaken DEF p
  <2> QED
    BY <1>4, <2>1, <2>2, <1>1, <1>2 DEF RxBurst
<1>5. CASE FreeBurst(l)
  <2>1. pc'[m] = pc[m] /\ qi'[m] = qi[m]
    BY <1>5, NextQueueMoves DEF FreeBurst
  <2>2. bufs' = [bufs EXCEPT ![p] = <<>>] /\ ib' = [ib EXCEPT ![p] = 0]
    BY <1>5 DEF FreeBurst, p
  <2> QED
    BY <2>1, <2>2, <1>1, <1>2
<1>6. CASE InsertUnexpected(l) \/ CountUnexpected(l)
  BY <1>6, <1>1, <1>2 DEF InsertUnexpected, CountUnexpected, FrameProcessed, p
<1>7. ASSUME NEW r \in Queues, NEW n \in 1..Len(wire[r]),
             SkipSmallFrame(l, r, n) \/ DiscardFrame(l, r, n) \/ HandlePayload(l, r, n)
               \/ CallCallback(l, r, n) \/ CallbackReturns(l, r, n) \/ FindUnexpected(l, r, n)
      PROVE  pc'[m] = pc[m] /\ qi'[m] = qi[m] /\ bufs'[q] = bufs[q] /\ ib'[q] = ib[q]
  <2>1. r = p
    BY <1>7 DEF SkipSmallFrame, DiscardFrame, HandlePayload, CallCallback, CallbackReturns, FindUnexpected, AtFrame, InHand, p
  <2>2. /\ qi' = qi /\ bufs' = bufs
        /\ ib' = ib \/ ib' = [ib EXCEPT ![r] = @ + 1]
        /\ pc' = pc \/ \E c : pc' = [pc EXCEPT ![l] = c]
    BY <1>7, Zenon DEF SkipSmallFrame, DiscardFrame, HandlePayload, CallCallback, CallbackReturns, FindUnexpected, FrameProcessed
  <2> QED
    BY <2>1, <2>2, <1>1, <1>2
<1> QED
  BY <1>3, <1>4, <1>5, <1>6, <1>7 DEF LcoreStep, RunnerStep

(* A step of one lcore leaves what another has in hand alone.              *)
LEMMA OtherLcoreKeepsFrame ==
  ASSUME TypeOK, NEW l \in Lcores, LcoreStep(l), NEW m \in Lcores, m # l,
         Holding(m), FrameInHand(m)
  PROVE  /\ Holding(m)' /\ FrameInHand(m)' /\ SourceInHand(m)' = SourceInHand(m)
         /\ JumboInHand(m)' = JumboInHand(m)
<1> DEFINE q == QueuesOf[m][qi[m]]
<1>1. q \in Queues
  BY QueueIndex
<1>2. wire' = wire
  BY Zenon DEF LcoreStep, RunnerStep, StartPass, RxBurst, InsertUnexpected, CountUnexpected, FreeBurst,
     SkipSmallFrame, DiscardFrame, HandlePayload, CallCallback, CallbackReturns, FindUnexpected, nicVars
<1>3. /\ pc'[m] = pc[m] /\ qi'[m] = qi[m]
      /\ bufs'[q] = bufs[q] /\ ib'[q] = ib[q]
  BY OtherLcoreStays
<1>4. Len(wire[q]) \in Nat
  BY <1>1, QueueTypes
<1> QED
  BY <1>2, <1>3, <1>4, SameFrameInHand

(* So do the NIC, the commands and the readers.                            *)
LEMMA EnvironmentKeepsFrame ==
  ASSUME TypeOK, Environment \/ UNCHANGED vars, NEW m \in Lcores, Holding(m), FrameInHand(m)
  PROVE  /\ Holding(m)' /\ FrameInHand(m)' /\ SourceInHand(m)' = SourceInHand(m)
         /\ JumboInHand(m)' = JumboInHand(m)
<1> DEFINE q == QueuesOf[m][qi[m]]
<1>1. q \in Queues
  BY QueueAtType
<1>2. Len(wire[q]) \in Nat /\ wire \in [Queues -> Seq(Frame)] /\ wire[q] \in Seq(Frame)
  BY <1>1 DEF TypeOK
<1>3. pc' = pc /\ qi' = qi /\ bufs' = bufs /\ ib' = ib
  BY DEF Environment, Arrive, ToggleFlow, RaiseQuit, ReadSink, nicVars, sinkVars, vars
<1>4. wire' = wire \/ \E p \in Queues, f \in Frame : wire' = [wire EXCEPT ![p] = Append(@, f)]
  BY ArrivingFrames, Zenon DEF Environment, Arrive, ToggleFlow, RaiseQuit, ReadSink, nicVars, sinkVars, vars
<1>5. /\ Len(wire'[q]) \in Nat /\ Len(wire'[q]) >= Len(wire[q])
      /\ \A n \in 1..Len(wire[q]) : wire'[q][n] = wire[q][n]
  <2> HIDE DEF q
  <2>1. CASE wire' = wire
    BY <2>1, <1>2
  <2>2. ASSUME NEW p \in Queues, NEW f \in Frame, wire' = [wire EXCEPT ![p] = Append(@, f)]
        PROVE  /\ Len(wire'[q]) \in Nat /\ Len(wire'[q]) >= Len(wire[q])
               /\ \A n \in 1..Len(wire[q]) : wire'[q][n] = wire[q][n]
    BY <2>2, <1>1, <1>2
  <2> QED
    BY <1>4, <2>1, <2>2
<1> QED
  BY <1>3, <1>5, SameFrameInHand

(* A step of an lcore leaves it with nothing in hand, or with a jumbo      *)
(* frame of its burst, which in callback mode leads to a source.           *)
LEMMA HandStep ==
  ASSUME TypeOK, TypeOK', HandInv, [Next]_vars
  PROVE  HandInv'
<1>1. CASE Environment \/ UNCHANGED vars
  <2>1. pc' = pc
    BY <1>1 DEF Environment, Arrive, ToggleFlow, RaiseQuit, ReadSink, vars
  <2>2. ASSUME NEW m \in Lcores, Holding(m)'
        PROVE  /\ FrameInHand(m)' /\ JumboInHand(m)'
               /\ pc'[m] = "callback" => SourceInHand(m)' \in Sources
    <3>1. Holding(m)
      BY <2>1, <2>2 DEF Holding
    <3>2. FrameInHand(m) /\ JumboInHand(m) /\ (pc[m] = "callback" => SourceInHand(m) \in Sources)
      BY <3>1 DEF HandInv
    <3>3. /\ FrameInHand(m)' /\ SourceInHand(m)' = SourceInHand(m)
          /\ JumboInHand(m)' = JumboInHand(m)
      BY <1>1, <3>1, <3>2, EnvironmentKeepsFrame
    <3> QED
      BY <2>1, <3>2, <3>3
  <2> QED
    BY <2>2 DEF HandInv
<1>2. ASSUME NEW l \in Lcores, LcoreStep(l)
      PROVE  HandInv'
  <2>1. ASSUME NEW m \in Lcores, m # l, Holding(m)'
        PROVE  /\ FrameInHand(m)' /\ JumboInHand(m)'
               /\ pc'[m] = "callback" => SourceInHand(m)' \in Sources
    <3>1. pc'[m] = pc[m]
      BY <1>2, <2>1, OtherLcoreStays
    <3>2. Holding(m)
      BY <2>1, <3>1 DEF Holding
    <3>3. FrameInHand(m) /\ JumboInHand(m) /\ (pc[m] = "callback" => SourceInHand(m) \in Sources)
      BY <3>2 DEF HandInv
    <3>4. /\ FrameInHand(m)' /\ SourceInHand(m)' = SourceInHand(m)
          /\ JumboInHand(m)' = JumboInHand(m)
      BY <1>2, <2>1, <3>2, <3>3, OtherLcoreKeepsFrame
    <3> QED
      BY <3>1, <3>3, <3>4
  <2>2. ASSUME Holding(l)'
        PROVE  /\ FrameInHand(l)' /\ JumboInHand(l)'
               /\ pc'[l] = "callback" => SourceInHand(l)' \in Sources
    <3>1. pc \in [Lcores -> Phases]
      BY DEF TypeOK
    <3>2. CASE InsertUnexpected(l)
      <4>1. FrameInHand(l) /\ JumboInHand(l)
        BY <3>2 DEF InsertUnexpected, Holding, HandInv
      <4>2. UNCHANGED <<wire, bufs, ib, qi>> /\ pc'[l] = "count"
        BY <3>1, <3>2 DEF InsertUnexpected, nicVars
      <4>3. FrameInHand(l)'
        BY <4>1, <4>2, Zenon DEF FrameInHand
      <4>4. JumboInHand(l)'
        BY <4>1, <4>2, Zenon DEF JumboInHand
      <4> QED
        BY <4>2, <4>3, <4>4
    <3>3. ASSUME NEW q \in Queues, NEW n \in 1..Len(wire[q]),
                 FindUnexpected(l, q, n) \/ CallCallback(l, q, n)
          PROVE  /\ FrameInHand(l)' /\ JumboInHand(l)'
                 /\ pc'[l] = "callback" => SourceInHand(l)' \in Sources
      <4>1. /\ q = QueuesOf[l][qi[l]] /\ ib[q] < Len(bufs[q]) /\ n = bufs[q][ib[q] + 1]
            /\ wire[q][n].jumbo
        BY <3>3, Zenon DEF FindUnexpected, CallCallback, AtFrame, InHand
      <4>2. UNCHANGED <<wire, bufs, ib, qi>>
        BY <3>3 DEF FindUnexpected, CallCallback, nicVars
      <4>3. pc'[l] = "callback" => SourceOfFrame(q, n) \in Sources
        <5>1. CASE FindUnexpected(l, q, n)
          <6>1. pc'[l] \in {"count", "insert"}
            BY <3>1, <5>1 DEF FindUnexpected
          <6> QED
            BY <6>1
        <5>2. CASE CallCallback(l, q, n)
          BY <5>2, CallbackSourcesType DEF CallCallback
        <5> QED
          BY <3>3, <5>1, <5>2
      <4>4. QueuesOf[l][qi'[l]] = q /\ bufs'[q][ib'[q] + 1] = n
        BY <4>1, <4>2, Zenon
      <4>5. SourceInHand(l)' = SourceOfFrame(q, n)
        BY <4>2, <4>4, Zenon DEF SourceInHand, SourceOfFrame
      <4>6. FrameInHand(l)'
        BY <4>1, <4>2, <4>4, Zenon DEF FrameInHand
      <4>7. JumboInHand(l)'
        BY <4>1, <4>2, <4>4, Zenon DEF JumboInHand
      <4> QED
        BY <4>3, <4>5, <4>6, <4>7
    <3>4. CASE StartPass(l) \/ CountUnexpected(l)
      BY <2>2, <3>1, <3>4 DEF StartPass, CountUnexpected, Holding
    <3>5. CASE RxBurst(l) \/ FreeBurst(l)
      <4>1. NextQueue(l, "frames") \/ NextQueue(l, "check")
        BY <3>5, Zenon DEF RxBurst, FreeBurst
      <4>2. pc'[l] \in {"frames", "check", pc[l]}
        BY <4>1, NextQueueMoves
      <4>3. pc[l] \in {"burst", "frames"}
        BY <3>5, Zenon DEF RxBurst, FreeBurst
      <4> QED
        BY <2>2, <4>2, <4>3 DEF Holding
    <3>6. ASSUME NEW q \in Queues, NEW n \in 1..Len(wire[q]),
                 \/ SkipSmallFrame(l, q, n) \/ DiscardFrame(l, q, n)
                 \/ HandlePayload(l, q, n) \/ CallbackReturns(l, q, n)
          PROVE  FALSE
      <4>1. pc'[l] = "frames"
        BY <3>1, <3>6 DEF SkipSmallFrame, DiscardFrame, HandlePayload, CallbackReturns, AtFrame
      <4> QED
        BY <2>2, <4>1 DEF Holding
    <3> QED
      BY <1>2, <3>2, <3>3, <3>4, <3>5, <3>6 DEF LcoreStep, RunnerStep
  <2> QED
    BY <2>1, <2>2 DEF HandInv
<1> QED
  BY <1>1, <1>2 DEF Next

(* A step that counts nothing and finds nothing.                           *)
LEMMA CountsUnmoved ==
  ASSUME RecordedInv, UNCHANGED <<unexid, unexSeen, tree>>,
         \A m \in Lcores :
           /\ Finding(m)' <=> Finding(m)
           /\ Finding(m) => pc'[m] = pc[m] /\ SourceInHand(m)' = SourceInHand(m)
  PROVE  RecordedInv'
<1> SUFFICES ASSUME tree = "sound"
             PROVE  FoundInv' /\ CountedInv'
  BY DEF RecordedInv
<1>1. FoundInv'
  BY DEF RecordedInv, FoundInv, Finding
<1>2. ASSUME NEW s \in SourceIds
      PROVE  Pending(s)' = Pending(s) /\ CountOf(s)' = CountOf(s)
  BY DEF Pending, CountOf
<1>3. CountedInv'
  BY <1>2 DEF RecordedInv, CountedInv
<1> QED
  BY <1>1, <1>3

(* What another lcore has found stays what it is.                          *)
LEMMA OtherLcoreFinds ==
  ASSUME TypeOK, HandInv, NEW l \in Lcores, LcoreStep(l), NEW m \in Lcores, m # l
  PROVE  /\ pc'[m] = pc[m]
         /\ Finding(m)' <=> Finding(m)
         /\ Finding(m) => SourceInHand(m)' = SourceInHand(m)
<1>1. pc'[m] = pc[m]
  BY OtherLcoreStays
<1>2. Finding(m) => Holding(m) /\ FrameInHand(m)
  BY DEF Finding, Holding, HandInv
<1> QED
  BY <1>1, <1>2, OtherLcoreKeepsFrame DEF Finding

(* The frame an lcore finds unexpected is pending, and seen.               *)
LEMMA FindUnexpectedCounts ==
  ASSUME UnexpectedInv, NEW l \in Lcores, NEW q \in Queues,
         NEW n \in 1..Len(wire[q]), FindUnexpected(l, q, n), LcoreStep(l)
  PROVE  RecordedInv'
<1> SUFFICES ASSUME tree' = "sound"
             PROVE  FoundInv' /\ CountedInv'
  BY DEF RecordedInv
<1>a. AccessMap(l, {"insert"}, unexid)
  BY DEF FindUnexpected
<1>b. tree = "sound" /\ unexid' = unexid
  BY <1>a, SoundAccess
<1>c. TypeOK /\ HandInv /\ FoundInv /\ CountedInv
  BY <1>b DEF UnexpectedInv, RecordedInv
<1>0. PICK s \in SourceIds : s = SourceOfFrame(q, n)
  BY <1>c, QueueAtType, SourceOfType DEF SourceOfFrame
<1>1. /\ AtFrame(l, q, n) /\ s \in SourceIds
      /\ pc[l] = "frames" /\ pc' = [pc EXCEPT ![l] = IF s \in DOMAIN unexid THEN "count" ELSE "insert"]
      /\ unexSeen' = [unexSeen EXCEPT ![s] = @ + 1]
      /\ UNCHANGED <<wire, bufs, qi, ib, unexid>>
  BY <1>b, <1>0, Zenon DEF FindUnexpected, AtFrame, InHand, nicVars
<1>2. /\ q = QueuesOf[l][qi[l]] /\ ib[q] < Len(bufs[q]) /\ n = bufs[q][ib[q] + 1]
  BY <1>1 DEF AtFrame, InHand
<1>3. pc \in [Lcores -> Phases]
      /\ unexSeen \in [SourceIds -> Nat] /\ \A t \in DOMAIN unexid : unexid[t] \in Nat
  BY <1>c, Zenon DEF TypeOK
<1>4. SourceInHand(l)' = s
  <2>1. QueuesOf[l][qi'[l]] = q /\ bufs'[q][ib'[q] + 1] = n
    BY <1>1, <1>2, Zenon
  <2>2. wire' = wire
    BY <1>1
  <2> QED
    BY <1>0, <2>1, <2>2 DEF SourceInHand, SourceOfFrame
<1>5. ~Finding(l) /\ Finding(l)'
  BY <1>1, <1>3 DEF Finding
<1>6. ASSUME NEW m \in Lcores, m # l
      PROVE  /\ pc'[m] = pc[m]
             /\ Finding(m)' <=> Finding(m)
             /\ Finding(m) => SourceInHand(m)' = SourceInHand(m)
  BY <1>c, <1>6, OtherLcoreFinds
<1>7. FoundInv'
  <2>1. pc'[l] = "count" => s \in DOMAIN unexid
    BY <1>1, <1>3
  <2> QED
    BY <2>1, <1>c, <1>1, <1>4, <1>6 DEF FoundInv, Finding
<1>8. Pending(s)' = Pending(s) \cup {l} /\ l \notin Pending(s)
  BY <1>4, <1>5, <1>6 DEF Pending
<1>9. ASSUME NEW t \in SourceIds, t # s
      PROVE  Pending(t)' = Pending(t)
  BY <1>4, <1>5, <1>6, <1>9 DEF Pending
<1>10. ASSUME NEW t \in SourceIds
       PROVE  CountOf(t)' = CountOf(t) /\ CountOf(t) \in Nat
  BY <1>1, <1>3 DEF CountOf
<1>11. CountedInv'
  <2>1. ASSUME NEW t \in SourceIds
        PROVE  /\ CountOf(t)' + Cardinality(Pending(t)') <= unexSeen'[t]
               /\ unexSeen'[t] > 0 => CountOf(t)' > 0 \/ Pending(t)' # {}
    <3>1. /\ CountOf(t) + Cardinality(Pending(t)) <= unexSeen[t]
          /\ unexSeen[t] > 0 => CountOf(t) > 0 \/ Pending(t) # {}
      BY <1>c DEF CountedInv
    <3>2. CASE t = s
      <4>1. Pending(t)' = Pending(t) \cup {l} /\ l \notin Pending(t)
        BY <1>8, <3>2
      <4>2. Cardinality(Pending(t)') = Cardinality(Pending(t)) + 1
        BY <4>1, PendingFinite, FS_AddElement
      <4>3. unexSeen'[t] = unexSeen[t] + 1 /\ unexSeen[t] \in Nat
        BY <1>1, <1>3, <3>2
      <4>4. Cardinality(Pending(t)) \in Nat /\ Pending(t)' # {}
        BY <4>1, PendingFinite
      <4>5. CountOf(t)' = CountOf(t) /\ CountOf(t) \in Nat
        BY <1>10
      <4>6. CountOf(t)' + Cardinality(Pending(t)') <= unexSeen'[t]
        BY <3>1, <4>2, <4>3, <4>4, <4>5
      <4> QED
        BY <4>4, <4>6
    <3>3. CASE t # s
      <4>1. unexSeen'[t] = unexSeen[t]
        BY <1>1, <1>3, <3>3
      <4> QED
        BY <1>9, <1>10, <3>1, <3>3, <4>1
    <3> QED
      BY <3>2, <3>3
  <2> QED
    BY <2>1 DEF CountedInv
<1> QED
  BY <1>7, <1>11

(* Inserting an id, its count set back to 0, leaves the lcore pending.     *)
LEMMA InsertUnexpectedCounts ==
  ASSUME UnexpectedInv, NEW l \in Lcores, InsertUnexpected(l)
  PROVE  RecordedInv'
<1> SUFFICES ASSUME tree' = "sound"
             PROVE  FoundInv' /\ CountedInv'
  BY DEF RecordedInv
<1> DEFINE s == SourceInHand(l)
<1>a. AccessMap(l, {"insert", "count"}, WithCount(s, 0))
  BY DEF InsertUnexpected
<1>b. tree = "sound" /\ unexid' = WithCount(s, 0)
  BY <1>a, SoundAccess
<1>c. TypeOK /\ HandInv /\ FoundInv /\ CountedInv
  BY <1>b DEF UnexpectedInv, RecordedInv
<1>1. /\ pc[l] = "insert" /\ pc' = [pc EXCEPT ![l] = "count"]
      /\ unexid' = [t \in DOMAIN unexid \cup {s} |-> IF t = s THEN 0 ELSE unexid[t]]
      /\ UNCHANGED <<wire, bufs, qi, ib, unexSeen>>
  BY <1>b DEF InsertUnexpected, WithCount, nicVars
<1>2. /\ pc \in [Lcores -> Phases]
      /\ unexSeen \in [SourceIds -> Nat] /\ \A t \in DOMAIN unexid : unexid[t] \in Nat
  BY <1>c DEF TypeOK
<1>3. ASSUME NEW m \in Lcores
      PROVE  /\ Finding(m)' <=> Finding(m)
             /\ SourceInHand(m)' = SourceInHand(m)
             /\ m # l => pc'[m] = pc[m]
  <2>1. SourceInHand(m)' = SourceInHand(m)
    BY <1>1, Zenon DEF SourceInHand, SourceOfFrame
  <2>2. /\ m # l => pc'[m] = pc[m]
        /\ pc'[l] = "count"
    BY <1>1, <1>2
  <2> QED
    BY <1>1, <2>1, <2>2 DEF Finding
<1>4. Finding(l) /\ s \in SourceIds
  BY <1>c, <1>1, SourceInHandType DEF Finding
<1>5. FoundInv'
  BY <1>c, <1>1, <1>3, <1>4 DEF FoundInv
<1>6. ASSUME NEW t \in SourceIds
      PROVE  /\ Pending(t)' = Pending(t)
             /\ CountOf(t) \in Nat
             /\ CountOf(t)' = IF t = s THEN 0 ELSE CountOf(t)
  <2> HIDE DEF s
  <2> QED
    BY <1>1, <1>2, <1>3 DEF Pending, CountOf
<1>7. l \in Pending(s)
  BY <1>4 DEF Pending
<1>8. ASSUME NEW t \in SourceIds
      PROVE  /\ CountOf(t)' + Cardinality(Pending(t)') <= unexSeen'[t]
             /\ unexSeen'[t] > 0 => CountOf(t)' > 0 \/ Pending(t)' # {}
  <2>1. /\ CountOf(t) + Cardinality(Pending(t)) <= unexSeen[t]
        /\ unexSeen[t] > 0 => CountOf(t) > 0 \/ Pending(t) # {}
        /\ unexSeen'[t] = unexSeen[t] /\ unexSeen[t] \in Nat
    BY <1>c, <1>1, <1>2 DEF CountedInv
  <2>2. Cardinality(Pending(t)) \in Nat
    BY PendingFinite
  <2> HIDE DEF s
  <2> QED
    BY <1>6, <1>7, <2>1, <2>2
<1> QED
  BY <1>5, <1>8 DEF CountedInv

(* An increment takes the lcore away from the pending ones.                *)
LEMMA CountUnexpectedCounts ==
  ASSUME UnexpectedInv, NEW l \in Lcores, CountUnexpected(l), LcoreStep(l)
  PROVE  RecordedInv'
<1> SUFFICES ASSUME tree' = "sound"
             PROVE  FoundInv' /\ CountedInv'
  BY DEF RecordedInv
<1>0. PICK s : s = SourceInHand(l)
  OBVIOUS
<1>a. AccessMap(l, {"insert"}, WithCount(s, CountOf(s) + 1))
  BY <1>0 DEF CountUnexpected
<1>b. tree = "sound" /\ unexid' = WithCount(s, CountOf(s) + 1)
  BY <1>a, SoundAccess
<1>c. TypeOK /\ HandInv /\ FoundInv /\ CountedInv
  BY <1>b DEF UnexpectedInv, RecordedInv
<1>1. /\ pc[l] = "count" /\ pc' = [pc EXCEPT ![l] = "frames"]
      /\ unexSeen' = unexSeen
  BY DEF CountUnexpected
<1>2. /\ pc \in [Lcores -> Phases]
      /\ unexSeen \in [SourceIds -> Nat] /\ \A t \in DOMAIN unexid : unexid[t] \in Nat
  BY <1>c DEF TypeOK
<1>3. Finding(l) /\ ~Finding(l)' /\ s \in SourceIds /\ s \in DOMAIN unexid
  <2>1. s \in SourceIds /\ s \in DOMAIN unexid
    BY <1>c, <1>0, <1>1, SourceInHandType DEF FoundInv
  <2> QED
    BY <2>1, <1>1, <1>2 DEF Finding
<1>4. ASSUME NEW m \in Lcores, m # l
      PROVE  /\ pc'[m] = pc[m]
             /\ Finding(m)' <=> Finding(m)
             /\ Finding(m) => SourceInHand(m)' = SourceInHand(m)
  BY <1>c, <1>4, OtherLcoreFinds
<1>5. DOMAIN unexid' = DOMAIN unexid
  BY <1>b, <1>3 DEF WithCount
<1>6. FoundInv'
  BY <1>c, <1>3, <1>4, <1>5 DEF FoundInv, Finding
<1>7. Pending(s)' = Pending(s) \ {l} /\ l \in Pending(s)
  BY <1>0, <1>3, <1>4 DEF Pending
<1>8. ASSUME NEW t \in SourceIds, t # s
      PROVE  Pending(t)' = Pending(t)
  BY <1>0, <1>3, <1>4, <1>8 DEF Pending
<1>9. ASSUME NEW t \in SourceIds
      PROVE  /\ CountOf(t) \in Nat
             /\ CountOf(t)' = IF t = s THEN CountOf(t) + 1 ELSE CountOf(t)
  <2>1. unexid' = [u \in DOMAIN unexid \cup {s} |-> IF u = s THEN CountOf(s) + 1 ELSE unexid[u]]
    BY <1>b DEF WithCount
  <2>2. CountOf(t) \in Nat
    BY <1>c, CountOfType
  <2> QED
    BY <2>1, <2>2, <1>3, <1>5 DEF CountOf
<1>10. ASSUME NEW t \in SourceIds
       PROVE  /\ CountOf(t)' + Cardinality(Pending(t)') <= unexSeen'[t]
              /\ unexSeen'[t] > 0 => CountOf(t)' > 0 \/ Pending(t)' # {}
  <2>1. /\ CountOf(t) + Cardinality(Pending(t)) <= unexSeen[t]
        /\ unexSeen[t] > 0 => CountOf(t) > 0 \/ Pending(t) # {}
        /\ unexSeen'[t] = unexSeen[t] /\ unexSeen[t] \in Nat
    BY <1>c, <1>1, <1>2 DEF CountedInv
  <2>2. Cardinality(Pending(t)) \in Nat
    BY PendingFinite
  <2>3. Cardinality(Pending(s)') = Cardinality(Pending(s)) - 1
    BY <1>7, PendingFinite, FS_RemoveElement
  <2>4. CASE t = s
    BY <1>9, <2>1, <2>2, <2>3, <2>4
  <2>5. CASE t # s
    BY <1>8, <1>9, <2>1, <2>2, <2>5
  <2> QED
    BY <2>4, <2>5
<1> QED
  BY <1>6, <1>10 DEF CountedInv

(* Every step keeps the counts of the unexpected ids right.                *)
LEMMA UnexpectedStep == UnexpectedInv /\ [Next]_vars => UnexpectedInv'
<1> SUFFICES ASSUME UnexpectedInv, [Next]_vars
             PROVE  UnexpectedInv'
  OBVIOUS
<1>1. TypeOK /\ TypeOK' /\ HandInv /\ HandInv' /\ RecordedInv
  BY TypeStep, HandStep DEF UnexpectedInv
<1>2. SUFFICES RecordedInv'
  BY <1>1 DEF UnexpectedInv
<1>3. CASE Environment \/ UNCHANGED vars
  <2>1. pc' = pc /\ UNCHANGED <<unexid, unexSeen, tree>>
    BY <1>3 DEF Environment, Arrive, ToggleFlow, RaiseQuit, ReadSink, statVars, vars
  <2>2. \A m \in Lcores : Finding(m) => Holding(m) /\ FrameInHand(m)
    BY <1>1 DEF HandInv, Finding, Holding
  <2>3. \A m \in Lcores : Finding(m) => SourceInHand(m)' = SourceInHand(m)
    BY <1>1, <1>3, <2>2, EnvironmentKeepsFrame
  <2>4. \A m \in Lcores : Finding(m)' <=> Finding(m)
    BY <2>1 DEF Finding
  <2> QED
    BY <1>1, <2>1, <2>3, <2>4, CountsUnmoved
<1>4. ASSUME NEW l \in Lcores, LcoreStep(l)
      PROVE  RecordedInv'
  <2>1. CASE InsertUnexpected(l)
    BY <2>1, InsertUnexpectedCounts
  <2>2. CASE CountUnexpected(l)
    BY <1>4, <2>2, CountUnexpectedCounts
  <2>3. CASE \E q \in Queues : \E n \in 1..Len(wire[q]) : FindUnexpected(l, q, n)
    BY <1>4, <2>3, FindUnexpectedCounts
  <2>4. ASSUME pc[l] \notin {"insert", "count"}, pc'[l] \notin {"insert", "count"},
               UNCHANGED <<unexid, unexSeen, tree>>
        PROVE  RecordedInv'
    <3>1. ~Finding(l) /\ ~Finding(l)'
      BY <2>4 DEF Finding
    <3>2. ASSUME NEW m \in Lcores, m # l
          PROVE  /\ Finding(m)' <=> Finding(m)
                 /\ Finding(m) => pc'[m] = pc[m] /\ SourceInHand(m)' = SourceInHand(m)
      BY <1>1, <1>4, <3>2, OtherLcoreFinds
    <3> QED
      BY <1>1, <2>4, <3>1, <3>2, CountsUnmoved
  <2>5. pc \in [Lcores -> Phases]
    BY <1>1 DEF TypeOK
  <2>6. CASE StartPass(l)
    BY <2>4, <2>5, <2>6 DEF StartPass, statVars
  <2>7. CASE RxBurst(l) \/ FreeBurst(l)
    <3>1. NextQueue(l, "frames") \/ NextQueue(l, "check")
      BY <2>7 DEF RxBurst, FreeBurst
    <3>2. pc'[l] \in {"frames", "check", pc[l]}
      BY <1>1, <3>1, NextQueueMoves
    <3>3. pc[l] \in {"burst", "frames"} /\ UNCHANGED <<unexid, unexSeen, tree>>
      BY <2>7 DEF RxBurst, FreeBurst, statVars
    <3> QED
      BY <2>4, <3>2, <3>3
  <2>8. ASSUME NEW q \in Queues, NEW n \in 1..Len(wire[q]),
               \/ SkipSmallFrame(l, q, n) \/ DiscardFrame(l, q, n) \/ HandlePayload(l, q, n)
               \/ CallCallback(l, q, n) \/ CallbackReturns(l, q, n)
        PROVE  RecordedInv'
    <3>1. pc[l] \in {"frames", "callback"} /\ pc'[l] \in {"frames", "callback"}
      BY <2>5, <2>8 DEF SkipSmallFrame, DiscardFrame, HandlePayload, CallCallback,
         CallbackReturns, AtFrame
    <3>2. UNCHANGED <<unexid, unexSeen, tree>>
      BY <2>8, Zenon DEF SkipSmallFrame, DiscardFrame, HandlePayload, CallCallback,
         CallbackReturns, statVars
    <3> QED
      BY <2>4, <3>1, <3>2
  <2> QED
    BY <1>4, <2>1, <2>2, <2>3, <2>6, <2>7, <2>8 DEF LcoreStep, RunnerStep
<1> QED
  BY <1>3, <1>4 DEF Next

LEMMA UnexpectedInvHolds == Spec => []UnexpectedInv
<1>1. Init => UnexpectedInv
  <2> SUFFICES ASSUME Init
               PROVE  UnexpectedInv
    OBVIOUS
  <2>1. TypeOK
    BY InitMbufInv DEF MbufInv
  <2>2. \A l \in Lcores : ~Finding(l) /\ ~Holding(l)
    BY DEF Init, Finding, Holding
  <2>3. \A s : Pending(s) = {} /\ Cardinality({}) = 0
    BY <2>2, FS_EmptySet DEF Pending
  <2>4. \A s \in SourceIds : CountOf(s) = 0 /\ unexSeen[s] = 0
    BY DEF Init, CountOf
  <2>5. CountedInv
    BY <2>3, <2>4 DEF CountedInv
  <2>6. FoundInv
    BY <2>2 DEF Finding, FoundInv
  <2> QED
    BY <2>1, <2>2, <2>5, <2>6 DEF UnexpectedInv, HandInv, RecordedInv
<1> QED
  BY <1>1, UnexpectedStep, PTL DEF Spec

(***************************************************************************)
(* However many lcores update m_num_unexid_frames between one another's    *)
(* steps, and until an access is damaged by an insertion it overlaps: no   *)
(* id is counted more often than its frames were found, and one found is   *)
(* recorded as soon as no lcore is between the test and the increment.     *)
(***************************************************************************)
THEOREM UnexpectedIdsRecorded == Spec => []UnexpectedIdRecorded
<1>2. UnexpectedInv => UnexpectedIdRecorded
  <2> SUFFICES ASSUME UnexpectedInv, tree = "sound", NEW s \in SourceIds
               PROVE  /\ s \in DOMAIN unexid => unexid[s] <= unexSeen[s]
                      /\ unexSeen[s] > 0 /\ (\A l \in Lcores : pc[l] \notin {"insert", "count"})
                           => s \in DOMAIN unexid /\ unexid[s] > 0
    BY DEF UnexpectedIdRecorded
  <2>1. /\ CountOf(s) + Cardinality(Pending(s)) <= unexSeen[s]
        /\ unexSeen[s] > 0 => CountOf(s) > 0 \/ Pending(s) # {}
        /\ unexSeen[s] \in Nat /\ Cardinality(Pending(s)) \in Nat
    BY PendingFinite DEF UnexpectedInv, RecordedInv, CountedInv, TypeOK
  <2>2. s \in DOMAIN unexid => unexid[s] \in Nat /\ CountOf(s) = unexid[s]
    BY DEF CountOf, UnexpectedInv, TypeOK
  <2>3. (\A l \in Lcores : pc[l] \notin {"insert", "count"}) => Pending(s) = {}
    BY DEF Pending, Finding
  <2>4. s \notin DOMAIN unexid => CountOf(s) = 0
    BY DEF CountOf
  <2> QED
    BY <2>1, <2>2, <2>3, <2>4
<1> QED
  BY <1>2, UnexpectedInvHolds, PTL

(***************************************************************************)
(* The receive path implements FrameDelivery, for any queues, lcores, ring *)
(* and burst sizes and whatever the sinks do: each queue is delivered in   *)
(* order and without duplicates, jumbo frames only, and each frame to the  *)
(* source of its stream.  It needs that no source has id 0.                *)
(***************************************************************************)
THEOREM ImplementsFrameDelivery ==
  ASSUME 0 \notin Sources
  PROVE  Spec => DeliversInOrder
<1>1. Init => Promise!Init
  BY DEF Init, Promise!Init, Nothing, Promise!Nothing
<1>2. TypeOK /\ OrderInv /\ HandInv /\ [Next]_vars => [Promise!Next]_<<wire, handed>>
  <2> SUFFICES ASSUME TypeOK, OrderInv, HandInv, [Next]_vars
               PROVE  [Promise!Next]_<<wire, handed>>
    OBVIOUS
  <2>1. ASSUME NEW l \in Lcores, NEW q \in Queues, NEW n \in 1..Len(wire[q]),
               HandlePayload(l, q, n) \/ CallbackReturns(l, q, n)
        PROVE  Promise!HandOver(q, n)
    <3>1. handed[q].n < n
      BY <2>1, HandedOverOrder
    <3>2. /\ handed' = [handed EXCEPT ![q] = [n |-> n, to |-> SourceOfFrame(q, n)]]
          /\ wire' = wire
      BY <2>1 DEF HandlePayload, CallbackReturns, nicVars
    <3>3. wire[q][n].jumbo /\ SourceOfFrame(q, n) \in Sources
      <4>1. CASE HandlePayload(l, q, n)
        BY <4>1, Zenon DEF HandlePayload
      <4>2. CASE CallbackReturns(l, q, n)
        <5>1. pc[l] = "callback" /\ q = QueuesOf[l][qi[l]] /\ n = bufs[q][ib[q] + 1]
          BY <4>2, Zenon DEF CallbackReturns, InHand
        <5>2. JumboInHand(l) /\ SourceInHand(l) \in Sources
          BY <5>1 DEF HandInv, Holding
        <5> QED
          BY <5>1, <5>2, Zenon DEF JumboInHand, SourceInHand
      <4> QED
        BY <2>1, <4>1, <4>2
    <3>4. /\ wire[q][n].stream \in DOMAIN StreamMap[q]
          /\ SourceOfFrame(q, n) = StreamMap[q][wire[q][n].stream]
      BY <3>3 DEF SourceOfFrame, SourceOf
    <3> QED
      BY <3>1, <3>2, <3>3, <3>4 DEF Promise!HandOver
  <2>2. ASSUME NEW q \in Queues, NEW f \in Frame, Arrive(q, f)
        PROVE  Promise!Arrive(q, f)
    BY <2>2 DEF Arrive, Promise!Arrive, sinkVars
  <2>3. ASSUME NEW l \in Lcores, LcoreStep(l)
        PROVE  \/ UNCHANGED <<wire, handed>>
               \/ \E q \in Queues : \E n \in 1..Len(wire[q]) :
                    HandlePayload(l, q, n) \/ CallbackReturns(l, q, n)
    BY <2>3, Zenon DEF LcoreStep, RunnerStep, StartPass, RxBurst, InsertUnexpected, CountUnexpected,
       FreeBurst, SkipSmallFrame, DiscardFrame, CallCallback, FindUnexpected, nicVars, sinkVars
  <2>4. CASE Environment
    <3>1. CASE ToggleFlow \/ RaiseQuit \/ \E s \in Sources : ReadSink(s)
      BY <3>1 DEF ToggleFlow, RaiseQuit, ReadSink, nicVars, sinkVars
    <3>2. QED
      BY <2>2, <2>4, <3>1, ArrivingFrames DEF Environment, Promise!Next, Frame, Promise!Frame
  <2>5. CASE UNCHANGED vars
    BY <2>5 DEF vars
  <2>6. QED
    BY <2>1, <2>3, <2>4, <2>5 DEF Next, Promise!Next
<1>3. UnexpectedInv => HandInv
  BY DEF UnexpectedInv
<1>4. QED
  BY <1>1, <1>2, OrderInvHolds, UnexpectedInvHolds, <1>3, PTL DEF Spec, DeliversInOrder, Promise!Spec

-----------------------------------------------------------------------------
(* The frames of a queue that were processed.  A frame that is not lost is *)
(* in the ring, or ahead in the burst, until it is; and one in the burst   *)
(* is not processed before the lcore gets to it.                           *)
InQueue(q, n) ==
  \/ \E k \in 1..Len(ring[q]) : ring[q][k] = n
  \/ \E k \in (ib[q] + 1)..Len(bufs[q]) : bufs[q][k] = n

LostOf(q) == \A n \in lost[q] : n <= Len(wire[q]) /\ ~InQueue(q, n)

Away(q, n) == n \in lost[q] \/ InQueue(q, n)

JumboProcessed(q) == {n \in Processed(q) : wire[q][n].jumbo}

LaneInv(q) ==
  /\ ib[q] <= Len(bufs[q])
  /\ LostOf(q)
  /\ numFrames[q] = Cardinality(JumboProcessed(q))

CountInv == \A q \in Queues : LaneInv(q)

(* Processed frames are those that arrived and are neither lost nor ahead. *)
LEMMA ProcessedAre ==
  ASSUME TypeOK, NEW q \in Queues
  PROVE  JumboProcessed(q) = {n \in 1..Len(wire[q]) : ~Away(q, n) /\ wire[q][n].jumbo}
<1>1. DOMAIN ring[q] = 1..Len(ring[q])
  <2>1. ring[q] \in Seq(Nat)
    BY DEF TypeOK
  <2> QED
    BY <2>1
<1> QED
  BY <1>1 DEF JumboProcessed, Processed, Elements, Away, InQueue

LEMMA ProcessedAreNext ==
  ASSUME TypeOK', NEW q \in Queues
  PROVE  JumboProcessed(q)' = {n \in 1..Len(wire'[q]) : ~Away(q, n)' /\ wire'[q][n].jumbo}
<1>1. DOMAIN ring'[q] = 1..Len(ring'[q])
  <2>1. ring'[q] \in Seq(Nat)
    BY DEF TypeOK
  <2> QED
    BY <2>1
<1> QED
  BY <1>1 DEF JumboProcessed, Processed, Elements, Away, InQueue

(* There are finitely many of them.                                        *)
LEMMA ProcessedFinite ==
  ASSUME TypeOK, NEW q \in Queues
  PROVE  IsFiniteSet(JumboProcessed(q)) /\ Cardinality(JumboProcessed(q)) \in Nat
<1>1. Len(wire[q]) \in Nat
  BY QueueTypes
<1>2. IsFiniteSet(1..Len(wire[q]))
  BY <1>1, FS_Interval
<1>3. JumboProcessed(q) \in SUBSET (1..Len(wire[q]))
  BY DEF JumboProcessed, Processed
<1> QED
  BY <1>2, <1>3, FS_Subset, FS_CardinalityType

(* A queue a step does not touch keeps its count.                          *)
LEMMA SameLane ==
  ASSUME NEW q \in Queues, LaneInv(q), wire'[q] = wire[q], lost'[q] = lost[q],
         ring'[q] = ring[q], bufs'[q] = bufs[q], ib'[q] = ib[q], numFrames'[q] = numFrames[q]
  PROVE  LaneInv(q)'
  BY DEF LaneInv, LostOf, InQueue, JumboProcessed, Processed, Elements

(* Frames may arrive, and go from the ring to the burst: none of this      *)
(* processes a frame.                                                      *)
LEMMA LaneMoved ==
  ASSUME TypeOK, TypeOK', NEW q \in Queues, LaneInv(q),
         numFrames'[q] = numFrames[q],
         Len(wire'[q]) >= Len(wire[q]),
         \A n \in 1..Len(wire[q]) : wire'[q][n] = wire[q][n] /\ (Away(q, n)' <=> Away(q, n)),
         \A n \in 1..Len(wire'[q]) : n > Len(wire[q]) => Away(q, n)'
  PROVE  numFrames'[q] = Cardinality(JumboProcessed(q)')
<1>1. /\ JumboProcessed(q) = {n \in 1..Len(wire[q]) : ~Away(q, n) /\ wire[q][n].jumbo}
      /\ JumboProcessed(q)' = {n \in 1..Len(wire'[q]) : ~Away(q, n)' /\ wire'[q][n].jumbo}
  BY ProcessedAre, ProcessedAreNext
<1>2. Len(wire[q]) \in Nat /\ Len(wire'[q]) \in Nat
  BY DEF TypeOK
<1>3. JumboProcessed(q)' = JumboProcessed(q)
  BY <1>1, <1>2
<1> QED
  BY <1>3 DEF LaneInv

(* The frame the lcore is at is processed next, and has not been before.   *)
LEMMA LaneProcessed ==
  ASSUME TypeOK, TypeOK', NEW q \in Queues, OrderOf(q), LaneInv(q),
         ib[q] < Len(bufs[q]), NEW n \in 1..Len(wire[q]), n = bufs[q][ib[q] + 1],
         ib'[q] = ib[q] + 1, wire'[q] = wire[q], lost'[q] = lost[q], ring'[q] = ring[q],
         bufs'[q] = bufs[q],
         numFrames'[q] = IF wire[q][n].jumbo THEN numFrames[q] + 1 ELSE numFrames[q]
  PROVE  LaneInv(q)'
<1>1. /\ Len(wire[q]) \in Nat /\ Len(bufs[q]) \in Nat /\ Len(ring[q]) \in Nat /\ ib[q] \in Nat
      /\ \A k \in 1..Len(bufs[q]) : bufs[q][k] \in Nat
      /\ \A k \in 1..Len(ring[q]) : ring[q][k] \in Nat
  BY QueueTypes
<1>2. ib[q] + 1 \in 1..Len(bufs[q])
  BY <1>1
<1>3. InQueue(q, n)
  BY <1>1, <1>2 DEF InQueue
<1>4. ~InQueue(q, n)'
  <2>1. \A k \in 1..Len(ring[q]) : ring[q][k] # n
    BY <1>1, <1>2 DEF OrderOf
  <2>2. ASSUME NEW k \in (ib[q] + 2)..Len(bufs[q])
        PROVE  bufs[q][k] # n
    <3>1. k \in 1..Len(bufs[q]) /\ ib[q] + 1 < k
      BY <1>1
    <3> QED
      BY <1>1, <1>2, <3>1 DEF OrderOf, Ascending
  <2>3. ib[q] + 1 + 1 = ib[q] + 2
    BY <1>1
  <2> QED
    BY <2>1, <2>2, <2>3 DEF InQueue
<1>5. ASSUME NEW m, m # n
      PROVE  InQueue(q, m)' <=> InQueue(q, m)
  <2>1. \A k : k \in (ib[q] + 1)..Len(bufs[q]) <=> k = ib[q] + 1 \/ k \in (ib[q] + 2)..Len(bufs[q])
    BY <1>1
  <2>2. ib[q] + 1 + 1 = ib[q] + 2
    BY <1>1
  <2> QED
    BY <1>5, <2>1, <2>2 DEF InQueue
<1>6. n \notin lost[q]
  BY <1>3 DEF LaneInv, LostOf
<1>7. LostOf(q)'
  BY <1>5, <1>6 DEF LaneInv, LostOf
<1>8. JumboProcessed(q)' = JumboProcessed(q) \cup (IF wire[q][n].jumbo THEN {n} ELSE {})
  <2>2. /\ JumboProcessed(q) = {m \in 1..Len(wire[q]) : ~Away(q, m) /\ wire[q][m].jumbo}
        /\ JumboProcessed(q)' = {m \in 1..Len(wire[q]) : ~Away(q, m)' /\ wire[q][m].jumbo}
    BY ProcessedAre, ProcessedAreNext
  <2>3. Away(q, n) /\ ~Away(q, n)'
    BY <1>3, <1>4, <1>6 DEF Away
  <2>4. \A m : m # n => (Away(q, m)' <=> Away(q, m))
    BY <1>5 DEF Away
  <2>5. CASE wire[q][n].jumbo
    BY <2>2, <2>3, <2>4, <2>5
  <2>6. CASE ~wire[q][n].jumbo
    BY <2>2, <2>3, <2>4, <2>6
  <2> QED
    BY <2>5, <2>6
<1>9. n \notin JumboProcessed(q)
  BY <1>3, ProcessedAre DEF Away
<1>10. numFrames'[q] = Cardinality(JumboProcessed(q)')
  <2>1. numFrames[q] = Cardinality(JumboProcessed(q)) /\ IsFiniteSet(JumboProcessed(q))
    BY ProcessedFinite DEF LaneInv
  <2>2. CASE wire[q][n].jumbo
    <3>1. Cardinality(JumboProcessed(q) \cup {n}) = Cardinality(JumboProcessed(q)) + 1
      BY <1>9, <2>1, FS_AddElement
    <3> QED
      BY <1>8, <2>1, <2>2, <3>1
  <2>3. CASE ~wire[q][n].jumbo
    BY <1>8, <2>1, <2>3
  <2> QED
    BY <2>2, <2>3
<1>11. ib'[q] <= Len(bufs'[q])
  BY <1>1
<1> QED
  BY <1>7, <1>10, <1>11 DEF LaneInv

(* The queues an lcore is not at stay as they are.                         *)
LEMMA OtherLanes ==
  ASSUME TypeOK, CountInv, NEW l \in Lcores, LcoreStep(l), NEW p \in Queues,
         p # QueuesOf[l][qi[l]]
  PROVE  LaneInv(p)'
<1> DEFINE q == QueuesOf[l][qi[l]]
<1>1. q \in Queues
  BY QueueAtType
<1>2. /\ ring \in [Queues -> Seq(Nat)] /\ bufs \in [Queues -> Seq(Nat)]
      /\ ib \in [Queues -> Nat] /\ numFrames \in [Queues -> Nat]
  BY DEF TypeOK
<1> HIDE DEF q
<1>3. wire' = wire /\ lost' = lost
  BY Zenon DEF LcoreStep, RunnerStep, StartPass, RxBurst, InsertUnexpected, CountUnexpected, FreeBurst,
     SkipSmallFrame, DiscardFrame, HandlePayload, CallCallback, CallbackReturns, FindUnexpected, nicVars
<1>4. ring'[p] = ring[p] /\ bufs'[p] = bufs[p] /\ ib'[p] = ib[p] /\ numFrames'[p] = numFrames[p]
  <2>1. CASE StartPass(l) \/ InsertUnexpected(l)
    BY <2>1 DEF StartPass, InsertUnexpected, nicVars, statVars
  <2>2. CASE RxBurst(l)
    <3>1. PICK n \in 0..Len(ring[q]) :
            /\ bufs' = [bufs EXCEPT ![q] = SubSeq(ring[q], 1, n)]
            /\ ring' = [ring EXCEPT ![q] = SubSeq(ring[q], n + 1, Len(ring[q]))]
      BY <2>2, BurstTaken DEF q
    <3>2. ib' = ib /\ numFrames' = numFrames
      BY <2>2 DEF RxBurst, statVars
    <3> QED
      BY <3>1, <3>2, <1>1, <1>2 DEF q
  <2>3. CASE FreeBurst(l)
    <3>1. /\ bufs' = [bufs EXCEPT ![q] = <<>>] /\ ib' = [ib EXCEPT ![q] = 0]
          /\ ring' = ring /\ numFrames' = numFrames
      BY <2>3 DEF FreeBurst, nicVars, statVars, q
    <3> QED
      BY <3>1, <1>1, <1>2 DEF q
  <2>4. CASE CountUnexpected(l)
    <3>1. /\ ib' = [ib EXCEPT ![q] = ib[q] + 1]
          /\ numFrames' = [numFrames EXCEPT ![q] = numFrames[q] + 1]
          /\ ring' = ring /\ bufs' = bufs
      BY <2>4 DEF CountUnexpected, FrameProcessed, nicVars, q
    <3> QED
      BY <3>1, <1>1, <1>2 DEF q
  <2>5. ASSUME NEW r \in Queues, NEW n \in 1..Len(wire[r]),
               SkipSmallFrame(l, r, n) \/ DiscardFrame(l, r, n) \/ HandlePayload(l, r, n)
                 \/ CallCallback(l, r, n) \/ CallbackReturns(l, r, n) \/ FindUnexpected(l, r, n)
        PROVE  ring'[p] = ring[p] /\ bufs'[p] = bufs[p] /\ ib'[p] = ib[p]
                 /\ numFrames'[p] = numFrames[p]
    <3>1. r = q
      BY <2>5 DEF SkipSmallFrame, DiscardFrame, HandlePayload, CallCallback, CallbackReturns, FindUnexpected, AtFrame, InHand, q
    <3>2. /\ ring' = ring /\ bufs' = bufs
          /\ ib' = ib \/ ib' = [ib EXCEPT ![r] = ib[r] + 1]
          /\ numFrames' = numFrames \/ numFrames' = [numFrames EXCEPT ![r] = numFrames[r] + 1]
      BY <2>5, Zenon DEF SkipSmallFrame, DiscardFrame, HandlePayload, CallCallback, CallbackReturns, FindUnexpected,
         FrameProcessed, nicVars, statVars
    <3> QED
      BY <3>1, <3>2, <1>1, <1>2 DEF q
  <2> QED
    BY <2>1, <2>2, <2>3, <2>4, <2>5 DEF LcoreStep, RunnerStep
<1> QED
  BY <1>3, <1>4, SameLane DEF CountInv

(* A frame that arrives is in the ring, or lost.                           *)
LEMMA ArriveLane ==
  ASSUME TypeOK, TypeOK', OrderInv, CountInv, NEW q \in Queues, NEW f \in Frame, Arrive(q, f),
         NEW p \in Queues
  PROVE  LaneInv(p)'
<1>1. CASE p # q
  <2>1. /\ wire'[p] = wire[p] /\ lost'[p] = lost[p] /\ ring'[p] = ring[p]
        /\ bufs'[p] = bufs[p] /\ ib'[p] = ib[p] /\ numFrames'[p] = numFrames[p]
    BY <1>1 DEF Arrive, TypeOK, statVars
  <2> QED
    BY <2>1, SameLane DEF CountInv
<1>2. CASE p = q
  <2> DEFINE len == Len(wire[q])
  <2>1. /\ len \in Nat /\ Len(ring[q]) \in Nat /\ Len(bufs[q]) \in Nat /\ ib[q] \in Nat
        /\ ring[q] \in Seq(Nat) /\ wire[q] \in Seq(Frame)
        /\ \A k \in 1..Len(ring[q]) : ring[q][k] \in Nat /\ ring[q][k] <= len
        /\ \A k \in 1..Len(bufs[q]) : bufs[q][k] \in Nat /\ bufs[q][k] <= len
    BY QueueTypes DEF OrderInv, OrderOf, TypeOK
  <2>2. LaneInv(q) /\ bufs'[q] = bufs[q] /\ ib'[q] = ib[q] /\ numFrames'[q] = numFrames[q]
    BY DEF CountInv, Arrive, statVars
  <2>3. wire'[q] = Append(wire[q], f)
    BY DEF Arrive, TypeOK
  <2>4. Len(wire'[q]) = len + 1 /\ \A n \in 1..len : wire'[q][n] = wire[q][n]
    BY <2>1, <2>3
  <2>5. ASSUME NEW n
        PROVE  InQueue(q, n) => n \in Nat /\ n <= len
    <3>1. \A k \in (ib[q] + 1)..Len(bufs[q]) : k \in 1..Len(bufs[q])
      BY <2>1
    <3> QED
      BY <2>1, <3>1 DEF InQueue
  <2>6. \/ /\ lost'[q] = lost[q]
           /\ \A n : InQueue(q, n)' <=> InQueue(q, n) \/ n = len + 1
        \/ /\ lost'[q] = lost[q] \cup {len + 1}
           /\ \A n : InQueue(q, n)' <=> InQueue(q, n)
    <3>1. CASE Len(ring[q]) < RingSize
      <4> DEFINE longer == Append(ring[q], len + 1)
      <4>1. ring'[q] = longer /\ lost' = lost
        BY <3>1 DEF Arrive, TypeOK
      <4>2. /\ Len(longer) = Len(ring[q]) + 1
            /\ \A k \in 1..Len(ring[q]) : longer[k] = ring[q][k]
            /\ longer[Len(ring[q]) + 1] = len + 1
        BY <2>1
      <4>3. \A k : k \in 1..Len(longer) <=> k \in 1..Len(ring[q]) \/ k = Len(ring[q]) + 1
        BY <2>1, <4>2
      <4> HIDE DEF longer, len
      <4>4. \A n : (\E k \in 1..Len(longer) : longer[k] = n)
                     <=> (\E k \in 1..Len(ring[q]) : ring[q][k] = n) \/ n = len + 1
        BY <4>2, <4>3
      <4> QED
        BY <4>1, <4>4, <2>2 DEF InQueue
    <3>2. CASE ~(Len(ring[q]) < RingSize)
      <4>1. ring' = ring /\ lost'[q] = lost[q] \cup {len + 1}
        BY <3>2 DEF Arrive, TypeOK
      <4> QED
        BY <4>1, <2>2 DEF InQueue
    <3> QED
      BY <3>1, <3>2
  <2>7. \A n \in lost[q] : n \in Nat /\ n <= len /\ ~InQueue(q, n)
    BY <2>2 DEF LaneInv, LostOf, TypeOK
  <2> HIDE DEF len
  <2>8. LostOf(q)'
    <3>1. ASSUME NEW n \in lost'[q]
          PROVE  n <= len + 1 /\ ~InQueue(q, n)'
      BY <2>1, <2>5, <2>6, <2>7
    <3> QED
      BY <2>4, <3>1 DEF LostOf
  <2>9. \A n \in 1..len : Away(q, n)' <=> Away(q, n)
    BY <2>1, <2>6 DEF Away
  <2>10. ASSUME NEW n \in 1..Len(wire'[q]), n > len
         PROVE  Away(q, n)'
    <3>1. n = len + 1
      BY <2>1, <2>4, <2>10
    <3>2. n \in lost'[q] \/ InQueue(q, n)'
      BY <2>6, <3>1
    <3> QED
      BY <3>2 DEF Away
  <2>11. numFrames'[q] = Cardinality(JumboProcessed(q)')
    <3>1. Len(wire'[q]) >= Len(wire[q])
      BY <2>1, <2>4 DEF len
    <3> QED
      BY <2>2, <2>4, <2>9, <2>10, <3>1, LaneMoved DEF len
  <2> QED
    BY <1>2, <2>2, <2>8, <2>11 DEF LaneInv
<1> QED
  BY <1>1, <1>2

(* A frame taken off the ring is in the burst, which was empty.            *)
LEMMA RxBurstLane ==
  ASSUME MbufInv, TypeOK', CountInv, NEW l \in Lcores, RxBurst(l), NEW q \in Queues,
         q = QueuesOf[l][qi[l]]
  PROVE  LaneInv(q)'
<1>1. TypeOK /\ LaneInv(q)
  BY DEF MbufInv, CountInv
<1>2. PICK n \in 0..Len(ring[q]) :
        /\ bufs' = [bufs EXCEPT ![q] = SubSeq(ring[q], 1, n)]
        /\ ring' = [ring EXCEPT ![q] = SubSeq(ring[q], n + 1, Len(ring[q]))]
  BY <1>1, BurstTaken
<1>3. bufs[q] = <<>>
  <2>1. qi[l] \in 1..Len(QueuesOf[l]) /\ qi[l] \in Nat
    BY <1>1, QueueIndex
  <2>2. pc[l] = "burst"
    BY DEF RxBurst
  <2>3. ~MayHold(l, qi[l])
    BY <2>1, <2>2 DEF MayHold
  <2> QED
    BY <2>1, <2>3 DEF MbufInv, BurstInv
<1>4. ib[q] = 0 /\ Len(bufs[q]) = 0
  <2>1. Len(bufs[q]) = 0
    BY <1>3
  <2>2. ib[q] \in Nat /\ ib[q] <= Len(bufs[q])
    BY <1>1 DEF TypeOK, LaneInv
  <2> QED
    BY <2>1, <2>2
<1>5. /\ wire' = wire /\ lost' = lost /\ ib' = ib /\ numFrames' = numFrames
  BY DEF RxBurst, statVars
<1> DEFINE all == ring[q]
           front == SubSeq(all, 1, n)
           back == SubSeq(all, n + 1, Len(all))
<1>6. all \in Seq(Nat) /\ Len(all) \in Nat /\ n \in 0..Len(all) /\ Len(wire[q]) \in Nat
  BY <1>1, QueueTypes
<1>7. bufs'[q] = front /\ ring'[q] = back
  BY <1>1, <1>2 DEF TypeOK
<1>8. /\ Len(front) = n
      /\ \A k \in 1..n : front[k] = all[k]
      /\ Len(back) = Len(all) - n
      /\ \A k \in 1..(Len(all) - n) : back[k] = all[n + k]
  BY <1>6, TakeFromFront
<1> HIDE DEF front, back
<1>9. ASSUME NEW m
      PROVE  InQueue(q, m)' <=> InQueue(q, m)
  <2> HIDE DEF all
  <2>1. InQueue(q, m) <=> \E k \in 1..Len(all) : all[k] = m
    <3>1. \A k : k \notin (ib[q] + 1)..Len(bufs[q])
      BY <1>4
    <3> QED
      BY <3>1 DEF InQueue, all
  <2>2. InQueue(q, m)' <=> \/ \E k \in 1..Len(back) : back[k] = m
                           \/ \E k \in 1..Len(front) : front[k] = m
    <3>1. ib'[q] + 1 = 1
      BY <1>4, <1>5
    <3> QED
      BY <1>7, <3>1 DEF InQueue
  <2>3. ASSUME NEW k \in 1..Len(all), all[k] = m
        PROVE  \/ \E j \in 1..Len(back) : back[j] = m
               \/ \E j \in 1..Len(front) : front[j] = m
    <3>1. CASE k <= n
      BY <1>6, <1>8, <2>3, <3>1
    <3>2. CASE k > n
      <4>1. k - n \in 1..(Len(all) - n) /\ n + (k - n) = k
        BY <1>6, <3>2
      <4> QED
        BY <1>8, <2>3, <4>1
    <3> QED
      BY <1>6, <3>1, <3>2
  <2>4. ASSUME NEW k \in 1..Len(back), back[k] = m
        PROVE  \E j \in 1..Len(all) : all[j] = m
    <3>1. n + k \in 1..Len(all)
      BY <1>6, <1>8
    <3> QED
      BY <1>8, <2>4, <3>1
  <2>5. ASSUME NEW k \in 1..Len(front), front[k] = m
        PROVE  \E j \in 1..Len(all) : all[j] = m
    <3>1. k \in 1..Len(all)
      BY <1>6, <1>8
    <3> QED
      BY <1>8, <2>5, <3>1
  <2> QED
    BY <2>1, <2>2, <2>3, <2>4, <2>5
<1>10. LostOf(q)'
  BY <1>1, <1>5, <1>9 DEF LaneInv, LostOf
<1>11. numFrames'[q] = Cardinality(JumboProcessed(q)')
  <2>1. \A k : Away(q, k)' <=> Away(q, k)
    BY <1>5, <1>9 DEF Away
  <2>2. \A k \in 1..Len(wire'[q]) : ~(k > Len(wire[q]))
    BY <1>5, <1>6
  <2>3. Len(wire'[q]) >= Len(wire[q])
    BY <1>5, <1>6
  <2> QED
    BY <1>1, <1>5, <2>1, <2>2, <2>3, LaneMoved
<1>12. ib'[q] <= Len(bufs'[q])
  BY <1>4, <1>5, <1>6, <1>7, <1>8
<1> QED
  BY <1>10, <1>11, <1>12 DEF LaneInv

(* A burst that is freed has no frame ahead.                               *)
LEMMA FreeBurstLane ==
  ASSUME TypeOK, TypeOK', CountInv, NEW l \in Lcores, FreeBurst(l), NEW q \in Queues,
         q = QueuesOf[l][qi[l]]
  PROVE  LaneInv(q)'
<1>1. /\ bufs'[q] = <<>> /\ ib'[q] = 0 /\ ring' = ring /\ wire' = wire /\ lost' = lost
      /\ numFrames' = numFrames /\ ib[q] = Len(bufs[q])
  BY DEF FreeBurst, nicVars, statVars, TypeOK
<1>2. LaneInv(q) /\ Len(bufs[q]) \in Nat /\ Len(wire[q]) \in Nat /\ Len(bufs'[q]) = 0
  BY <1>1, QueueTypes DEF CountInv
<1>3. \A m : InQueue(q, m)' <=> InQueue(q, m)
  <2>1. /\ \A k : k \notin (ib[q] + 1)..Len(bufs[q])
        /\ \A k : k \notin (ib'[q] + 1)..Len(bufs'[q])
    BY <1>1, <1>2
  <2> QED
    BY <1>1, <2>1 DEF InQueue
<1>4. LostOf(q)'
  BY <1>1, <1>2, <1>3 DEF LaneInv, LostOf
<1>5. numFrames'[q] = Cardinality(JumboProcessed(q)')
  <2>1. \A k : Away(q, k)' <=> Away(q, k)
    BY <1>1, <1>3 DEF Away
  <2>2. \A k \in 1..Len(wire'[q]) : ~(k > Len(wire[q]))
    BY <1>1, <1>2
  <2>3. Len(wire'[q]) >= Len(wire[q])
    BY <1>1, <1>2
  <2> QED
    BY <1>1, <1>2, <2>1, <2>2, <2>3, LaneMoved
<1> QED
  BY <1>1, <1>2, <1>4, <1>5 DEF LaneInv

(* The queue the lcore is at: its step processes at most one frame of it.  *)
LEMMA OwnLane ==
  ASSUME MbufInv, TypeOK', UnexpectedInv, OrderInv, CountInv, NEW l \in Lcores, LcoreStep(l),
         NEW q \in Queues, q = QueuesOf[l][qi[l]]
  PROVE  LaneInv(q)'
<1>1. /\ TypeOK /\ LaneInv(q) /\ OrderOf(q)
      /\ ib \in [Queues -> Nat] /\ numFrames \in [Queues -> Nat]
  BY DEF MbufInv, CountInv, OrderInv, TypeOK
<1>2. CASE StartPass(l) \/ InsertUnexpected(l)
  <2>1. UNCHANGED <<wire, lost, ring, bufs, ib, numFrames>>
    BY <1>2 DEF StartPass, InsertUnexpected, nicVars, statVars
  <2> QED
    BY <1>1, <2>1, SameLane
<1>3. CASE RxBurst(l)
  BY <1>3, RxBurstLane
<1>4. CASE FreeBurst(l)
  BY <1>1, <1>4, FreeBurstLane
<1>5. CASE CountUnexpected(l)
  <2>1. FrameInHand(l) /\ JumboInHand(l)
    BY <1>5 DEF CountUnexpected, Holding, UnexpectedInv, HandInv
  <2>2. PICK n \in 1..Len(wire[q]) :
          ib[q] < Len(bufs[q]) /\ n = bufs[q][ib[q] + 1] /\ wire[q][n].jumbo
    BY <2>1, Zenon DEF FrameInHand, JumboInHand
  <2>3. /\ UNCHANGED <<wire, lost, ring, bufs>>
        /\ ib'[q] = ib[q] + 1 /\ numFrames'[q] = numFrames[q] + 1
    BY <1>1, <1>5 DEF CountUnexpected, FrameProcessed, nicVars
  <2> QED
    BY <1>1, <2>2, <2>3, LaneProcessed, Zenon
<1>6. ASSUME NEW r \in Queues, NEW n \in 1..Len(wire[r]),
             SkipSmallFrame(l, r, n) \/ DiscardFrame(l, r, n) \/ HandlePayload(l, r, n)
      PROVE  LaneInv(q)'
  <2>1. r = q /\ ib[q] < Len(bufs[q]) /\ n = bufs[q][ib[q] + 1]
    BY <1>6 DEF SkipSmallFrame, DiscardFrame, HandlePayload, AtFrame, InHand
  <2>2. UNCHANGED <<wire, lost, ring, bufs>>
    BY <1>6 DEF SkipSmallFrame, DiscardFrame, HandlePayload, nicVars
  <2>3. CASE SkipSmallFrame(l, r, n)
    <3>1. ib'[q] = ib[q] + 1 /\ numFrames'[q] = numFrames[q] /\ ~wire[q][n].jumbo
      BY <1>1, <2>1, <2>3, Zenon DEF SkipSmallFrame, statVars
    <3> QED
      BY <1>1, <2>1, <2>2, <3>1, LaneProcessed, Zenon
  <2>4. CASE DiscardFrame(l, r, n) \/ HandlePayload(l, r, n)
    <3>1. FrameProcessed(q) /\ wire[q][n].jumbo
      BY <2>1, <2>4, Zenon DEF DiscardFrame, HandlePayload
    <3>2. ib'[q] = ib[q] + 1 /\ numFrames'[q] = numFrames[q] + 1
      BY <1>1, <3>1 DEF FrameProcessed
    <3> QED
      BY <1>1, <2>1, <2>2, <3>1, <3>2, LaneProcessed, Zenon
  <2> QED
    BY <1>6, <2>3, <2>4
<1>7. ASSUME NEW r \in Queues, NEW n \in 1..Len(wire[r]),
             FindUnexpected(l, r, n) \/ CallCallback(l, r, n)
      PROVE  LaneInv(q)'
  <2>1. UNCHANGED <<wire, lost, ring, bufs, ib, numFrames>>
    BY <1>7 DEF FindUnexpected, CallCallback, nicVars, statVars
  <2> QED
    BY <1>1, <2>1, SameLane
<1>8. ASSUME NEW r \in Queues, NEW n \in 1..Len(wire[r]), CallbackReturns(l, r, n)
      PROVE  LaneInv(q)'
  <2>1. r = q /\ ib[q] < Len(bufs[q]) /\ n = bufs[q][ib[q] + 1] /\ pc[l] = "callback"
    BY <1>8 DEF CallbackReturns, InHand
  <2>2. UNCHANGED <<wire, lost, ring, bufs>>
    BY <1>8 DEF CallbackReturns, nicVars
  <2>3. wire[q][n].jumbo
    <3>1. JumboInHand(l)
      BY <2>1 DEF Holding, UnexpectedInv, HandInv
    <3> QED
      BY <2>1, <3>1, Zenon DEF JumboInHand
  <2>4. ib'[q] = ib[q] + 1 /\ numFrames'[q] = numFrames[q] + 1
    <3>1. FrameProcessed(q)
      BY <1>8, <2>1, Zenon DEF CallbackReturns
    <3> QED
      BY <1>1, <3>1 DEF FrameProcessed
  <2> QED
    BY <1>1, <2>1, <2>2, <2>3, <2>4, LaneProcessed, Zenon
<1> QED
  BY <1>2, <1>3, <1>4, <1>5, <1>6, <1>7, <1>8 DEF LcoreStep, RunnerStep

(* Every step keeps the count of every queue.                              *)
LEMMA CountStep ==
  MbufInv /\ UnexpectedInv /\ OrderInv /\ CountInv /\ [Next]_vars => CountInv'
<1> SUFFICES ASSUME MbufInv, UnexpectedInv, OrderInv, CountInv, [Next]_vars
             PROVE  CountInv'
  OBVIOUS
<1>1. TypeOK /\ TypeOK'
  BY TypeStep DEF MbufInv
<1>2. CASE Environment \/ UNCHANGED vars
  <2>2. ASSUME NEW p \in Queues
        PROVE  LaneInv(p)'
    <3>1. CASE UNCHANGED <<wire, lost, ring, bufs, ib, numFrames>>
      BY <3>1, SameLane DEF CountInv
    <3>2. ASSUME NEW q \in Queues, NEW f \in Arriving[q], Arrive(q, f)
          PROVE  LaneInv(p)'
      BY <1>1, <3>2, ArrivingFrames, ArriveLane
    <3>3. CASE UNCHANGED vars \/ ToggleFlow \/ RaiseQuit \/ \E s \in Sources : ReadSink(s)
      BY <3>1, <3>3 DEF vars, ToggleFlow, RaiseQuit, ReadSink, nicVars, statVars
    <3> QED
      BY <1>2, <3>2, <3>3 DEF Environment
  <2> QED
    BY <2>2 DEF CountInv
<1>3. ASSUME NEW l \in Lcores, LcoreStep(l)
      PROVE  CountInv'
  <2>2. ASSUME NEW p \in Queues
        PROVE  LaneInv(p)'
    BY <1>1, <1>3, OwnLane, OtherLanes
  <2> QED
    BY <2>2 DEF CountInv
<1> QED
  BY <1>2, <1>3 DEF Next

LEMMA InitCountInv == Init => CountInv
<1> SUFFICES ASSUME Init
             PROVE  CountInv
  OBVIOUS
<1>2. ASSUME NEW q \in Queues
      PROVE  LaneInv(q)
  <2>1. /\ wire[q] = <<>> /\ lost[q] = {} /\ bufs[q] = <<>> /\ ib[q] = 0 /\ numFrames[q] = 0
    BY DEF Init
  <2>2. Len(wire[q]) = 0 /\ Len(bufs[q]) = 0
    BY <2>1
  <2>3. JumboProcessed(q) = {}
    BY <2>2 DEF JumboProcessed, Processed
  <2> QED
    BY <2>1, <2>2, <2>3, FS_EmptySet DEF LaneInv, LostOf
<1> QED
  BY <1>2 DEF CountInv

(***************************************************************************)
(* m_num_frames_rxq of a queue counts every jumbo frame the lcore has      *)
(* processed, exactly once, whether it was handed over, dropped by a full  *)
(* sink, counted as unexpected or discarded with the flow disabled.        *)
(***************************************************************************)
THEOREM FramesCountedOnce == Spec => []FramesCounted
<1>1. CountInv => FramesCounted
  BY DEF CountInv, LaneInv, JumboProcessed, FramesCounted
<1> QED
  BY <1>1, InitCountInv, CountStep, MbufInvHolds, UnexpectedInvHolds, OrderInvHolds, PTL DEF Spec

-----------------------------------------------------------------------------
(* How far an lcore is from its test of the quit signal, by its phase, the *)
(* number of its queues, the queue it is at and the frames it has ahead.   *)
PassSteps(phase, queues, k, frames) ==
  LET ahead == 3 * frames + (queues - k) * StepsForQueue
  IN CASE phase = "burst"    -> 1 + queues * StepsForQueue + (queues - k) + 1
       [] phase = "frames"   -> 1 + ahead + 1
       [] phase = "insert"   -> 1 + ahead
       [] phase = "callback" -> ahead
       [] phase = "count"    -> ahead
       [] phase = "check"    -> 1
       [] phase = "done"     -> 0

QueueAt(l) == QueuesOf[l][qi[l]]
FramesAhead(l) == Len(bufs[QueueAt(l)]) - ib[QueueAt(l)]

LEMMA StepsLeftIs ==
  ASSUME NEW l
  PROVE  /\ StepsLeft(l) = PassSteps(pc[l], Len(QueuesOf[l]), qi[l], FramesAhead(l))
         /\ StepsLeft(l)' = PassSteps(pc'[l], Len(QueuesOf[l]), qi'[l], FramesAhead(l)')
  BY DEF StepsLeft, PassSteps, FramesAhead, QueueAt

(* Every step of a pass takes one off at least: going to the next phase or *)
(* to the next queue, whatever is found there, and processing a frame.     *)
LEMMA PassStepsFall ==
  ASSUME NEW queues \in Nat, NEW k \in 1..queues,
         NEW f \in 0..BurstSize, NEW g \in 0..BurstSize
  PROVE  /\ PassSteps("done", queues, k, f) < PassSteps("check", queues, k, f)
         /\ PassSteps("frames", queues, 1, g) < PassSteps("burst", queues, queues, f)
         /\ PassSteps("check", queues, 1, g) < PassSteps("frames", queues, queues, f)
         /\ k < queues =>
              /\ PassSteps("burst", queues, k + 1, g) < PassSteps("burst", queues, k, f)
              /\ PassSteps("frames", queues, k + 1, g) < PassSteps("frames", queues, k, f)
         /\ PassSteps("insert", queues, k, f) < PassSteps("frames", queues, k, f)
         /\ PassSteps("count", queues, k, f) < PassSteps("frames", queues, k, f)
         /\ PassSteps("count", queues, k, f) < PassSteps("insert", queues, k, f)
         /\ PassSteps("frames", queues, k, f - 1) < PassSteps("frames", queues, k, f)
         /\ PassSteps("frames", queues, k, f - 1) < PassSteps("count", queues, k, f)
         /\ PassSteps("callback", queues, k, f) = PassSteps("count", queues, k, f)
<1>1. PICK s \in Nat : s = StepsForQueue /\ s = 3 * BurstSize + 1 /\ BurstSize \in Nat
  BY SizeAssumption DEF StepsForQueue
<1>2. /\ \A p, n, m, h : PassSteps(p, n, m, h) =
             LET ahead == 3 * h + (n - m) * s
             IN CASE p = "burst"  -> 1 + n * s + (n - m) + 1
                  [] p = "frames" -> 1 + ahead + 1
                  [] p = "insert" -> 1 + ahead
                  [] p = "callback" -> ahead
                  [] p = "count"  -> ahead
                  [] p = "check"  -> 1
                  [] p = "done"   -> 0
  BY <1>1 DEF PassSteps
<1>3. /\ (queues - 1) * s + s = queues * s /\ (queues - queues) * s = 0
      /\ (queues - (k + 1)) * s + s = (queues - k) * s
      /\ queues * s \in Int /\ (queues - k) * s \in Int
  BY <1>1
<1>4. PICK a \in Int, b \in Int, c \in Int, d \in Int :
        /\ a = queues * s /\ b = (queues - 1) * s
        /\ c = (queues - k) * s /\ d = (queues - (k + 1)) * s
  BY <1>1
<1>5. b + s = a /\ d + s = c /\ (queues - queues) * s = 0
  BY <1>3, <1>4
<1>6. /\ PassSteps("done", queues, k, f) = 0 /\ PassSteps("check", queues, k, f) = 1
      /\ PassSteps("check", queues, 1, g) = 1
      /\ PassSteps("frames", queues, 1, g) = 1 + (3 * g + b) + 1
      /\ PassSteps("burst", queues, queues, f) = 1 + a + (queues - queues) + 1
      /\ PassSteps("frames", queues, queues, f) = 1 + (3 * f + 0) + 1
  BY <1>2, <1>4, <1>5
<1>7. /\ PassSteps("burst", queues, k, f) = 1 + a + (queues - k) + 1
      /\ PassSteps("burst", queues, k + 1, g) = 1 + a + (queues - (k + 1)) + 1
      /\ PassSteps("frames", queues, k, f) = 1 + (3 * f + c) + 1
      /\ PassSteps("frames", queues, k + 1, g) = 1 + (3 * g + d) + 1
      /\ PassSteps("insert", queues, k, f) = 1 + (3 * f + c)
      /\ PassSteps("count", queues, k, f) = 3 * f + c
      /\ PassSteps("callback", queues, k, f) = 3 * f + c
      /\ PassSteps("frames", queues, k, f - 1) = 1 + (3 * (f - 1) + c) + 1
  BY <1>2, <1>4
<1> QED
  BY <1>1, <1>5, <1>6, <1>7

LEMMA PassStepsType ==
  ASSUME NEW queues \in Nat, NEW k \in 1..queues, NEW f \in 0..BurstSize,
         NEW phase \in Phases
  PROVE  PassSteps(phase, queues, k, f) \in Nat
<1>1. PICK s \in Nat : s = StepsForQueue /\ BurstSize \in Nat
  BY SizeAssumption DEF StepsForQueue
<1>2. queues * s \in Nat /\ (queues - k) * s \in Nat
  <2>1. PICK d \in Nat : d = queues - k
    OBVIOUS
  <2>2. d * s \in Nat
    BY SMT
  <2> QED
    BY <2>1, <2>2
<1>3. PICK a \in Nat, c \in Nat : a = queues * s /\ c = (queues - k) * s
  BY <1>2
<1>4. PassSteps(phase, queues, k, f) =
        LET ahead == 3 * f + c
        IN CASE phase = "burst"  -> 1 + a + (queues - k) + 1
             [] phase = "frames" -> 1 + ahead + 1
             [] phase = "insert" -> 1 + ahead
             [] phase = "callback" -> ahead
             [] phase = "count"  -> ahead
             [] phase = "check"  -> 1
             [] phase = "done"   -> 0
  BY <1>1, <1>3 DEF PassSteps
<1>5. f \in Nat /\ queues - k \in Nat
  BY <1>1
<1> QED
  BY <1>4, <1>5

(* An lcore is not past the end of a burst, and before it with a frame in  *)
(* hand.                                                                   *)
PassInv ==
  /\ TypeOK
  /\ \A q \in Queues : ib[q] <= Len(bufs[q])
  /\ \A l \in Lcores : Holding(l) => ib[QueueAt(l)] < Len(bufs[QueueAt(l)])

LEMMA PassTypes ==
  PassInv => \A l \in Lcores :
               /\ QueueAt(l) \in Queues
               /\ Len(QueuesOf[l]) \in Nat /\ qi[l] \in 1..Len(QueuesOf[l])
               /\ FramesAhead(l) \in 0..BurstSize
               /\ StepsLeft(l) \in Nat
<1> SUFFICES ASSUME PassInv, NEW l \in Lcores
             PROVE  /\ QueueAt(l) \in Queues
                    /\ Len(QueuesOf[l]) \in Nat /\ qi[l] \in 1..Len(QueuesOf[l])
                    /\ FramesAhead(l) \in 0..BurstSize
                    /\ StepsLeft(l) \in Nat
  OBVIOUS
<1>1. /\ Len(QueuesOf[l]) \in Nat /\ qi[l] \in 1..Len(QueuesOf[l])
      /\ QueueAt(l) \in Queues
  BY QueueIndex DEF PassInv, QueueAt
<1>2. PICK q \in Queues : q = QueueAt(l)
  BY <1>1
<1>3. /\ Len(bufs[q]) \in Nat /\ ib[q] \in Nat /\ ib[q] <= Len(bufs[q])
      /\ Len(bufs[q]) <= BurstSize /\ BurstSize \in Nat
  BY QueueTypes, SizeAssumption DEF PassInv, TypeOK
<1>4. FramesAhead(l) \in 0..BurstSize
  BY <1>2, <1>3 DEF FramesAhead
<1>5. pc[l] \in Phases
  BY DEF PassInv, TypeOK
<1>6. StepsLeft(l) \in Nat
  BY <1>1, <1>4, <1>5, StepsLeftIs, PassStepsType
<1> QED
  BY <1>1, <1>4, <1>6

LEMMA PassTypesNext ==
  (PassInv => \A l \in Lcores :
                /\ QueueAt(l) \in Queues
                /\ Len(QueuesOf[l]) \in Nat /\ qi[l] \in 1..Len(QueuesOf[l])
                /\ FramesAhead(l) \in 0..BurstSize
                /\ StepsLeft(l) \in Nat)'
  BY PassTypes, PTL

(* A step of the lcore itself.                                             *)
LEMMA OwnStepsLeft ==
  ASSUME PassInv, PassInv', NEW l \in Lcores, LcoreStep(l), ~(pc[l] = "check" /\ ~quit)
  PROVE  StepsLeft(l)' < StepsLeft(l)
<1>0. PICK queues \in Nat : queues = Len(QueuesOf[l])
  BY PassTypes
<1>1. PICK k \in 1..queues, f \in 0..BurstSize, g \in 0..BurstSize :
        queues = Len(QueuesOf[l]) /\ k = qi[l] /\ f = FramesAhead(l) /\ g = FramesAhead(l)'
  BY <1>0, PassTypes, PassTypesNext
<1>2. PICK p, pNext, kNext : p = pc[l] /\ pNext = pc'[l] /\ kNext = qi'[l]
  OBVIOUS
<1>3. /\ StepsLeft(l) = PassSteps(p, queues, k, f)
      /\ StepsLeft(l)' = PassSteps(pNext, queues, kNext, g)
  BY <1>1, <1>2, StepsLeftIs
<1>4. SUFFICES PassSteps(pNext, queues, kNext, g) < PassSteps(p, queues, k, f)
  BY <1>3
<1>5. /\ pc \in [Lcores -> Phases]
      /\ ib \in [Queues -> Nat] /\ QueueAt(l) \in Queues
  BY PassTypes DEF PassInv, TypeOK
<1>6. ASSUME UNCHANGED <<qi, bufs>>
      PROVE  /\ kNext = k
             /\ ib' = ib => g = f
             /\ ib' = [ib EXCEPT ![QueueAt(l)] = ib[QueueAt(l)] + 1] => g = f - 1
  <2>1. PICK q \in Queues : q = QueueAt(l) /\ q = QueueAt(l)'
    BY <1>5, <1>6 DEF QueueAt
  <2>2. f = Len(bufs[q]) - ib[q] /\ g = Len(bufs[q]) - ib'[q]
    BY <1>1, <1>6, <2>1 DEF FramesAhead
  <2>3. Len(bufs[q]) \in Nat /\ ib[q] \in Nat
    BY QueueTypes DEF PassInv
  <2>4. ib' = [ib EXCEPT ![q] = ib[q] + 1] => ib'[q] = ib[q] + 1
    BY <1>5
  <2> QED
    BY <1>1, <1>2, <1>6, <2>1, <2>2, <2>3, <2>4
<1>7. CASE StartPass(l)
  <2>1. p = "check" /\ pNext = "done" /\ UNCHANGED <<qi, bufs, ib>>
    BY <1>2, <1>5, <1>7 DEF StartPass
  <2> QED
    BY <1>6, <2>1, PassStepsFall
<1>8. CASE RxBurst(l)
  <2>1. /\ p = "burst"
        /\ \/ k = queues /\ kNext = 1 /\ pNext = "frames"
           \/ k # queues /\ kNext = k + 1 /\ pNext = "burst"
    BY <1>1, <1>2, <1>8, NextQueueMoves DEF RxBurst, PassInv
  <2> QED
    BY <2>1, PassStepsFall
<1>9. CASE FreeBurst(l)
  <2>1. /\ p = "frames"
        /\ \/ k = queues /\ kNext = 1 /\ pNext = "check"
           \/ k # queues /\ kNext = k + 1 /\ pNext = "frames"
    BY <1>1, <1>2, <1>9, NextQueueMoves DEF FreeBurst, PassInv
  <2> QED
    BY <2>1, PassStepsFall
<1>10. CASE InsertUnexpected(l)
  <2>1. p = "insert" /\ pNext = "count" /\ UNCHANGED <<qi, bufs, ib>>
    BY <1>2, <1>5, <1>10 DEF InsertUnexpected
  <2> QED
    BY <1>6, <2>1, PassStepsFall
<1>11. CASE CountUnexpected(l)
  <2>1. /\ p = "count" /\ pNext = "frames" /\ UNCHANGED <<qi, bufs>>
        /\ ib' = [ib EXCEPT ![QueueAt(l)] = ib[QueueAt(l)] + 1]
    BY <1>2, <1>5, <1>11 DEF CountUnexpected, FrameProcessed, QueueAt
  <2> QED
    BY <1>6, <2>1, PassStepsFall
<1>12. ASSUME NEW q \in Queues, NEW n \in 1..Len(wire[q]),
              SkipSmallFrame(l, q, n) \/ DiscardFrame(l, q, n) \/ HandlePayload(l, q, n)
       PROVE  PassSteps(pNext, queues, kNext, g) < PassSteps(p, queues, k, f)
  <2>1. p = "frames" /\ q = QueueAt(l) /\ pNext = "frames" /\ UNCHANGED <<qi, bufs>>
    BY <1>2, <1>12 DEF SkipSmallFrame, DiscardFrame, HandlePayload, AtFrame, InHand, QueueAt
  <2>2. ib' = [ib EXCEPT ![q] = ib[q] + 1]
    BY <1>12 DEF SkipSmallFrame, DiscardFrame, HandlePayload, FrameProcessed
  <2> QED
    BY <1>6, <2>1, <2>2, PassStepsFall
<1>13. ASSUME NEW q \in Queues, NEW n \in 1..Len(wire[q]), FindUnexpected(l, q, n)
       PROVE  PassSteps(pNext, queues, kNext, g) < PassSteps(p, queues, k, f)
  <2>1. p = "frames" /\ UNCHANGED <<qi, bufs, ib>>
    BY <1>2, <1>13, Zenon DEF FindUnexpected, AtFrame, InHand
  <2>2. pNext = "insert" \/ pNext = "count"
    BY <1>2, <1>5, <1>13, Zenon DEF FindUnexpected
  <2> QED
    BY <1>6, <2>1, <2>2, PassStepsFall
<1>14. ASSUME NEW q \in Queues, NEW n \in 1..Len(wire[q]), CallCallback(l, q, n)
       PROVE  PassSteps(pNext, queues, kNext, g) < PassSteps(p, queues, k, f)
  <2>1. p = "frames" /\ pNext = "callback" /\ UNCHANGED <<qi, bufs, ib>>
    BY <1>2, <1>5, <1>14 DEF CallCallback, AtFrame
  <2> QED
    BY <1>6, <2>1, PassStepsFall
<1>15. ASSUME NEW q \in Queues, NEW n \in 1..Len(wire[q]), CallbackReturns(l, q, n)
       PROVE  PassSteps(pNext, queues, kNext, g) < PassSteps(p, queues, k, f)
  <2>1. p = "callback" /\ pNext = "frames" /\ q = QueueAt(l) /\ UNCHANGED <<qi, bufs>>
    BY <1>2, <1>5, <1>15 DEF CallbackReturns, InHand, QueueAt
  <2>2. ib' = [ib EXCEPT ![q] = ib[q] + 1]
    BY <1>15 DEF CallbackReturns, FrameProcessed
  <2> QED
    BY <1>6, <2>1, <2>2, PassStepsFall
<1> QED
  BY <1>7, <1>8, <1>9, <1>10, <1>11, <1>12, <1>13, <1>14, <1>15 DEF LcoreStep, RunnerStep

(* A step of anybody else.                                                 *)
LEMMA OtherStepsLeft ==
  ASSUME TypeOK, [Next]_vars, NEW l \in Lcores, ~LcoreStep(l)
  PROVE  StepsLeft(l)' = StepsLeft(l)
<1>1. /\ pc'[l] = pc[l] /\ qi'[l] = qi[l]
      /\ bufs'[QueueAt(l)] = bufs[QueueAt(l)] /\ ib'[QueueAt(l)] = ib[QueueAt(l)]
  <2>1. CASE Environment \/ UNCHANGED vars
    BY <2>1 DEF Environment, Arrive, ToggleFlow, RaiseQuit, ReadSink, nicVars, sinkVars, vars
  <2>2. ASSUME NEW m \in Lcores, LcoreStep(m)
        PROVE  /\ pc'[l] = pc[l] /\ qi'[l] = qi[l]
               /\ bufs'[QueueAt(l)] = bufs[QueueAt(l)] /\ ib'[QueueAt(l)] = ib[QueueAt(l)]
    <3>1. l # m
      BY <2>2
    <3> QED
      BY <2>2, <3>1, OtherLcoreStays DEF QueueAt
  <2> QED
    BY <2>1, <2>2 DEF Next
<1>2. FramesAhead(l)' = FramesAhead(l)
  <2>1. QueueAt(l)' = QueueAt(l)
    BY <1>1 DEF QueueAt
  <2> QED
    BY <1>1, <2>1 DEF FramesAhead
<1> QED
  BY <1>1, <1>2, StepsLeftIs

(***************************************************************************)
(* However large the bursts and however many queues an lcore has: a pass   *)
(* of rx_runner ends after a bounded number of its steps, whatever full    *)
(* sinks, the NIC and the other lcores do, so that an lcore told to quit   *)
(* returns.                                                                *)
(***************************************************************************)
THEOREM PassesOfLcoresEnd == Spec => PassesEnd
<1> DEFINE PassStep ==
             \A l \in Lcores :
               IF LcoreStep(l)
                 THEN \/ pc[l] = "check" /\ ~quit
                      \/ StepsLeft(l)' \in 0..(StepsLeft(l) - 1)
                 ELSE StepsLeft(l)' = StepsLeft(l)
<1>1. TypeOK /\ UnexpectedInv /\ CountInv => PassInv
  BY DEF UnexpectedInv, HandInv, FrameInHand, CountInv, LaneInv, PassInv, QueueAt
<1>2. PassInv /\ PassInv' /\ [Next]_vars => PassStep
  <2> SUFFICES ASSUME PassInv, PassInv', [Next]_vars, NEW l \in Lcores
               PROVE  IF LcoreStep(l)
                        THEN \/ pc[l] = "check" /\ ~quit
                             \/ StepsLeft(l)' \in 0..(StepsLeft(l) - 1)
                        ELSE StepsLeft(l)' = StepsLeft(l)
    OBVIOUS
  <2>1. CASE ~LcoreStep(l)
    BY <2>1, OtherStepsLeft DEF PassInv
  <2>2. ASSUME LcoreStep(l), ~(pc[l] = "check" /\ ~quit)
        PROVE  StepsLeft(l)' \in 0..(StepsLeft(l) - 1)
    <3>1. StepsLeft(l)' < StepsLeft(l)
      BY <2>2, OwnStepsLeft
    <3>2. StepsLeft(l) \in Nat /\ StepsLeft(l)' \in Nat
      BY PassTypes, PassTypesNext
    <3> QED
      BY <3>1, <3>2
  <2> QED
    BY <2>1, <2>2
<1>3. Spec => [](TypeOK /\ UnexpectedInv /\ CountInv)
  BY InitCountInv, CountStep, MbufInvHolds, UnexpectedInvHolds, OrderInvHolds, TypeCorrect, PTL DEF Spec
<1>4. Spec => [][PassStep]_vars
  BY <1>1, <1>2, <1>3, PTL DEF Spec
<1> QED
  BY <1>4 DEF PassesEnd
=============================================================================
