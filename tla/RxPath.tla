-------------------------------- MODULE RxPath --------------------------------
(***************************************************************************)
(* The receive path of one interface: the NIC fills the receive rings, and *)
(* each lcore in rx_runner takes bursts off its queues, hands every frame  *)
(* to the source its stream leads to and returns the mbufs.                *)
(*                                                                         *)
(* A frame is its number in the arrival order of its queue; wire holds its *)
(* stream and whether it is longer than 7000 bytes.  The NIC, the mbuf     *)
(* pools and the sinks are external: a ring keeps RingSize mbufs armed or  *)
(* filled, and rte_eth_rx_burst re-arms each slot it empties from the      *)
(* pool of the queue.  ReaderControl models when the flow flag is read     *)
(* relative to the commands; here it may change between any two frames.    *)
(* The lcores share one std::map without a lock: an access that overlaps   *)
(* an insertion may do any damage, and what follows is not modelled beyond *)
(* that the process may end or an lcore never come out of the map.         *)
(***************************************************************************)
EXTENDS Integers, Sequences, FiniteSets, QueueLists

CONSTANTS
  Lcores,     (* Lcores of the interface.                                  *)
  Queues,     (* Receive queues.                                           *)
  QueuesOf,   (* Of every lcore, its queues in the order of m_rx_core_map. *)
  Streams,    (* Stream ids a frame may carry, configured or not.          *)
  Arriving,   (* Of every queue, the frames the NIC may steer to it.       *)
  StreamMap,  (* m_stream_id_to_source_id as the constructor left it.      *)
  Sources,    (* Keys of m_sources.                                        *)
  CallbackSources,  (* Those in callback mode: the others send to a queue. *)
  RingSize,   (* m_rx_ring_size.                                           *)
  BurstSize,  (* m_burst_size.                                             *)
  NumMbufs,   (* m_num_mbufs, the mbufs of the pool of one queue.          *)
  SinkSize,   (* Capacity of the queue behind a source.                    *)
  MaxFrames   (* Bound: frames that arrive for each queue.                 *)

ASSUME SizeAssumption ==
  /\ RingSize \in Nat \ {0}
  /\ BurstSize \in Nat \ {0}
  /\ SinkSize \in Nat
  /\ NumMbufs \in Nat
  /\ RingSize < NumMbufs

(* The constructor gives every queue to one lcore of m_rx_core_map.        *)
ASSUME QueuesOfType == HaveQueues(Lcores, Queues, QueuesOf)
ASSUME QueuesServed == AllServed(Lcores, Queues, QueuesOf)
ASSUME QueuesDisjoint == NoneShared(Lcores, QueuesOf)

ASSUME LcoresFinite == IsFiniteSet(Lcores)

ASSUME CallbackSourcesType == CallbackSources \subseteq Sources

Frame == [stream : Streams, jumbo : BOOLEAN]

ASSUME ArrivingType == Arriving \in [Queues -> SUBSET Frame]

VARIABLES
  wire,       (* Of every queue, the frames that have arrived.             *)
  lost,       (* Those the NIC had no room for (imissed).                  *)
  ring,       (* Those in the receive ring, oldest first.                  *)
  pool,       (* Free mbufs of the pool of the queue.                      *)
  bufs,       (* m_bufs: the frames of the burst, nb_rx of them.           *)
  flow,       (* m_lcore_enable_flow.                                      *)
  quit,       (* m_lcore_quit_signal.                                      *)
  pc,         (* Where every lcore is in rx_runner: one of Phases.         *)
  qi,         (* Index of the queue the lcore is at.                       *)
  ib,         (* i_b: frames of the burst of a queue already processed.    *)
  numFrames,  (* m_num_frames_rxq.                                         *)
  unexid,     (* m_num_unexid_frames, a map from source ids to counts.     *)
  tree,       (* Its nodes: sound, raced (damaged), fatal (damage fatal).  *)
  sink,       (* Frames in the queue behind each source.                   *)
  dropped,    (* m_dropped_packets of each source.                         *)
  handed,     (* History: the frame of the queue handed over last, to whom.*)
  unexSeen    (* History: frames found unexpected, by source id.           *)

nicVars == <<wire, lost, ring>>
sigVars == <<flow, quit>>
statVars == <<numFrames, unexid, unexSeen, tree>>
sinkVars == <<sink, dropped, handed>>
vars == <<wire, lost, ring, pool, bufs, flow, quit, pc, qi, ib, numFrames,
          unexid, tree, unexSeen, sink, dropped, handed>>

Phases == {"check", "burst", "frames", "callback", "insert", "count", "done"}

Nothing == [n |-> 0, to |-> 0]

(* Every source id a frame can lead to.                                    *)
SourceIds ==
  {0} \cup UNION {{StreamMap[q][st] : st \in DOMAIN StreamMap[q]} : q \in Queues}

Init ==
  /\ wire = [q \in Queues |-> <<>>]
  /\ lost = [q \in Queues |-> {}]
  /\ ring = [q \in Queues |-> <<>>]
  /\ pool = [q \in Queues |-> NumMbufs - RingSize]
  /\ bufs = [q \in Queues |-> <<>>]
  /\ flow = FALSE
  /\ quit = FALSE
  /\ pc = [l \in Lcores |-> "check"]
  /\ qi = [l \in Lcores |-> 1]
  /\ ib = [q \in Queues |-> 0]
  /\ numFrames = [q \in Queues |-> 0]
  /\ unexid = [s \in {} |-> 0]
  /\ tree = "sound"
  /\ unexSeen = [s \in SourceIds |-> 0]
  /\ sink = [s \in Sources |-> 0]
  /\ dropped = [s \in Sources |-> 0]
  /\ handed = [q \in Queues |-> Nothing]

(***************************************************************************)
(* The surroundings: the NIC, the commands, the readers of the sinks.      *)
(***************************************************************************)
Arrive(q, f) ==
  /\ Len(wire[q]) < MaxFrames[q]
  /\ wire' = [wire EXCEPT ![q] = Append(@, f)]
  /\ IF Len(ring[q]) < RingSize
       THEN /\ ring' = [ring EXCEPT ![q] = Append(@, Len(wire[q]) + 1)]
            /\ UNCHANGED lost
       ELSE /\ lost' = [lost EXCEPT ![q] = @ \cup {Len(wire[q]) + 1}]
            /\ UNCHANGED ring
  /\ UNCHANGED <<pool, bufs, sigVars, pc, qi, ib, statVars, sinkVars>>

ToggleFlow ==
  /\ ~quit
  /\ flow' = ~flow
  /\ UNCHANGED <<nicVars, pool, bufs, quit, pc, qi, ib, statVars, sinkVars>>

(* IfaceWrapper::stop: the flow is disabled and the quit signal raised.    *)
RaiseQuit ==
  /\ ~quit
  /\ quit' = TRUE
  /\ flow' = FALSE
  /\ UNCHANGED <<nicVars, pool, bufs, pc, qi, ib, statVars, sinkVars>>

ReadSink(s) ==
  /\ sink[s] > 0
  /\ sink' = [sink EXCEPT ![s] = @ - 1]
  /\ UNCHANGED <<nicVars, pool, bufs, sigVars, pc, qi, ib, statVars, dropped, handed>>

(***************************************************************************)
(* One pass of rx_runner.  First a burst is taken off every queue.         *)
(***************************************************************************)
StartPass(l) ==
  /\ pc[l] = "check"
  /\ pc' = [pc EXCEPT ![l] = IF quit THEN "done" ELSE "burst"]
  /\ UNCHANGED <<nicVars, pool, bufs, sigVars, qi, ib, statVars, sinkVars>>

Smaller(a, b) == IF a < b THEN a ELSE b

LastQueue(l) == qi[l] = Len(QueuesOf[l])

(* Mutant: the loop over the queues runs one element too far.              *)
NextQueuePastEnd(l, phase) ==
  IF qi[l] > Len(QueuesOf[l])
    THEN qi' = [qi EXCEPT ![l] = 1] /\ pc' = [pc EXCEPT ![l] = phase]
    ELSE qi' = [qi EXCEPT ![l] = @ + 1] /\ UNCHANGED pc

(* The next queue, or from the last one the first queue of the next phase. *)
NextQueue(l, phase) ==
  IF LastQueue(l)
    THEN qi' = [qi EXCEPT ![l] = 1] /\ pc' = [pc EXCEPT ![l] = phase]
    ELSE qi' = [qi EXCEPT ![l] = @ + 1] /\ UNCHANGED pc

RxBurst(l) ==
  LET q == QueuesOf[l][qi[l]]
      most == Smaller(Smaller(Len(ring[q]), BurstSize), pool[q])
  IN /\ pc[l] = "burst"
     /\ \E n \in Smaller(1, most)..most :
          /\ bufs' = [bufs EXCEPT ![q] = SubSeq(ring[q], 1, n)]
          /\ ring' = [ring EXCEPT ![q] = SubSeq(@, n + 1, Len(@))]
          /\ pool' = [pool EXCEPT ![q] = @ - n]
     /\ NextQueue(l, "frames")
     /\ UNCHANGED <<wire, lost, sigVars, ib, statVars, sinkVars>>

(***************************************************************************)
(* Then the frames are processed, queue by queue.                          *)
(***************************************************************************)
InHand(l, q, n) ==
  /\ q = QueuesOf[l][qi[l]]
  /\ ib[q] < Len(bufs[q])
  /\ n = bufs[q][ib[q] + 1]

AtFrame(l, q, n) == pc[l] = "frames" /\ InHand(l, q, n)

(* handle_eth_payload looks the stream up with operator[], which answers 0 *)
(* for a stream that is not configured.                                    *)
SourceOf(q, st) == IF st \in DOMAIN StreamMap[q] THEN StreamMap[q][st] ELSE 0

SourceOfFrame(q, n) == SourceOf(q, wire[q][n].stream)

FrameProcessed(q) ==
  /\ ib' = [ib EXCEPT ![q] = @ + 1]
  /\ numFrames' = [numFrames EXCEPT ![q] = @ + 1]

SkipSmallFrame(l, q, n) ==
  /\ AtFrame(l, q, n)
  /\ ~wire[q][n].jumbo
  /\ ib' = [ib EXCEPT ![q] = @ + 1]
  /\ UNCHANGED <<nicVars, pool, bufs, sigVars, pc, qi, statVars, sinkVars>>

(* Mutant: frames are counted only while the flow is enabled.              *)
DiscardFrameUncounted(l, q, n) ==
  /\ AtFrame(l, q, n)
  /\ wire[q][n].jumbo
  /\ ~flow
  /\ ib' = [ib EXCEPT ![q] = @ + 1]
  /\ UNCHANGED <<nicVars, pool, bufs, sigVars, pc, qi, statVars, sinkVars>>

DiscardFrame(l, q, n) ==
  /\ AtFrame(l, q, n)
  /\ wire[q][n].jumbo
  /\ ~flow
  /\ FrameProcessed(q)
  /\ UNCHANGED <<nicVars, pool, bufs, sigVars, pc, qi, unexid, tree, unexSeen, sinkVars>>

(* Mutant: the lcore waits for room in the sink.                           *)
HandlePayloadWaits(l, q, n) ==
  LET s == SourceOfFrame(q, n)
  IN /\ AtFrame(l, q, n)
     /\ wire[q][n].jumbo
     /\ flow
     /\ s \in Sources \ CallbackSources
     /\ sink[s] < SinkSize
     /\ sink' = [sink EXCEPT ![s] = @ + 1]
     /\ handed' = [handed EXCEPT ![q] = [n |-> n, to |-> s]]
     /\ FrameProcessed(q)
     /\ UNCHANGED <<nicVars, pool, bufs, sigVars, pc, qi, unexid, tree, unexSeen,
                    dropped>>

(* Mutant: a frame a full sink drops is tried again.                       *)
HandlePayloadRetries(l, q, n) ==
  LET s == SourceOfFrame(q, n)
  IN /\ AtFrame(l, q, n)
     /\ wire[q][n].jumbo
     /\ flow
     /\ s \in Sources \ CallbackSources
     /\ IF sink[s] < SinkSize
          THEN sink' = [sink EXCEPT ![s] = @ + 1] /\ UNCHANGED dropped /\ FrameProcessed(q)
          ELSE dropped' = [dropped EXCEPT ![s] = @ + 1] /\ UNCHANGED <<sink, ib, numFrames>>
     /\ handed' = [handed EXCEPT ![q] = [n |-> n, to |-> s]]
     /\ UNCHANGED <<nicVars, pool, bufs, sigVars, pc, qi, unexid, tree, unexSeen>>

(* SourceModel::handle_payload: try_send does not wait, a full sink drops. *)
HandlePayload(l, q, n) ==
  LET s == SourceOfFrame(q, n)
  IN /\ AtFrame(l, q, n)
     /\ wire[q][n].jumbo
     /\ flow
     /\ s \in Sources \ CallbackSources
     /\ IF sink[s] < SinkSize
          THEN sink' = [sink EXCEPT ![s] = @ + 1] /\ UNCHANGED dropped
          ELSE dropped' = [dropped EXCEPT ![s] = @ + 1] /\ UNCHANGED sink
     /\ handed' = [handed EXCEPT ![q] = [n |-> n, to |-> s]]
     /\ FrameProcessed(q)
     /\ UNCHANGED <<nicVars, pool, bufs, sigVars, pc, qi, unexid, tree, unexSeen>>

(* Mutant: the length of a frame is not checked.                           *)
CallCallbackAnyLength(l, q, n) ==
  /\ AtFrame(l, q, n)
  /\ flow
  /\ SourceOfFrame(q, n) \in CallbackSources
  /\ pc' = [pc EXCEPT ![l] = "callback"]
  /\ UNCHANGED <<nicVars, pool, bufs, sigVars, qi, ib, statVars, sinkVars>>

(* In callback mode the lcore runs the callback of the source, for as long *)
(* as it takes.                                                            *)
CallCallback(l, q, n) ==
  /\ AtFrame(l, q, n)
  /\ wire[q][n].jumbo
  /\ flow
  /\ SourceOfFrame(q, n) \in CallbackSources
  /\ pc' = [pc EXCEPT ![l] = "callback"]
  /\ UNCHANGED <<nicVars, pool, bufs, sigVars, qi, ib, statVars, sinkVars>>

CallbackReturns(l, q, n) ==
  /\ pc[l] = "callback"
  /\ InHand(l, q, n)
  /\ pc' = [pc EXCEPT ![l] = "frames"]
  /\ handed' = [handed EXCEPT ![q] = [n |-> n, to |-> SourceOfFrame(q, n)]]
  /\ FrameProcessed(q)
  /\ UNCHANGED <<nicVars, pool, bufs, sigVars, qi, unexid, tree, unexSeen, sink, dropped>>

(* A frame that leads to no source is counted in m_num_unexid_frames, a    *)
(* std::map all lcores write without a lock.  An access while another      *)
(* lcore is at one of the given phases in the map overlaps an insertion:   *)
(* it may do what it would alone, or lose it or all nodes, or not end.     *)
AccessMap(l, phases, result) ==
  \/ unexid' = result /\ UNCHANGED tree
  \/ /\ tree # "sound" \/ \E m \in Lcores \ {l} : pc[m] \in phases
     /\ unexid' \in {result, unexid, [s \in {} |-> 0]}
     /\ tree' \in {"raced", "fatal"}

FindUnexpected(l, q, n) ==
  LET s == SourceOfFrame(q, n)
  IN /\ AtFrame(l, q, n)
     /\ wire[q][n].jumbo
     /\ flow
     /\ s \notin Sources
     /\ AccessMap(l, {"insert"}, unexid)
     /\ pc' = [pc EXCEPT ![l] = IF s \in DOMAIN unexid' THEN "count" ELSE "insert"]
     /\ unexSeen' = [unexSeen EXCEPT ![s] = @ + 1]
     /\ UNCHANGED <<nicVars, pool, bufs, sigVars, qi, ib, numFrames, sinkVars>>

(* The source id of the frame an lcore is counting as unexpected.          *)
SourceInHand(l) ==
  LET q == QueuesOf[l][qi[l]] IN SourceOfFrame(q, bufs[q][ib[q] + 1])

CountOf(s) == IF s \in DOMAIN unexid THEN unexid[s] ELSE 0

(* m_num_unexid_frames with the count of one id set.                       *)
WithCount(s, count) ==
  [t \in DOMAIN unexid \cup {s} |-> IF t = s THEN count ELSE unexid[t]]

(* Mutant: a new id is inserted and its first frame not counted.           *)
InsertUnexpectedOnly(l) ==
  /\ pc[l] = "insert"
  /\ AccessMap(l, {"insert", "count"}, WithCount(SourceInHand(l), 0))
  /\ pc' = [pc EXCEPT ![l] = "frames"]
  /\ FrameProcessed(QueuesOf[l][qi[l]])
  /\ UNCHANGED <<nicVars, pool, bufs, sigVars, qi, unexSeen, sinkVars>>

InsertUnexpected(l) ==
  /\ pc[l] = "insert"
  /\ AccessMap(l, {"insert", "count"}, WithCount(SourceInHand(l), 0))
  /\ pc' = [pc EXCEPT ![l] = "count"]
  /\ UNCHANGED <<nicVars, pool, bufs, sigVars, qi, ib, numFrames, unexSeen, sinkVars>>

CountUnexpected(l) ==
  /\ pc[l] = "count"
  /\ AccessMap(l, {"insert"}, WithCount(SourceInHand(l), CountOf(SourceInHand(l)) + 1))
  /\ pc' = [pc EXCEPT ![l] = "frames"]
  /\ FrameProcessed(QueuesOf[l][qi[l]])
  /\ UNCHANGED <<nicVars, pool, bufs, sigVars, qi, unexSeen, sinkVars>>

(* Mutant: a whole burst is freed, however many frames it held.            *)
FreeBurstWhole(l) ==
  LET q == QueuesOf[l][qi[l]]
  IN /\ pc[l] = "frames"
     /\ ib[q] = Len(bufs[q])
     /\ pool' = [pool EXCEPT ![q] = @ + BurstSize]
     /\ bufs' = [bufs EXCEPT ![q] = <<>>]
     /\ ib' = [ib EXCEPT ![q] = 0]
     /\ NextQueue(l, "check")
     /\ UNCHANGED <<nicVars, sigVars, statVars, sinkVars>>

(* All frames of the queue are processed: rte_pktmbuf_free_bulk.           *)
FreeBurst(l) ==
  LET q == QueuesOf[l][qi[l]]
  IN /\ pc[l] = "frames"
     /\ ib[q] = Len(bufs[q])
     /\ pool' = [pool EXCEPT ![q] = @ + Len(bufs[q])]
     /\ bufs' = [bufs EXCEPT ![q] = <<>>]
     /\ ib' = [ib EXCEPT ![q] = 0]
     /\ NextQueue(l, "check")
     /\ UNCHANGED <<nicVars, sigVars, statVars, sinkVars>>

RunnerStep(l) ==
  \/ StartPass(l) \/ RxBurst(l)
  \/ InsertUnexpected(l) \/ CountUnexpected(l) \/ FreeBurst(l)
  \/ \E q \in Queues : \E n \in 1..Len(wire[q]) :
       \/ SkipSmallFrame(l, q, n) \/ DiscardFrame(l, q, n)
       \/ HandlePayload(l, q, n) \/ CallCallback(l, q, n) \/ FindUnexpected(l, q, n)

LcoreStep(l) ==
  \/ RunnerStep(l)
  \/ \E q \in Queues : \E n \in 1..Len(wire[q]) : CallbackReturns(l, q, n)

Environment ==
  \/ \E q \in Queues : \E f \in Arriving[q] : Arrive(q, f)
  \/ ToggleFlow \/ RaiseQuit
  \/ \E s \in Sources : ReadSink(s)

Next ==
  /\ tree # "fatal"
  /\ Environment \/ \E l \in Lcores : LcoreStep(l)

Spec == Init /\ [][Next]_vars

(* An lcore runs on a core of its own.  Nothing is assumed of the readers  *)
(* of the sinks, nor of the callbacks, which need not return.              *)
FairSpec == Spec /\ \A l \in Lcores : WF_vars(tree # "fatal" /\ RunnerStep(l))

-----------------------------------------------------------------------------

TypeOK ==
  /\ wire \in [Queues -> Seq(Frame)]
  /\ lost \in [Queues -> SUBSET Nat]
  /\ ring \in [Queues -> Seq(Nat)]
  /\ \A q \in Queues : Len(ring[q]) <= RingSize
  /\ pool \in [Queues -> Nat]
  /\ bufs \in [Queues -> Seq(Nat)]
  /\ \A q \in Queues : Len(bufs[q]) <= BurstSize
  /\ flow \in BOOLEAN
  /\ quit \in BOOLEAN
  /\ pc \in [Lcores -> Phases]
  /\ qi \in [Lcores -> Nat \ {0}]
  /\ \A l \in Lcores : qi[l] <= Len(QueuesOf[l])
  /\ ib \in [Queues -> Nat]
  /\ numFrames \in [Queues -> Nat]
  /\ DOMAIN unexid \subseteq SourceIds
  /\ \A s \in DOMAIN unexid : unexid[s] \in Nat
  /\ tree \in {"sound", "raced", "fatal"}
  /\ unexSeen \in [SourceIds -> Nat]
  /\ sink \in [Sources -> 0..SinkSize]
  /\ dropped \in [Sources -> Nat]
  /\ handed \in [Queues -> [n : Nat, to : SourceIds]]

(***************************************************************************)
(* Every mbuf of a queue is in its ring, in the burst, or free; and an     *)
(* lcore between two passes, or gone after the quit signal, holds none.    *)
(***************************************************************************)
MbufsConserved ==
  /\ \A q \in Queues : pool[q] + Len(bufs[q]) + RingSize = NumMbufs
  /\ \A l \in Lcores : pc[l] \in {"check", "done"} =>
       \A k \in 1..Len(QueuesOf[l]) : bufs[QueuesOf[l][k]] = <<>>

Elements(f) == {f[k] : k \in DOMAIN f}

(* The frames that arrived and are not lost, in the ring or ahead in the   *)
(* burst.                                                                  *)
Processed(q) ==
  (1..Len(wire[q])) \ (lost[q] \cup Elements(ring[q])
                        \cup {bufs[q][k] : k \in (ib[q] + 1)..Len(bufs[q])})

(***************************************************************************)
(* m_num_frames_rxq counts every jumbo frame the lcore has processed, once *)
(* and whatever became of it: dropped by a full sink, without a source, or *)
(* discarded with the flow disabled.                                       *)
(***************************************************************************)
FramesCounted ==
  \A q \in Queues :
    numFrames[q] = Cardinality({n \in Processed(q) : wire[q][n].jumbo})

(***************************************************************************)
(* The lcores update the map of unexpected source ids between one          *)
(* another's steps.  As long as no access has been damaged by an insertion *)
(* it overlapped, the map never counts a frame that was not, and an id     *)
(* found unexpected is in the map with a count as soon as no lcore is      *)
(* between its test and its increment.  (Increments may be lost even then: *)
(* two lcores that both find the id absent both insert 0.)                 *)
(***************************************************************************)
UnexpectedIdRecorded ==
  tree = "sound" =>
    \A s \in SourceIds :
      /\ s \in DOMAIN unexid => unexid[s] <= unexSeen[s]
      /\ unexSeen[s] > 0 /\ (\A l \in Lcores : pc[l] \notin {"insert", "count"})
           => s \in DOMAIN unexid /\ unexid[s] > 0

(***************************************************************************)
(* "Really bad -> unexpeced StreamID in UDP Payload", says the branch that *)
(* counts unexpected frames: a stream that is not configured for the queue *)
(* reaches no source.                                                      *)
(***************************************************************************)
UnknownStreamNotHandedOver ==
  \A q \in Queues :
    handed[q].n > 0 => wire[q][handed[q].n].stream \in DOMAIN StreamMap[q]

(***************************************************************************)
(* The receive path implements the delivery promised in FrameDelivery.  It *)
(* needs that no source has id 0, the answer to an unknown stream.         *)
(***************************************************************************)
Promise == INSTANCE FrameDelivery WITH wire <- wire, handed <- handed

DeliversInOrder == Promise!Spec

(***************************************************************************)
(* The steps an lcore may still take before it tests the quit signal and   *)
(* returns: three for a frame, one to free a burst, one to take it.        *)
(***************************************************************************)
StepsForQueue == 3 * BurstSize + 1

StepsLeft(l) ==
  LET q == QueuesOf[l][qi[l]]
      queues == Len(QueuesOf[l])
      ahead == 3 * (Len(bufs[q]) - ib[q]) + (queues - qi[l]) * StepsForQueue
  IN CASE pc[l] = "burst"    -> 1 + queues * StepsForQueue + (queues - qi[l]) + 1
       [] pc[l] = "frames"   -> 1 + ahead + 1
       [] pc[l] = "insert"   -> 1 + ahead
       [] pc[l] = "callback" -> ahead
       [] pc[l] = "count"    -> ahead
       [] pc[l] = "check"    -> 1
       [] pc[l] = "done"     -> 0

(***************************************************************************)
(* A pass ends, whatever the sinks, the NIC and the other lcores do: every *)
(* step of an lcore but the first of a pass brings it nearer to its test   *)
(* of the quit signal, and no step of anybody else takes it further away.  *)
(* Once the signal is raised, wait_for_lcores therefore waits for at most  *)
(* StepsLeft steps of an lcore.  One of them may be the return of a        *)
(* callback, which is as slow as its owner makes it.                       *)
(***************************************************************************)
PassesEnd ==
  [][\A l \in Lcores :
       IF LcoreStep(l)
         THEN \/ pc[l] = "check" /\ ~quit
              \/ StepsLeft(l)' \in 0..(StepsLeft(l) - 1)
         ELSE StepsLeft(l)' = StepsLeft(l)]_vars

(***************************************************************************)
(* Every frame the ring accepted is processed, although the readers of the *)
(* sinks may never read, by an lcore whose callbacks all return, whatever  *)
(* holds up the others; unless the lcores are told to quit or an lcore     *)
(* never comes out of the map.                                             *)
(***************************************************************************)
EveryFrameProcessed ==
  \A l \in Lcores :
    []<>(pc[l] # "callback") =>
      \A k \in 1..Len(QueuesOf[l]) : LET q == QueuesOf[l][k] IN
        \A n \in 1..MaxFrames[q] :
          n \in Elements(ring[q]) ~> n \in Processed(q) \/ quit \/ tree = "fatal"
=============================================================================
