------------------------------ MODULE MCRxPath ------------------------------
(***************************************************************************)
(* In the run rx, lcore l1 has receive queues 1 and 2, lcore l2 has queue  *)
(* 3, whose source calls a callback.  Stream a is unexpected on queues 2   *)
(* and 3, so that both lcores may be in the map of unexpected ids.         *)
(***************************************************************************)
EXTENDS RxPath

Jumbo(streams) == [stream : streams, jumbo : {TRUE}]
Small == [stream |-> "b", jumbo |-> FALSE]

MCQueuesOf == [l \in Lcores |-> IF l = "l1" THEN <<1, 2>> ELSE <<3>>]
MCStreamMap == [q \in Queues |-> CASE q = 1 -> [st \in {"a"} |-> 10]
                                   [] q = 2 -> [st \in {"b"} |-> 20]
                                   [] OTHER -> [st \in {"b"} |-> 30]]
MCArriving == [q \in Queues |-> CASE q = 1 -> Jumbo({"a"})
                                  [] q = 2 -> Jumbo({"a", "b"})
                                  [] OTHER -> Jumbo({"a", "b"}) \cup {Small}]
MCMaxFrames == [q \in Queues |-> IF q = 1 THEN 2 ELSE 1]

(* The run rx_source_zero has one queue.                                   *)
MCOneQueue == [l \in Lcores |-> <<1>>]
MCJumbo == [q \in Queues |-> Jumbo({"a", "b"})]
MCTwoFrames == [q \in Queues |-> 2]
=============================================================================
