---------------------------- MODULE FrameDelivery ----------------------------
(***************************************************************************)
(* What the receive path of an interface promises to the data sources: of  *)
(* the frames that arrive for a receive queue it hands over some, each at  *)
(* most once, in their order of arrival, jumbo frames only, and each to    *)
(* the source its stream is configured for.  It may lose any frame.        *)
(***************************************************************************)
EXTENDS Naturals, Sequences

CONSTANTS
  Queues,    (* Receive queues.                                            *)
  Streams,   (* Stream ids a frame may carry.                              *)
  Sources,   (* Source ids of the data sources.                            *)
  StreamMap  (* Of every queue, the source id of each configured stream.   *)

VARIABLES
  wire,   (* Of every queue, the frames that have arrived.                 *)
  handed  (* Of every queue, the frame handed over last, and to whom.      *)

Frame == [stream : Streams, jumbo : BOOLEAN]

Nothing == [n |-> 0, to |-> 0]

Init ==
  /\ wire = [q \in Queues |-> <<>>]
  /\ handed = [q \in Queues |-> Nothing]

Arrive(q, f) ==
  /\ wire' = [wire EXCEPT ![q] = Append(@, f)]
  /\ UNCHANGED handed

HandOver(q, n) ==
  /\ handed[q].n < n
  /\ wire[q][n].jumbo
  /\ wire[q][n].stream \in DOMAIN StreamMap[q]
  /\ StreamMap[q][wire[q][n].stream] \in Sources
  /\ handed' = [handed EXCEPT ![q] =
                 [n |-> n, to |-> StreamMap[q][wire[q][n].stream]]]
  /\ UNCHANGED wire

Next ==
  \E q \in Queues :
    \/ \E f \in Frame : Arrive(q, f)
    \/ \E n \in 1..Len(wire[q]) : HandOver(q, n)

Spec == Init /\ [][Next]_<<wire, handed>>
=============================================================================
