-------------------------- MODULE MCCaptureSplit --------------------------
(***************************************************************************)
(* Captures of up to three frames from files of one or two: constructed    *)
(* packets of the smallest size, of the largest size that is allowed and   *)
(* of one byte more; an ARP packet; a packet padded to the 60 bytes of the *)
(* smallest Ethernet frame; the beginning of a packet with and without its *)
(* length.                                                                 *)
(***************************************************************************)
EXTENDS CaptureSplit

Constructed == {construct_packet(p) : p \in {0, 9956, 9957}}
Padded == [hdr |-> [etherType |-> "IPv4", total_length |-> 28], bytes |-> 60]
Cut == {[hdr |-> construct_packet(0).hdr, bytes |-> b] : b \in {10, 30}}
MCFrames == Constructed \cup {ArpFrame(60), Padded} \cup Cut

MCFiles == {<<f>> : f \in MCFrames} \cup {<<construct_packet(0), ArpFrame(60)>>}
MCTotals == {27, 2048, 10000, 10001}
=============================================================================
