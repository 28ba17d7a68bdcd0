---------------------------- MODULE CaptureSplit ----------------------------
(***************************************************************************)
(* A capture of Ethernet packets: add_file_contents_to_vector appends the  *)
(* bytes of files to a buffer, get_ethernet_packets cuts the buffer into   *)
(* packets by the lengths it reads in their headers.  The packets that     *)
(* construct_packets_for_burst makes are the ones the test applications    *)
(* send.                                                                   *)
(*                                                                         *)
(* Of the bytes only the structure is kept: a buffer is a sequence of      *)
(* frames, each with the number of bytes the file has of it and what its   *)
(* header says.  A header read anywhere but at the start of a frame is     *)
(* made of arbitrary bytes, of the buffer or past its end.                 *)
(***************************************************************************)
EXTENDS Naturals, Sequences

CONSTANTS
  Files,     (* What the files hold: sequences of frames.                  *)
  Totals,    (* Values arbitrary bytes may have as a length.               *)
  MaxFrames  (* Bound: frames in the buffer.                               *)

EtherTypes == {"IPv4", "ARP", "other"}
Lengths == 0..65535
Headers == [etherType : EtherTypes, total_length : Lengths]
Frames == [hdr : Headers, bytes : Nat \ {0}]

ASSUME FileAssumption == Files \subseteq Seq(Frames)
ASSUME TotalAssumption == Totals \subseteq Lengths
ASSUME BoundAssumption == MaxFrames \in Nat

(* sizeof of the headers, and of detdataformats::DAQEthHeader.             *)
rte_ether_hdr == 14
rte_ipv4_hdr == 20
rte_udp_hdr == 8
DAQEthHeader == 16

min_packet_size == rte_ipv4_hdr + rte_udp_hdr
max_packet_size == 10000
allowed_ethertypes == {"IPv4", "ARP"}

(***************************************************************************)
(* The frame construct_packets_for_burst leaves in an mbuf.  data_len and  *)
(* total_length are 16 bits wide.                                          *)
(***************************************************************************)
construct_packet(payload_bytes) ==
  LET eth_packet_bytes ==
        rte_ether_hdr + rte_ipv4_hdr + rte_udp_hdr + DAQEthHeader + payload_bytes
  IN [hdr |-> [etherType |-> "IPv4",
               total_length |-> (eth_packet_bytes - rte_ether_hdr) % 65536],
      bytes |-> eth_packet_bytes % 65536]

(* The bytes of an ARP packet at the place of the length are its protocol  *)
(* type, 0x0800.                                                           *)
ArpFrame(bytes) ==
  [hdr |-> [etherType |-> "ARP", total_length |-> 2048], bytes |-> bytes]

VARIABLES
  pc,          (* load, split, done or threw.                              *)
  buffervec,   (* The buffer.                                              *)
  byte_index,
  packets,     (* ethernet_packets: where each begins, and its size.       *)
  unreadable   (* History: a file could not be opened.                     *)

vars == <<pc, buffervec, byte_index, packets, unreadable>>

Init ==
  /\ pc = "load"
  /\ buffervec = <<>>
  /\ byte_index = 0
  /\ packets = <<>>
  /\ unreadable = FALSE

(* Where the n-th frame begins; the last value is the size of the buffer.  *)
StartOf ==
  LET start[n \in 1..(Len(buffervec) + 1)] ==
        IF n = 1 THEN 0 ELSE start[n - 1] + buffervec[n - 1].bytes
  IN start
Size == StartOf[Len(buffervec) + 1]

(***************************************************************************)
(* add_file_contents_to_vector: what the buffer held stays in it.          *)
(***************************************************************************)
AddFile(f) ==
  /\ pc = "load"
  /\ Len(buffervec) + Len(f) <= MaxFrames
  /\ buffervec' = buffervec \o f
  /\ UNCHANGED <<pc, byte_index, packets, unreadable>>

CannotOpenFile ==
  /\ pc = "load"
  /\ pc' = "threw"
  /\ unreadable' = TRUE
  /\ UNCHANGED <<buffervec, byte_index, packets>>

(***************************************************************************)
(* get_ethernet_packets.                                                   *)
(***************************************************************************)
Split ==
  /\ pc = "load"
  /\ pc' = "split"
  /\ UNCHANGED <<buffervec, byte_index, packets, unreadable>>

(* What the loop may read as the header at byte_index.  The length ends at *)
(* byte 18 of a packet.                                                    *)
HeadersRead ==
  LET here == {n \in 1..Len(buffervec) :
                 StartOf[n] = byte_index /\ buffervec[n].bytes >= 18}
  IN IF here # {}
       THEN {buffervec[n].hdr : n \in here}
       ELSE [etherType : EtherTypes, total_length : Totals]

(* Mutant: the upper limit is not tested.                                  *)
AcceptedNoMaximum(h) ==
  /\ h.etherType \in allowed_ethertypes
  /\ h.total_length >= min_packet_size

Accepted(h) ==
  /\ h.etherType \in allowed_ethertypes
  /\ h.total_length >= min_packet_size
  /\ h.total_length <= max_packet_size

(* Mutant: the Ethernet header is not part of the packet.                  *)
PacketSizeNoHeader(h) == h.total_length

PacketSize(h) == rte_ether_hdr + h.total_length

NextPacket ==
  /\ pc = "split"
  /\ byte_index < Size
  /\ \E h \in HeadersRead :
       IF Accepted(h)
         THEN /\ packets' = Append(packets, [at |-> byte_index, size |-> PacketSize(h)])
              /\ byte_index' = byte_index + PacketSize(h)
              /\ UNCHANGED pc
         ELSE pc' = "threw" /\ UNCHANGED <<byte_index, packets>>
  /\ UNCHANGED <<buffervec, unreadable>>

Return ==
  /\ pc = "split"
  /\ byte_index >= Size
  /\ pc' = "done"
  /\ UNCHANGED <<buffervec, byte_index, packets, unreadable>>

Next == (\E f \in Files : AddFile(f)) \/ CannotOpenFile \/ Split \/ NextPacket \/ Return

Spec == Init /\ [][Next]_vars

-----------------------------------------------------------------------------
(* Every variable keeps its type; a packet has at least its headers, and   *)
(* at most the largest size allowed.                                       *)
TypeOK ==
  /\ pc \in {"load", "split", "done", "threw"}
  /\ buffervec \in Seq(Frames) /\ Len(buffervec) <= MaxFrames
  /\ byte_index \in Nat
  /\ packets \in Seq([at : Nat,
                      size : (rte_ether_hdr + min_packet_size)..
                             (rte_ether_hdr + max_packet_size)])
  /\ unreadable \in BOOLEAN

(* A frame that is all there, is an IPv4 packet of an allowed length, and  *)
(* has nothing behind the packet, no padding either.                       *)
Whole(f) ==
  /\ f.hdr.etherType = "IPv4"
  /\ f.hdr.total_length \in min_packet_size..max_packet_size
  /\ f.bytes = rte_ether_hdr + f.hdr.total_length

WholePrefix(n) == \A i \in 1..n : Whole(buffervec[i])

(* Up to the first frame that is not whole, the packets found are the      *)
(* frames of the capture, one by one; whatever comes behind cannot spoil   *)
(* them, and the loop neither gives up before it nor stops short of it.    *)
WholeFramesFound ==
  \A n \in 0..Len(buffervec) : WholePrefix(n) =>
    /\ \A i \in 1..n :
         i <= Len(packets) =>
           packets[i] = [at |-> StartOf[i], size |-> buffervec[i].bytes]
    /\ pc = "threw" /\ ~unreadable => n < Len(buffervec) /\ Len(packets) >= n
    /\ pc = "done" => Len(packets) >= n
    /\ pc = "done" /\ n = Len(buffervec) => Len(packets) = n
=============================================================================
