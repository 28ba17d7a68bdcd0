----------------------------- MODULE GarpSender -----------------------------
(***************************************************************************)
(* The gratuitous ARP of one interface.  garp_func announces every         *)
(* address of the interface, sleeps for a second and starts again, until   *)
(* the run marker falls.  It has one mbuf for all of it: the driver keeps  *)
(* a pointer to it in its transmit ring, and the NIC reads the mbuf when   *)
(* it gets to the descriptor, whatever the mbuf holds by then.             *)
(*                                                                         *)
(* Only the two addresses of a packet are kept; all other fields are       *)
(* written with the same values every time.  A 32-bit number is the        *)
(* sequence of its bytes, the most significant first.                      *)
(***************************************************************************)
EXTENDS Naturals, Sequences

CONSTANTS
  Addresses,   (* m_ip_addr: addresses of four bytes, in the order of the  *)
               (* configuration.                                           *)
  RingSize,    (* m_tx_ring_size.                                          *)
  SleepDrains  (* Does the NIC always empty its ring in the second between *)
               (* two rounds?  Not if the link is down or paused.          *)

Byte == 0..255
Ipv4 == [1..4 -> Byte]

ASSUME AddressAssumption == Addresses \in Seq(Ipv4) \ {<<>>}
ASSUME RingAssumption == RingSize \in Nat /\ RingSize >= Len(Addresses)
ASSUME SleepAssumption == SleepDrains \in BOOLEAN

VARIABLES
  runMarker,  (* m_run_marker.                                             *)
  pc,         (* garp_func: test, clear, sip, tip, burst, sleep, joined.   *)
  k,          (* Index in m_ip_addr_bin.                                   *)
  mbuf,       (* arp_sip and arp_tip in m_garp_bufs[0][0].                 *)
  ring,       (* The transmit ring.  Every descriptor points to that mbuf; *)
              (* the history kept here is the address it was queued for.   *)
  wire        (* History: the packet sent last, and what it was queued for.*)

threadVars == <<pc, k, mbuf>>
vars == <<runMarker, pc, k, mbuf, ring, wire>>

(***************************************************************************)
(* Conversions, on a machine that stores the least significant byte first. *)
(***************************************************************************)
Swap32(v) == <<v[4], v[3], v[2], v[1]>>
InMemory(v) == Swap32(v)

ip_address_dotdecimal_to_binary(byte1, byte2, byte3, byte4) ==
  Swap32(<<byte1, byte2, byte3, byte4>>)

(* The constructor passes the bytes of an address last to first.           *)
m_ip_addr_bin ==
  [i \in 1..Len(Addresses) |->
     LET a == Addresses[i]
     IN ip_address_dotdecimal_to_binary(a[4], a[3], a[2], a[1])]

Cleared == <<0, 0, 0, 0>>
Garp(a) == [sip |-> a, tip |-> a]

Init ==
  /\ runMarker = TRUE
  /\ pc = "test"
  /\ k = 1
  /\ mbuf = Garp(Cleared)
  /\ ring = <<>>
  /\ wire = [packet |-> Garp(Cleared), for |-> 0]

(***************************************************************************)
(* garp_func.                                                              *)
(***************************************************************************)
GarpTest ==
  /\ pc = "test"
  /\ pc' = IF runMarker THEN "clear" ELSE "joined"
  /\ k' = 1
  /\ UNCHANGED <<runMarker, mbuf, ring, wire>>

(* The sleep of a second between two rounds.                               *)
Sleep ==
  /\ pc = "sleep"
  /\ SleepDrains => ring = <<>>
  /\ pc' = "test"
  /\ UNCHANGED <<runMarker, k, mbuf, ring, wire>>

(***************************************************************************)
(* pktgen_send_garp: three writes into the mbuf, and the hand-over.        *)
(***************************************************************************)
ClearArp ==
  /\ pc = "clear"
  /\ mbuf' = Garp(Cleared)
  /\ pc' = "sip"
  /\ UNCHANGED <<runMarker, k, ring, wire>>

(* Mutant: the address is written as it is in m_ip_addr_bin.               *)
AddrFieldNoHtonl == InMemory(m_ip_addr_bin[k])

(* htonl of the address, as it lies in memory.                             *)
AddrField == InMemory(Swap32(m_ip_addr_bin[k]))

WriteSip ==
  /\ pc = "sip"
  /\ mbuf' = [mbuf EXCEPT !.sip = AddrField]
  /\ pc' = "tip"
  /\ UNCHANGED <<runMarker, k, ring, wire>>

WriteTip ==
  /\ pc = "tip"
  /\ mbuf' = [mbuf EXCEPT !.tip = AddrField]
  /\ pc' = "burst"
  /\ UNCHANGED <<runMarker, k, ring, wire>>

(* Mutant: the round ends after its first address.                         *)
NextAddressOnlyOne ==
  /\ UNCHANGED k
  /\ pc' = "sleep"

(* Mutant: no sleep between two rounds.                                    *)
NextAddressNoSleep ==
  /\ k' = (k % Len(Addresses)) + 1
  /\ pc' = "clear"

NextAddress ==
  IF k < Len(Addresses)
    THEN k' = k + 1 /\ pc' = "clear"
    ELSE UNCHANGED k /\ pc' = "sleep"

(* rte_eth_tx_burst takes the mbuf if a descriptor is free; its answer is  *)
(* not looked at.                                                          *)
TxBurst ==
  /\ pc = "burst"
  /\ ring' = IF Len(ring) < RingSize THEN Append(ring, k) ELSE ring
  /\ NextAddress
  /\ UNCHANGED <<runMarker, mbuf, wire>>

(***************************************************************************)
(* The NIC, and scrap.                                                     *)
(***************************************************************************)
Transmit ==
  /\ ring # <<>>
  /\ wire' = [packet |-> mbuf, for |-> Head(ring)]
  /\ ring' = Tail(ring)
  /\ UNCHANGED <<runMarker, threadVars>>

ClearRunMarker ==
  /\ runMarker
  /\ runMarker' = FALSE
  /\ UNCHANGED <<threadVars, ring, wire>>

Thread == GarpTest \/ Sleep \/ ClearArp \/ WriteSip \/ WriteTip \/ TxBurst

Next == Thread \/ Transmit \/ ClearRunMarker

Spec == Init /\ [][Next]_vars

(* The GARP thread is a thread of the operating system, and a NIC whose    *)
(* link is up sends what is in its ring.                                   *)
FairSpec == Spec /\ WF_vars(Thread) /\ WF_vars(Transmit)

-----------------------------------------------------------------------------
Known == {Addresses[i] : i \in 1..Len(Addresses)} \cup {Cleared}
Packets == [sip : Known, tip : Known]

(* Every variable keeps its type; in particular no packet holds bytes in   *)
(* an order other than that of the network: the three reversals between    *)
(* the configuration and the packet undo one another but for one.          *)
TypeOK ==
  /\ runMarker \in BOOLEAN
  /\ pc \in {"test", "clear", "sip", "tip", "burst", "sleep", "joined"}
  /\ k \in 1..Len(Addresses)
  /\ mbuf \in Packets
  /\ ring \in Seq(1..Len(Addresses)) /\ Len(ring) <= RingSize
  /\ wire \in [packet : Packets, for : 0..Len(Addresses)]

(* If the NIC empties its ring between two rounds, the announcement of the *)
(* address listed last is never spoiled: what is sent for it is a whole    *)
(* announcement of it, and after the round it is what was sent last.  The  *)
(* addresses before it have no such guarantee.                             *)
LastAddressAnnounced ==
  LET last == Len(Addresses)
  IN /\ wire.for = last => wire.packet = Garp(Addresses[last])
     /\ pc = "sleep" /\ ring = <<>> => wire.for = last

(* As long as the module runs, the address listed last is announced over   *)
(* and over: no address of a round, and no answer of the driver, keeps the *)
(* thread from coming back to it.                                          *)
AnnounceLast == Transmit /\ Head(ring) = Len(Addresses)
LastAddressAnnouncedAgain ==
  [](runMarker) => []<><<AnnounceLast>>_vars

(* "Send GARP": what is sent for an address is an announcement of it.      *)
AnnouncesWhatWasQueued ==
  wire.for # 0 => wire.packet = Garp(Addresses[wire.for])
=============================================================================
