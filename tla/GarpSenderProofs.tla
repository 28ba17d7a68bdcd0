-------------------------- MODULE GarpSenderProofs --------------------------
(***************************************************************************)
(* Theorems about GarpSender, for any list of addresses.                   *)
(***************************************************************************)
EXTENDS GarpSender, TLAPS

last == Len(Addresses)

(* A list of addresses is not empty, and its elements are addresses.       *)
LEMMA AddressFacts ==
  /\ last \in Nat /\ last >= 1 /\ RingSize \in Nat /\ RingSize >= last
  /\ \A i \in 1..last : Addresses[i] \in Ipv4
  BY AddressAssumption, RingAssumption DEF last

(* What pktgen_send_garp writes is the address as the configuration has it:*)
(* of the reversals of constructor, conversion, htonl and memory an even   *)
(* number is left.                                                         *)
LEMMA AddrFieldIsAddress ==
  ASSUME k \in 1..last
  PROVE  AddrField = Addresses[k]
<1> DEFINE a == Addresses[k]
<1>1. a \in Ipv4
  BY AddressFacts
<1>2. m_ip_addr_bin[k] = <<a[1], a[2], a[3], a[4]>>
  BY DEF m_ip_addr_bin, ip_address_dotdecimal_to_binary, Swap32, last
<1>3. AddrField = <<a[1], a[2], a[3], a[4]>>
  BY <1>2 DEF AddrField, InMemory, Swap32
<1>4. a = <<a[1], a[2], a[3], a[4]>>
  BY <1>1 DEF Ipv4
<1> QED
  BY <1>3, <1>4

(* Type correctness: every variable keeps its type, and no packet holds    *)
(* bytes in an order other than that of the configuration.                 *)
THEOREM TypeCorrect == Spec => []TypeOK
<1>1. Init => TypeOK
  BY AddressFacts DEF Init, TypeOK, Packets, Garp, Known, last
<1>2. TypeOK /\ [Next]_vars => TypeOK'
  <2> SUFFICES ASSUME TypeOK, [Next]_vars
               PROVE  TypeOK'
    OBVIOUS
  <2>1. Garp(Cleared) \in Packets /\ Cleared \in Known
    BY DEF Garp, Packets, Known
  <2>2. k \in 1..last /\ AddrField \in Known
    BY AddrFieldIsAddress DEF TypeOK, Known, last
  <2>3. CASE GarpTest
    BY <2>3, AddressFacts DEF GarpTest, TypeOK, last
  <2>4. CASE Sleep
    BY <2>4 DEF Sleep, TypeOK
  <2>5. CASE ClearArp
    BY <2>1, <2>5 DEF ClearArp, TypeOK
  <2>6. CASE WriteSip
    BY <2>2, <2>6 DEF WriteSip, TypeOK, Packets
  <2>7. CASE WriteTip
    BY <2>2, <2>7 DEF WriteTip, TypeOK, Packets
  <2>8. CASE TxBurst
    <3>1. ring \in Seq(1..last) /\ Len(ring) \in Nat /\ Len(ring) <= RingSize
      BY DEF TypeOK, last
    <3>2. ring' \in Seq(1..last) /\ Len(ring') <= RingSize
      <4>1. CASE Len(ring) < RingSize
        <5>1. ring' = Append(ring, k)
          BY <2>8, <4>1 DEF TxBurst
        <5>2. ring' \in Seq(1..last) /\ Len(ring') = Len(ring) + 1
          BY <2>2, <3>1, <5>1
        <5> QED
          BY <3>1, <4>1, <5>2, AddressFacts
      <4>2. CASE ~(Len(ring) < RingSize)
        BY <2>8, <3>1, <4>2 DEF TxBurst
      <4> QED
        BY <4>1, <4>2
    <3>3. k' \in 1..Len(Addresses) /\ pc' \in {"clear", "sleep"}
      BY <2>2, <2>8, AddressFacts DEF TxBurst, NextAddress, last
    <3> QED
      BY <2>8, <3>2, <3>3 DEF TxBurst, TypeOK, last
  <2>9. CASE Transmit
    <3>1. Head(ring) \in 0..Len(Addresses)
      BY <2>9 DEF Transmit, TypeOK
    <3>2. ring' \in Seq(1..Len(Addresses)) /\ Len(ring') <= RingSize
      BY <2>9, AddressFacts DEF Transmit, TypeOK
    <3> QED
      BY <2>9, <3>1, <3>2 DEF Transmit, threadVars, TypeOK
  <2>10. CASE ClearRunMarker
    BY <2>10 DEF ClearRunMarker, threadVars, TypeOK
  <2>11. CASE UNCHANGED vars
    BY <2>11 DEF vars, TypeOK
  <2> QED
    BY <2>3, <2>4, <2>5, <2>6, <2>7, <2>8, <2>9, <2>10, <2>11 DEF Next, Thread
<1> QED
  BY <1>1, <1>2, PTL DEF Spec

-----------------------------------------------------------------------------
(***************************************************************************)
(* The announcement of the last address.  The ring holds descriptors of    *)
(* this round only, each queued for an address before the one in hand, so  *)
(* that it cannot be full; the mbuf is what the place of the thread says.  *)
(***************************************************************************)
Writing == pc \in {"clear", "sip", "tip", "burst"}

RingInv ==
  /\ pc = "test" => ring = <<>>
  /\ Writing => /\ Len(ring) < k
                /\ \A j \in 1..Len(ring) : ring[j] < k
  /\ pc = "sleep" => \/ ring # <<>> /\ ring[Len(ring)] = last
                     \/ ring = <<>> /\ wire.for = last
  /\ pc = "joined" => ring = <<>>

MbufInv ==
  /\ pc = "tip" => mbuf.sip = Addresses[k]
  /\ pc = "burst" => mbuf = Garp(Addresses[k])
  /\ pc = "sleep" => mbuf = Garp(Addresses[last])

WireInv == wire.for = last => wire.packet = Garp(Addresses[last])

(* Every step keeps the invariant, if the NIC empties its ring in the      *)
(* sleep between two rounds.                                               *)
LEMMA LastStep ==
  ASSUME SleepDrains, TypeOK, TypeOK', RingInv, MbufInv, WireInv, [Next]_vars
  PROVE  RingInv' /\ MbufInv' /\ WireInv'
<1>1. /\ k \in 1..last /\ last \in Nat /\ last >= 1 /\ k \in Nat
      /\ RingSize \in Nat /\ RingSize >= last
      /\ ring \in Seq(1..last) /\ Len(ring) \in Nat
      /\ AddrField = Addresses[k]
  BY AddressFacts, AddrFieldIsAddress DEF TypeOK, last
<1>2. CASE GarpTest
  <2>1. ring = <<>> /\ Len(ring) = 0 /\ ring' = <<>>
    BY <1>2 DEF GarpTest, RingInv
  <2> QED
    BY <1>2, <2>1 DEF GarpTest, RingInv, MbufInv, WireInv, Writing
<1>3. CASE Sleep
  BY <1>3 DEF Sleep, RingInv, MbufInv, WireInv, Writing
<1>4. CASE ClearArp
  BY <1>4 DEF ClearArp, RingInv, MbufInv, WireInv, Writing
<1>5. CASE WriteSip
  <2>1. mbuf'.sip = Addresses[k]
    BY <1>1, <1>5 DEF WriteSip, TypeOK, Packets
  <2> QED
    BY <1>5, <2>1 DEF WriteSip, RingInv, MbufInv, WireInv, Writing
<1>6. CASE WriteTip
  <2>1. mbuf' = Garp(Addresses[k])
    BY <1>1, <1>6 DEF WriteTip, TypeOK, Packets, MbufInv, Garp
  <2> QED
    BY <1>6, <2>1 DEF WriteTip, RingInv, MbufInv, WireInv, Writing
<1>7. CASE TxBurst
  <2>1. /\ Len(ring) < k /\ \A j \in 1..Len(ring) : ring[j] < k
        /\ mbuf = Garp(Addresses[k]) /\ mbuf' = mbuf /\ wire' = wire
    BY <1>7 DEF TxBurst, RingInv, MbufInv, Writing
  <2>2. ring' = Append(ring, k)
    BY <1>1, <1>7, <2>1 DEF TxBurst
  <2>3. /\ ring' # <<>> /\ Len(ring') = Len(ring) + 1
        /\ ring'[Len(ring) + 1] = k
        /\ \A j \in 1..Len(ring) : ring'[j] = ring[j]
    BY <1>1, <2>2
  <2>4. CASE k < last
    <3>1. k' = k + 1 /\ pc' = "clear"
      BY <1>7, <2>4 DEF TxBurst, NextAddress, last
    <3>2. Len(ring') < k' /\ \A j \in 1..Len(ring') : ring'[j] < k'
      <4>1. Len(ring') < k'
        BY <1>1, <2>1, <2>3, <3>1
      <4>2. ASSUME NEW j \in 1..Len(ring')
            PROVE  ring'[j] < k'
        <5>1. CASE j \in 1..Len(ring)
          <6>1. ring'[j] = ring[j] /\ ring[j] < k /\ ring[j] \in 1..last
            BY <1>1, <2>1, <2>3, <5>1
          <6> QED
            BY <1>1, <3>1, <6>1
        <5>2. CASE j = Len(ring) + 1
          BY <1>1, <2>3, <3>1, <5>2
        <5> QED
          BY <1>1, <2>3, <5>1, <5>2
      <4> QED
        BY <4>1, <4>2
    <3> QED
      BY <2>1, <3>1, <3>2 DEF RingInv, MbufInv, WireInv, Writing
  <2>5. CASE k = last
    <3>1. k' = k /\ pc' = "sleep"
      BY <1>1, <1>7, <2>5 DEF TxBurst, NextAddress, last
    <3> QED
      BY <2>1, <2>3, <2>5, <3>1 DEF RingInv, MbufInv, WireInv, Writing
  <2> QED
    BY <1>1, <2>4, <2>5
<1>8. CASE Transmit
  <2>1. /\ ring # <<>> /\ ring' = Tail(ring) /\ Len(ring) >= 1
        /\ wire'.packet = mbuf /\ wire'.for = ring[1]
        /\ pc' = pc /\ k' = k /\ mbuf' = mbuf
    BY <1>1, <1>8 DEF Transmit, threadVars
  <2>2. Len(ring') = Len(ring) - 1 /\ \A j \in 1..Len(ring') : ring'[j] = ring[j + 1]
    BY <1>1, <2>1
  <2>3. pc \in {"clear", "sip", "tip", "burst", "sleep"}
    BY <2>1 DEF TypeOK, RingInv
  <2>4. MbufInv'
    BY <2>1 DEF MbufInv
  <2>5. CASE Writing
    <3>1. Len(ring) < k /\ \A j \in 1..Len(ring) : ring[j] < k
      BY <2>5 DEF RingInv
    <3>2. wire'.for # last
      BY <1>1, <2>1, <3>1
    <3>3. Len(ring') < k /\ \A j \in 1..Len(ring') : ring'[j] < k
      BY <1>1, <2>1, <2>2, <3>1
    <3> QED
      BY <2>1, <2>4, <2>5, <3>2, <3>3 DEF RingInv, WireInv, Writing
  <2>6. CASE pc = "sleep"
    <3>1. ring[Len(ring)] = last /\ mbuf = Garp(Addresses[last])
      BY <2>1, <2>6 DEF RingInv, MbufInv
    <3>2. WireInv'
      BY <2>1, <3>1 DEF WireInv
    <3>3. CASE Len(ring) = 1
      <4>1. ring' = <<>> /\ wire'.for = last
        BY <1>1, <2>1, <3>1, <3>3
      <4> QED
        BY <2>1, <2>4, <2>6, <3>2, <4>1 DEF RingInv, Writing
    <3>4. CASE Len(ring) # 1
      <4> DEFINE n == Len(ring)
      <4>1. n \in Nat /\ n >= 1 /\ n # 1
        BY <1>1, <2>1, <3>4
      <4> HIDE DEF n
      <4>2. n > 1
        BY <4>1
      <4>3. Len(ring) > 1
        BY <4>2 DEF n
      <4>4. Len(ring') \in 1..Len(ring') /\ Len(ring') + 1 = Len(ring)
        BY <1>1, <2>2, <4>3
      <4>5. ring'[Len(ring')] = last
        BY <2>2, <3>1, <4>4
      <4>6. ring' # <<>>
        BY <1>1, <2>2, <4>3
      <4> QED
        BY <2>1, <2>4, <2>6, <3>2, <4>5, <4>6 DEF RingInv, Writing
    <3> QED
      BY <3>3, <3>4
  <2> QED
    BY <2>3, <2>5, <2>6 DEF Writing
<1>9. CASE ClearRunMarker
  BY <1>9 DEF ClearRunMarker, threadVars, RingInv, MbufInv, WireInv, Writing
<1>10. CASE UNCHANGED vars
  BY <1>10 DEF vars, RingInv, MbufInv, WireInv, Writing
<1> QED
  BY <1>2, <1>3, <1>4, <1>5, <1>6, <1>7, <1>8, <1>9, <1>10 DEF Next, Thread

(* For any addresses, and a ring that has room for them: if the NIC        *)
(* empties the ring while the thread sleeps, the address listed last is    *)
(* announced whole in every round, after all others.                       *)
THEOREM LastOneAnnounced ==
  SleepDrains => (Spec => []LastAddressAnnounced)
<1> SUFFICES ASSUME SleepDrains
             PROVE  Spec => []LastAddressAnnounced
  OBVIOUS
<1>1. Init => RingInv /\ MbufInv /\ WireInv
  BY AddressFacts DEF Init, RingInv, MbufInv, WireInv, Writing
<1>2. TypeOK /\ TypeOK' /\ (RingInv /\ MbufInv /\ WireInv) /\ [Next]_vars
        => (RingInv /\ MbufInv /\ WireInv)'
  BY LastStep
<1>3. RingInv /\ MbufInv /\ WireInv => LastAddressAnnounced
  BY DEF RingInv, WireInv, LastAddressAnnounced, last
<1> QED
  BY <1>1, <1>2, <1>3, TypeCorrect, PTL DEF Spec

(* An interface with a single address is announced as its configuration    *)
(* says: the one mbuf is unsafe only where it serves several addresses.    *)
THEOREM SingleAddressAnnounced ==
  SleepDrains /\ Len(Addresses) = 1 => (Spec => []AnnouncesWhatWasQueued)
<1> SUFFICES ASSUME SleepDrains, Len(Addresses) = 1
             PROVE  Spec => []AnnouncesWhatWasQueued
  OBVIOUS
<1>1. TypeOK /\ LastAddressAnnounced => AnnouncesWhatWasQueued
  <2> SUFFICES ASSUME TypeOK, LastAddressAnnounced, wire.for # 0
               PROVE  wire.packet = Garp(Addresses[wire.for])
    BY DEF AnnouncesWhatWasQueued
  <2>1. wire.for = 1
    BY DEF TypeOK
  <2> QED
    BY <2>1 DEF LastAddressAnnounced
<1> QED
  BY <1>1, TypeCorrect, LastOneAnnounced, PTL
=============================================================================
