------------------------- MODULE CaptureSplitProofs -------------------------
(***************************************************************************)
(* The theorems of CaptureSplit, for files of any contents.  Where a frame *)
(* begins is a recursive function of the buffer; what it computes is shown *)
(* by looking at the least place where it would compute something else.    *)
(***************************************************************************)
EXTENDS CaptureSplit, WellFoundedInduction, TLAPS

-----------------------------------------------------------------------------
(* A set of numbers has a least one.                                       *)
LEMMA LeastNumber ==
  ASSUME NEW T, T \subseteq Nat, T # {}
  PROVE  \E n \in T : \A m \in T : n <= m
<1>1. PICK n \in T : \A m \in T : <<m, n>> \notin OpToRel(<, Nat)
  BY NatLessThanWellFounded, WFMin
<1>2. \A m \in T : ~(m < n)
  BY <1>1 DEF OpToRel
<1> QED
  BY <1>2

(* Where the first m frames of the buffer begin, and where they end.       *)
Starts(m, f) ==
  /\ f \in [1..(m + 1) -> Nat]
  /\ f[1] = 0
  /\ \A n \in 1..m : f[n + 1] = f[n] + buffervec[n].bytes

LEMMA BufferLength == buffervec \in Seq(Frames) => Len(buffervec) \in Nat
  OBVIOUS

LEMMA FrameTypes ==
  ASSUME buffervec \in Seq(Frames), NEW n \in 1..Len(buffervec)
  PROVE  /\ buffervec[n].bytes \in Nat /\ buffervec[n].bytes > 0
         /\ buffervec[n].hdr \in Headers
<1>1. buffervec[n] \in Frames
  OBVIOUS
<1> QED
  BY <1>1 DEF Frames

(* The places exist for the first frames, and so for one frame more.       *)
LEMMA StartsExist ==
  ASSUME buffervec \in Seq(Frames)
  PROVE  \E f : Starts(Len(buffervec), f)
<1> DEFINE Missing == {m \in 0..Len(buffervec) : ~\E f : Starts(m, f)}
<1>1. Len(buffervec) \in Nat
  BY BufferLength
<1>2. SUFFICES ASSUME Missing # {}
               PROVE  FALSE
  <2>1. Len(buffervec) \in 0..Len(buffervec)
    BY <1>1
  <2> QED
    BY <1>2, <2>1
<1>3. PICK m \in Missing : \A k \in Missing : m <= k
  <2>1. Missing \subseteq Nat
    BY <1>1
  <2> HIDE DEF Missing
  <2> QED
    BY <1>2, <2>1, LeastNumber
<1>4. m \in Nat /\ m <= Len(buffervec) /\ ~\E f : Starts(m, f)
  BY <1>1, <1>3
<1>5. CASE m = 0
  <2> DEFINE f == [n \in 1..1 |-> 0]
  <2>1. f \in [1..(m + 1) -> Nat] /\ f[1] = 0 /\ 1..m = {}
    BY <1>5
  <2>2. Starts(m, f)
    BY <2>1 DEF Starts
  <2> QED
    BY <1>4, <2>2
<1>6. CASE m # 0
  <2>1. m - 1 \in 0..Len(buffervec) /\ m - 1 \notin Missing /\ m - 1 + 1 = m
    BY <1>1, <1>3, <1>4, <1>6
  <2>2. PICK f : Starts(m - 1, f)
    BY <2>1
  <2>3. /\ f \in [1..m -> Nat] /\ f[1] = 0
        /\ \A n \in 1..(m - 1) : f[n + 1] = f[n] + buffervec[n].bytes
    BY <2>1, <2>2 DEF Starts
  <2>4. m \in 1..m /\ m \in 1..Len(buffervec) /\ buffervec[m].bytes \in Nat
    BY <1>1, <1>4, <1>6, FrameTypes
  <2> DEFINE g == [n \in 1..(m + 1) |-> IF n = m + 1 THEN f[m] + buffervec[m].bytes ELSE f[n]]
  <2>5. g \in [1..(m + 1) -> Nat]
    <3>1. ASSUME NEW n \in 1..(m + 1)
          PROVE  (IF n = m + 1 THEN f[m] + buffervec[m].bytes ELSE f[n]) \in Nat
      BY <1>4, <2>3, <2>4
    <3> QED
      BY <3>1
  <2>6. g[1] = 0
    BY <1>4, <1>6, <2>3
  <2>7. ASSUME NEW n \in 1..m
        PROVE  g[n + 1] = g[n] + buffervec[n].bytes
    <3>1. n + 1 \in 1..(m + 1) /\ n \in 1..(m + 1) /\ n # m + 1
      BY <1>4
    <3>2. CASE n = m
      BY <3>1, <3>2
    <3>3. CASE n # m
      <4>1. n \in 1..(m - 1) /\ n + 1 # m + 1
        BY <1>4, <3>3
      <4> QED
        BY <2>3, <3>1, <4>1
    <3> QED
      BY <3>2, <3>3
  <2>8. Starts(m, g)
    BY <2>5, <2>6, <2>7 DEF Starts
  <2> QED
    BY <1>4, <2>8
<1> QED
  BY <1>5, <1>6

(* So the definition of StartOf says what it seems to.                     *)
LEMMA StartOfUnfolds ==
  ASSUME buffervec \in Seq(Frames)
  PROVE  StartOf = [n \in 1..(Len(buffervec) + 1) |->
                      IF n = 1 THEN 0 ELSE StartOf[n - 1] + buffervec[n - 1].bytes]
<1> DEFINE Unfolds(s) == s = [n \in 1..(Len(buffervec) + 1) |->
                                IF n = 1 THEN 0 ELSE s[n - 1] + buffervec[n - 1].bytes]
<1>1. Len(buffervec) \in Nat
  BY BufferLength
<1>2. PICK f : Starts(Len(buffervec), f)
  BY StartsExist
<1>3. ASSUME NEW n \in 1..(Len(buffervec) + 1)
      PROVE  f[n] = IF n = 1 THEN 0 ELSE f[n - 1] + buffervec[n - 1].bytes
  <2>1. n # 1 => n - 1 \in 1..Len(buffervec) /\ (n - 1) + 1 = n
    BY <1>1
  <2> QED
    BY <1>2, <2>1 DEF Starts
<1>4. f \in [1..(Len(buffervec) + 1) -> Nat]
  BY <1>2 DEF Starts
<1>5. Unfolds(f)
  BY <1>3, <1>4
<1>6. StartOf = CHOOSE s : Unfolds(s)
  BY DEF StartOf
<1> HIDE DEF Unfolds
<1>7. Unfolds(StartOf)
  BY <1>5, <1>6
<1> QED
  BY <1>7 DEF Unfolds

(* The first frame begins at 0, and each one where the last one ends.      *)
LEMMA StartOfIs ==
  ASSUME buffervec \in Seq(Frames)
  PROVE  /\ StartOf[1] = 0
         /\ \A n \in 1..Len(buffervec) : StartOf[n + 1] = StartOf[n] + buffervec[n].bytes
<1>1. Len(buffervec) \in Nat
  BY BufferLength
<1>2. \A n \in 1..(Len(buffervec) + 1) :
        StartOf[n] = IF n = 1 THEN 0 ELSE StartOf[n - 1] + buffervec[n - 1].bytes
  BY StartOfUnfolds
<1>3. 1 \in 1..(Len(buffervec) + 1)
  BY <1>1
<1>4. ASSUME NEW n \in 1..Len(buffervec)
      PROVE  n + 1 \in 1..(Len(buffervec) + 1) /\ n + 1 # 1 /\ (n + 1) - 1 = n
  BY <1>1
<1> QED
  BY <1>2, <1>3, <1>4

(* The frames follow each other, so no two begin at the same place.        *)
LEMMA StartsAscend ==
  ASSUME buffervec \in Seq(Frames), NEW j \in 1..(Len(buffervec) + 1)
  PROVE  StartOf[j] \in Nat /\ \A i \in 1..(j - 1) : StartOf[i] < StartOf[j]
<1> DEFINE Before(n) == StartOf[n] \in Nat /\ \A i \in 1..(n - 1) : StartOf[i] < StartOf[n]
           Wrong == {n \in 1..(Len(buffervec) + 1) : ~Before(n)}
<1>1. Len(buffervec) \in Nat
  BY BufferLength
<1>2. SUFFICES ASSUME Wrong # {}
               PROVE  FALSE
  BY <1>2
<1>3. PICK n \in Wrong : \A k \in Wrong : n <= k
  <2>1. Wrong \subseteq Nat
    BY <1>1
  <2> HIDE DEF Wrong
  <2> QED
    BY <1>2, <2>1, LeastNumber
<1>4. n \in 1..(Len(buffervec) + 1) /\ ~Before(n)
  OBVIOUS
<1>5. CASE n = 1
  <2>1. StartOf[n] = 0 /\ 1..(n - 1) = {}
    BY <1>5, StartOfIs
  <2> QED
    BY <1>4, <2>1
<1>6. CASE n # 1
  <2>1. PICK m : m = n - 1
    OBVIOUS
  <2>2. m \in 1..Len(buffervec) /\ m \in 1..(Len(buffervec) + 1) /\ n = m + 1 /\ ~(n <= m)
    BY <1>1, <1>4, <1>6, <2>1
  <2>3. m \notin Wrong
    BY <1>3, <2>2
  <2>4. StartOf[m] \in Nat /\ \A i \in 1..(m - 1) : StartOf[i] < StartOf[m]
    BY <2>2, <2>3
  <2>5. StartOf[n] = StartOf[m] + buffervec[m].bytes
    BY <2>2, StartOfIs
  <2>6. buffervec[m].bytes \in Nat /\ buffervec[m].bytes > 0
    BY <2>2, FrameTypes
  <2>7. StartOf[n] \in Nat /\ StartOf[m] < StartOf[n]
    BY <2>4, <2>5, <2>6
  <2>8. ASSUME NEW i \in 1..(n - 1)
        PROVE  StartOf[i] < StartOf[n]
    <3>1. i = m \/ i \in 1..(m - 1)
      BY <1>1, <2>2
    <3>2. CASE i \in 1..(m - 1)
      <4>1. i \in 1..(Len(buffervec) + 1) /\ i \notin Wrong
        <5>1. i \in 1..(Len(buffervec) + 1) /\ ~(n <= i)
          BY <1>1, <2>2, <3>2
        <5> QED
          BY <1>3, <5>1
      <4>2. StartOf[i] \in Nat
        BY <4>1
      <4> QED
        BY <2>4, <2>7, <3>2, <4>2
    <3> QED
      BY <2>7, <3>1, <3>2
  <2> QED
    BY <1>4, <2>7, <2>8
<1> QED
  BY <1>5, <1>6

LEMMA StartsInBuffer ==
  ASSUME buffervec \in Seq(Frames)
  PROVE  /\ Size \in Nat
         /\ \A n \in 1..Len(buffervec) : StartOf[n] \in Nat /\ StartOf[n] < Size
         /\ \A n, m \in 1..Len(buffervec) : StartOf[n] = StartOf[m] => n = m
<1>1. Len(buffervec) \in Nat
  BY BufferLength
<1>2. \A n \in 1..(Len(buffervec) + 1) :
        StartOf[n] \in Nat /\ \A m \in 1..(n - 1) : StartOf[m] < StartOf[n]
  BY StartsAscend
<1>3. Len(buffervec) + 1 \in 1..(Len(buffervec) + 1) /\ Len(buffervec) + 1 - 1 = Len(buffervec)
  BY <1>1
<1>4. Size \in Nat /\ \A n \in 1..Len(buffervec) : StartOf[n] < Size
  BY <1>2, <1>3 DEF Size
<1>5. \A n \in 1..Len(buffervec) : n \in 1..(Len(buffervec) + 1)
  BY <1>1
<1>6. ASSUME NEW n \in 1..Len(buffervec), NEW m \in 1..Len(buffervec), n < m
      PROVE  StartOf[n] # StartOf[m]
  <2>1. n \in 1..(m - 1)
    BY <1>1, <1>6
  <2> QED
    BY <1>2, <1>5, <2>1
<1>7. ASSUME NEW n \in 1..Len(buffervec), NEW m \in 1..Len(buffervec), n # m
      PROVE  StartOf[n] # StartOf[m]
  <2>1. n < m \/ m < n
    BY <1>1, <1>7
  <2> QED
    BY <1>6, <2>1
<1> QED
  BY <1>2, <1>4, <1>5, <1>7

-----------------------------------------------------------------------------
(* Types.                                                                  *)
PacketSizes == (rte_ether_hdr + min_packet_size)..(rte_ether_hdr + max_packet_size)
Packet == [at : Nat, size : PacketSizes]

(* Whatever is read as a header has a length.                              *)
LEMMA LengthsAreNumbers == \A t \in Lengths : t \in Nat
  BY DEF Lengths

LEMMA LimitTypes ==
  rte_ether_hdr \in Nat /\ min_packet_size \in Nat /\ max_packet_size \in Nat
  BY DEF rte_ether_hdr, min_packet_size, max_packet_size, rte_ipv4_hdr, rte_udp_hdr

LEMMA HeadersReadType ==
  ASSUME buffervec \in Seq(Frames), NEW h \in HeadersRead
  PROVE  h.total_length \in Nat
<1> DEFINE here == {n \in 1..Len(buffervec) :
                      StartOf[n] = byte_index /\ buffervec[n].bytes >= 18}
<1>1. h \in Headers
  <2>1. CASE here # {}
    <3>1. PICK n \in here : h = buffervec[n].hdr
      BY <2>1 DEF HeadersRead
    <3> QED
      BY <3>1, FrameTypes
  <2>2. CASE here = {}
    <3>1. h \in [etherType : EtherTypes, total_length : Totals]
      BY <2>2 DEF HeadersRead
    <3> QED
      BY <3>1, TotalAssumption DEF Headers
  <2> QED
    BY <2>1, <2>2
<1> QED
  BY <1>1, LengthsAreNumbers DEF Headers

LEMMA TypeStep == TypeOK /\ [Next]_vars => TypeOK'
<1> SUFFICES ASSUME TypeOK, [Next]_vars
             PROVE  TypeOK'
  OBVIOUS
<1>1. ASSUME NEW f \in Files, AddFile(f)
      PROVE  TypeOK'
  <2>1. f \in Seq(Frames) /\ buffervec \in Seq(Frames)
    BY FileAssumption DEF TypeOK
  <2>2. buffervec' \in Seq(Frames) /\ Len(buffervec') = Len(buffervec) + Len(f)
    BY <1>1, <2>1 DEF AddFile
  <2> QED
    BY <1>1, <2>2 DEF AddFile, TypeOK
<1>2. CASE CannotOpenFile \/ Split \/ Return \/ UNCHANGED vars
  BY <1>2 DEF CannotOpenFile, Split, Return, vars, TypeOK
<1>3. CASE NextPacket
  <2>1. PICK h \in HeadersRead :
          IF Accepted(h)
            THEN /\ packets' = Append(packets, [at |-> byte_index, size |-> PacketSize(h)])
                 /\ byte_index' = byte_index + PacketSize(h)
                 /\ UNCHANGED pc
            ELSE pc' = "threw" /\ UNCHANGED <<byte_index, packets>>
    BY <1>3 DEF NextPacket
  <2>2. UNCHANGED <<buffervec, unreadable>>
    BY <1>3 DEF NextPacket
  <2>3. h.total_length \in Nat
    BY <2>1, HeadersReadType DEF TypeOK
  <2>4. CASE Accepted(h)
    <3>1. PacketSize(h) \in Nat /\ PacketSize(h) \in PacketSizes
      BY <2>3, <2>4, LimitTypes DEF PacketSize, PacketSizes, Accepted
    <3>2. packets' \in Seq(Packet)
      <4>1. packets \in Seq(Packet) /\ byte_index \in Nat
        BY DEF TypeOK, Packet, PacketSizes
      <4>2. [at |-> byte_index, size |-> PacketSize(h)] \in Packet
        BY <3>1, <4>1 DEF Packet
      <4> QED
        BY <2>1, <2>4, <4>1, <4>2
    <3>3. byte_index' \in Nat /\ pc' = pc
      BY <2>1, <2>4, <3>1 DEF TypeOK
    <3> QED
      BY <2>2, <3>2, <3>3 DEF TypeOK, Packet, PacketSizes
  <2>5. CASE ~Accepted(h)
    BY <2>1, <2>2, <2>5 DEF TypeOK
  <2> QED
    BY <2>4, <2>5
<1> QED
  BY <1>1, <1>2, <1>3 DEF Next

LEMMA TypeInit == Init => TypeOK
<1> SUFFICES ASSUME Init
             PROVE  TypeOK
  OBVIOUS
<1>1. buffervec \in Seq(Frames) /\ Len(buffervec) <= MaxFrames /\ packets \in Seq(Packet)
  BY BoundAssumption DEF Init
<1> QED
  BY <1>1 DEF Init, TypeOK, Packet, PacketSizes

(***************************************************************************)
(* Every variable keeps its type; in particular no packet is smaller than  *)
(* its headers or larger than the largest size allowed, whatever bytes are *)
(* read as a header.                                                       *)
(***************************************************************************)
THEOREM TypeCorrect == Spec => []TypeOK
  BY TypeInit, TypeStep, PTL DEF Spec

-----------------------------------------------------------------------------
(* As long as whole frames have been read, byte_index is where the next    *)
(* one begins, and the packets are the frames before it.                   *)
FoundOf(n) ==
  /\ \A i \in 1..n :
       i <= Len(packets) => packets[i] = [at |-> StartOf[i], size |-> buffervec[i].bytes]
  /\ Len(packets) <= n => byte_index = StartOf[Len(packets) + 1]
  /\ n = Len(buffervec) => Len(packets) <= n
  /\ pc = "threw" => n < Len(buffervec) /\ Len(packets) >= n

FoundInv ==
  /\ TypeOK
  /\ pc = "load" => byte_index = 0 /\ packets = <<>>
  /\ unreadable => pc = "threw" /\ packets = <<>>
  /\ pc = "split" \/ pc = "done" \/ (pc = "threw" /\ ~unreadable) =>
       \A n \in 0..Len(buffervec) : WholePrefix(n) => FoundOf(n)
  /\ pc = "done" => byte_index >= Size

LEMMA FoundInit == Init => FoundInv
  BY TypeInit DEF Init, FoundInv

(* Only at the start of a frame that is not cut before its length, what is *)
(* read is its header.                                                     *)
LEMMA WholeFrameRead ==
  ASSUME TypeOK, NEW k \in 1..Len(buffervec), Whole(buffervec[k]), byte_index = StartOf[k],
         NEW h \in HeadersRead
  PROVE  Accepted(h) /\ PacketSize(h) = buffervec[k].bytes
<1> DEFINE here == {n \in 1..Len(buffervec) :
                      StartOf[n] = byte_index /\ buffervec[n].bytes >= 18}
<1>1. /\ buffervec[k].hdr.etherType = "IPv4"
      /\ buffervec[k].hdr.total_length \in min_packet_size..max_packet_size
      /\ buffervec[k].bytes = rte_ether_hdr + buffervec[k].hdr.total_length
  BY DEF Whole
<1>2. buffervec[k].bytes >= 18
  BY <1>1, LimitTypes DEF min_packet_size, rte_ether_hdr, rte_ipv4_hdr, rte_udp_hdr
<1>3. here = {k}
  BY <1>2, StartsInBuffer DEF TypeOK
<1>4. h = buffervec[k].hdr
  BY <1>3 DEF HeadersRead
<1> QED
  BY <1>1, <1>4, LimitTypes DEF Accepted, PacketSize, allowed_ethertypes

(* The loop takes the next frame if it is whole, and else may do anything. *)
LEMMA NextPacketFinds ==
  ASSUME FoundInv, TypeOK', NextPacket
  PROVE  FoundInv'
<1> DEFINE found == Len(packets)
<1>1. PICK h \in HeadersRead :
        IF Accepted(h)
          THEN /\ packets' = Append(packets, [at |-> byte_index, size |-> PacketSize(h)])
               /\ byte_index' = byte_index + PacketSize(h)
               /\ UNCHANGED pc
          ELSE pc' = "threw" /\ UNCHANGED <<byte_index, packets>>
  BY DEF NextPacket
<1>2. pc = "split" /\ byte_index < Size /\ buffervec' = buffervec /\ unreadable' = unreadable
  BY DEF NextPacket
<1>3. StartOf' = StartOf /\ Size' = Size
  BY <1>2 DEF StartOf, Size
<1>4. /\ TypeOK /\ found \in Nat /\ Len(buffervec) \in Nat /\ Size \in Nat /\ byte_index \in Nat
      /\ packets \in Seq(Packet)
  BY BufferLength, StartsInBuffer DEF FoundInv, TypeOK, Packet, PacketSizes
<1>5. ASSUME NEW n \in 0..Len(buffervec), WholePrefix(n)
      PROVE  FoundOf(n)'
  <2>1. FoundOf(n)
    BY <1>2, <1>5 DEF FoundInv
  <2>2. n = Len(buffervec) => found < n
    BY <1>2, <1>4, <2>1 DEF FoundOf, Size
  <2>3. CASE found < n
    <3>1. PICK k : k = found + 1
      OBVIOUS
    <3>2. k \in 1..n /\ k \in 1..Len(buffervec) /\ Whole(buffervec[k]) /\ byte_index = StartOf[k]
      BY <1>4, <1>5, <2>1, <2>3, <3>1 DEF WholePrefix, FoundOf
    <3>3. Accepted(h) /\ PacketSize(h) = buffervec[k].bytes
      BY <1>4, <3>2, WholeFrameRead
    <3>4. /\ packets' = Append(packets, [at |-> StartOf[k], size |-> buffervec[k].bytes])
          /\ byte_index' = StartOf[k] + buffervec[k].bytes
          /\ pc' = "split"
      BY <1>1, <1>2, <3>2, <3>3
    <3>5. /\ Len(packets') = k
          /\ packets'[k] = [at |-> StartOf[k], size |-> buffervec[k].bytes]
          /\ \A i \in 1..found : packets'[i] = packets[i]
      BY <1>4, <3>1, <3>4
    <3>6. byte_index' = StartOf[k + 1]
      BY <1>4, <3>2, <3>4, StartOfIs DEF TypeOK
    <3>7. ASSUME NEW i \in 1..n, i <= k
          PROVE  packets'[i] = [at |-> StartOf[i], size |-> buffervec[i].bytes]
      <4>1. CASE i = k
        BY <3>5, <4>1
      <4>2. CASE i # k
        <5>1. i \in 1..found
          BY <1>4, <3>1, <3>7, <4>2
        <5> QED
          BY <1>4, <2>1, <3>5, <5>1 DEF FoundOf
      <4> QED
        BY <4>1, <4>2
    <3>8. k <= n
      BY <3>2
    <3> QED
      BY <1>2, <1>3, <3>4, <3>5, <3>6, <3>7, <3>8 DEF FoundOf
  <2>4. CASE found >= n
    <3>1. n < Len(buffervec)
      BY <1>4, <1>5, <2>2, <2>4
    <3>2. CASE Accepted(h)
      <4>1. /\ Len(packets') = found + 1 /\ pc' = "split"
            /\ \A i \in 1..found : packets'[i] = packets[i]
        BY <1>1, <1>2, <1>4, <3>2
      <4>2. ASSUME NEW i \in 1..n
            PROVE  packets'[i] = [at |-> StartOf[i], size |-> buffervec[i].bytes]
        <5>1. i \in 1..found
          BY <1>4, <1>5, <2>4
        <5> QED
          BY <1>4, <2>1, <4>1, <5>1 DEF FoundOf
      <4>3. ~(Len(packets') <= n) /\ n # Len(buffervec')
        BY <1>2, <1>4, <1>5, <2>4, <3>1, <4>1
      <4>4. \A i \in 1..n : packets'[i] = [at |-> StartOf'[i], size |-> buffervec'[i].bytes]
        BY <1>2, <1>3, <4>2
      <4> QED
        BY <4>1, <4>3, <4>4 DEF FoundOf
    <3>3. CASE ~Accepted(h)
      <4>1. pc' = "threw" /\ byte_index' = byte_index /\ packets' = packets
        BY <1>1, <3>3
      <4>2. /\ \A i \in 1..n :
                 i <= Len(packets') =>
                   packets'[i] = [at |-> StartOf'[i], size |-> buffervec'[i].bytes]
            /\ Len(packets') <= n => byte_index' = StartOf'[Len(packets') + 1]
            /\ n = Len(buffervec') => Len(packets') <= n
        BY <1>2, <1>3, <2>1, <4>1 DEF FoundOf
      <4>3. n < Len(buffervec') /\ Len(packets') >= n
        BY <1>2, <2>4, <3>1, <4>1
      <4> QED
        BY <4>2, <4>3 DEF FoundOf
    <3> QED
      BY <3>2, <3>3
  <2> QED
    BY <1>4, <1>5, <2>3, <2>4
<1>6. \A n : WholePrefix(n)' <=> WholePrefix(n)
  BY <1>2 DEF WholePrefix
<1>7. pc' \in {"split", "threw"} /\ ~unreadable'
  BY <1>1, <1>2 DEF FoundInv
<1> QED
  BY <1>2, <1>5, <1>6, <1>7 DEF FoundInv

(* The other steps: only Split, which finds byte_index where the first     *)
(* frame begins, has something to show.                                    *)
LEMMA FoundStep == FoundInv /\ [Next]_vars => FoundInv'
<1> SUFFICES ASSUME FoundInv, [Next]_vars
             PROVE  FoundInv'
  OBVIOUS
<1>1. TypeOK /\ TypeOK'
  BY TypeStep DEF FoundInv
<1>2. ASSUME NEW f \in Files, AddFile(f)
      PROVE  FoundInv'
  BY <1>1, <1>2 DEF AddFile, FoundInv
<1>3. CASE CannotOpenFile
  BY <1>1, <1>3 DEF CannotOpenFile, FoundInv
<1>4. CASE Split
  <2>1. /\ pc = "load" /\ pc' = "split" /\ packets = <<>> /\ byte_index = 0 /\ ~unreadable
        /\ UNCHANGED <<buffervec, byte_index, packets, unreadable>>
    BY <1>4 DEF Split, FoundInv
  <2>2. StartOf' = StartOf /\ StartOf[1] = 0
    BY <1>1, <2>1, StartOfIs DEF StartOf, TypeOK
  <2>3. ASSUME NEW n \in 0..Len(buffervec)
        PROVE  FoundOf(n)'
    <3>1. Len(packets') = 0 /\ Len(buffervec) \in Nat
      BY <1>1, <2>1, BufferLength DEF TypeOK
    <3>2. byte_index' = StartOf'[Len(packets') + 1]
      BY <2>1, <2>2, <3>1
    <3> QED
      BY <2>1, <3>1, <3>2 DEF FoundOf
  <2> QED
    BY <1>1, <2>1, <2>3 DEF FoundInv
<1>5. CASE NextPacket
  BY <1>1, <1>5, NextPacketFinds
<1>6. CASE Return \/ UNCHANGED vars
  <2>1. UNCHANGED <<buffervec, byte_index, packets, unreadable>>
    BY <1>6 DEF Return, vars
  <2>2. StartOf' = StartOf /\ Size' = Size /\ \A n : WholePrefix(n)' <=> WholePrefix(n)
    BY <2>1 DEF StartOf, Size, WholePrefix
  <2>3. CASE Return
    <3>1. pc = "split" /\ pc' = "done" /\ byte_index >= Size
      BY <2>3 DEF Return
    <3>2. ASSUME NEW n, FoundOf(n)
          PROVE  FoundOf(n)'
      BY <2>1, <2>2, <3>1, <3>2 DEF FoundOf
    <3> QED
      BY <1>1, <2>1, <2>2, <3>1, <3>2 DEF FoundInv
  <2>4. CASE UNCHANGED vars
    <3>1. pc' = pc
      BY <2>4 DEF vars
    <3>2. ASSUME NEW n, FoundOf(n)
          PROVE  FoundOf(n)'
      BY <2>1, <2>2, <3>1, <3>2 DEF FoundOf
    <3> QED
      BY <1>1, <2>1, <2>2, <3>1, <3>2 DEF FoundInv
  <2> QED
    BY <1>6, <2>3, <2>4
<1> QED
  BY <1>2, <1>3, <1>4, <1>5, <1>6 DEF Next

(* The loop ends behind the last frame that begins in the buffer.          *)
LEMMA FoundGivesProperty == FoundInv => WholeFramesFound
<1> SUFFICES ASSUME FoundInv, NEW n \in 0..Len(buffervec), WholePrefix(n)
             PROVE  /\ \A i \in 1..n :
                         i <= Len(packets) =>
                           packets[i] = [at |-> StartOf[i], size |-> buffervec[i].bytes]
                    /\ pc = "threw" /\ ~unreadable => n < Len(buffervec) /\ Len(packets) >= n
                    /\ pc = "done" => Len(packets) >= n
                    /\ pc = "done" /\ n = Len(buffervec) => Len(packets) = n
  BY DEF WholeFramesFound
<1>1. Len(buffervec) \in Nat /\ Len(packets) \in Nat
  BY BufferLength DEF FoundInv, TypeOK
<1>2. CASE packets = <<>> /\ pc # "split" /\ pc # "done" /\ (pc = "threw" => unreadable)
  <2>1. ASSUME NEW i \in 1..n
        PROVE  ~(i <= Len(packets))
    BY <1>2
  <2> QED
    BY <1>2, <2>1
<1>3. CASE pc = "split" \/ pc = "done" \/ (pc = "threw" /\ ~unreadable)
  <2>1. FoundOf(n)
    BY <1>3 DEF FoundInv
  <2>2. ASSUME pc = "done", Len(packets) < n
        PROVE  FALSE
    <3>1. PICK k : k = Len(packets) + 1
      OBVIOUS
    <3>2. k \in 1..Len(buffervec) /\ byte_index = StartOf[k]
      BY <1>1, <2>1, <2>2, <3>1 DEF FoundOf
    <3>3. StartOf[k] \in Nat /\ StartOf[k] < Size /\ Size \in Nat
      BY <3>2, StartsInBuffer DEF FoundInv, TypeOK
    <3> QED
      BY <2>2, <3>2, <3>3 DEF FoundInv
  <2> QED
    BY <1>1, <2>1, <2>2 DEF FoundOf
<1> QED
  BY <1>2, <1>3 DEF FoundInv, TypeOK

(***************************************************************************)
(* get_ethernet_packets finds the frames of every capture one by one, up   *)
(* to the first that is not whole, and neither gives up before it nor      *)
(* stops short of it.                                                      *)
(***************************************************************************)
THEOREM WholeFramesAreFound == Spec => []WholeFramesFound
  BY FoundInit, FoundStep, FoundGivesProperty, PTL DEF Spec

-----------------------------------------------------------------------------
(* What construct_packets_for_burst makes of a payload that leaves room    *)
(* for the headers in the largest size allowed.                            *)
headers_bytes == rte_ipv4_hdr + rte_udp_hdr + DAQEthHeader
Constructed == {construct_packet(p) : p \in 0..(max_packet_size - headers_bytes)}

(* Such a packet is one get_ethernet_packets takes.                        *)
LEMMA ConstructedIsWhole == \A f \in Constructed : Whole(f)
<1> SUFFICES ASSUME NEW p \in 0..(max_packet_size - headers_bytes)
             PROVE  Whole(construct_packet(p))
  BY DEF Constructed
<1>1. /\ construct_packet(p).hdr.etherType = "IPv4"
      /\ construct_packet(p).hdr.total_length = (44 + p) % 65536
      /\ construct_packet(p).bytes = (58 + p) % 65536
  BY DEF construct_packet, max_packet_size, headers_bytes, rte_ether_hdr, rte_ipv4_hdr,
         rte_udp_hdr, DAQEthHeader
<1>2. p \in Nat /\ 44 + p <= 10000
  BY DEF max_packet_size, headers_bytes, rte_ipv4_hdr, rte_udp_hdr, DAQEthHeader
<1>3. (44 + p) % 65536 = 44 + p /\ (58 + p) % 65536 = 58 + p
  BY <1>2
<1> QED
  BY <1>1, <1>2, <1>3
     DEF Whole, max_packet_size, min_packet_size, rte_ether_hdr, rte_ipv4_hdr, rte_udp_hdr

(* The loop gives up on no capture, and finds all of it.                   *)
CaptureFound ==
  /\ pc = "threw" => unreadable
  /\ pc = "done" =>
       /\ Len(packets) = Len(buffervec)
       /\ \A i \in 1..Len(buffervec) :
            packets[i] = [at |-> StartOf[i], size |-> buffervec[i].bytes]

BufferWhole == WholePrefix(Len(buffervec))

LEMMA BufferWholeStep ==
  ASSUME Files \subseteq Seq(Constructed), TypeOK, BufferWhole, [Next]_vars
  PROVE  BufferWhole'
<1>1. ASSUME NEW f \in Files, AddFile(f)
      PROVE  BufferWhole'
  <2>1. f \in Seq(Constructed) /\ buffervec \in Seq(Frames) /\ buffervec' = buffervec \o f
    BY <1>1 DEF AddFile, TypeOK
  <2>2. f \in Seq(Frames)
    BY FileAssumption
  <2>3. ASSUME NEW i \in 1..Len(buffervec')
        PROVE  Whole(buffervec'[i])
    <3>1. CASE i <= Len(buffervec)
      <4>1. i \in 1..Len(buffervec) /\ buffervec'[i] = buffervec[i]
        BY <2>1, <2>2, <3>1
      <4> QED
        BY <4>1 DEF BufferWhole, WholePrefix
    <3>2. CASE ~(i <= Len(buffervec))
      <4>1. i - Len(buffervec) \in 1..Len(f) /\ buffervec'[i] = f[i - Len(buffervec)]
        BY <2>1, <2>2, <3>2
      <4> QED
        BY <2>1, <4>1, ConstructedIsWhole
    <3> QED
      BY <3>1, <3>2
  <2> QED
    BY <2>3 DEF BufferWhole, WholePrefix
<1>2. CASE UNCHANGED buffervec
  BY <1>2 DEF BufferWhole, WholePrefix
<1> QED
  BY <1>1, <1>2 DEF Next, CannotOpenFile, Split, NextPacket, Return, vars

(***************************************************************************)
(* The writer and the reader of packets agree: a capture of packets that   *)
(* construct_packets_for_burst made is always split, into those packets.   *)
(***************************************************************************)
THEOREM ConstructedPacketsAreFound ==
  ASSUME Files \subseteq Seq(Constructed)
  PROVE  Spec => []CaptureFound
<1>1. Init => BufferWhole
  BY DEF Init, BufferWhole, WholePrefix
<1>2. TypeOK /\ BufferWhole /\ [Next]_vars => BufferWhole'
  BY BufferWholeStep
<1>3. TypeOK /\ BufferWhole /\ WholeFramesFound => CaptureFound
  <2> SUFFICES ASSUME TypeOK, BufferWhole, WholeFramesFound
               PROVE  CaptureFound
    OBVIOUS
  <2>1. Len(buffervec) \in Nat /\ Len(buffervec) \in 0..Len(buffervec)
    BY BufferLength DEF TypeOK
  <2> QED
    BY <2>1 DEF TypeOK, BufferWhole, WholeFramesFound, CaptureFound
<1> QED
  BY <1>1, <1>2, <1>3, TypeCorrect, WholeFramesAreFound, PTL DEF Spec
=============================================================================
