--------------------------- MODULE NICSenderProofs ---------------------------
(***************************************************************************)
(* Proofs about NICSender, for any lcores, boards, burst and batch sizes   *)
(* and whatever the driver takes of a burst.                               *)
(*                                                                         *)
(* The array of mbufs is offered from its start in every call, so what is  *)
(* handed over once hangs on the first call of a burst taking it whole:    *)
(* the invariant says what holds of a batch in which every call so far has *)
(* taken all it was offered.                                               *)
(***************************************************************************)
EXTENDS NICSender, FiniteSetTheorems, TLAPS

(* An lcore changes its own variables only.                                *)
Unmoved(l) ==
  /\ lpc'[l] = lpc[l] /\ board'[l] = board[l] /\ count'[l] = count[l]
  /\ pkt'[l] = pkt[l] /\ sent'[l] = sent[l] /\ nbTx'[l] = nbTx[l]
  /\ handed'[l] = handed[l] /\ short'[l] = short[l]

-----------------------------------------------------------------------------
(* Types.                                                                  *)

(* While an lcore fills and sends, its board is one of those it has.       *)
BoardInv ==
  \A l \in Cores : lpc[l] \in {"fill", "send", "free"} => board[l] < BoardsPerCore

TypeInv == TypeOK /\ BoardInv

(* The filling loop stops at the end of the batch.                         *)
LEMMA FilledType ==
  ASSUME TypeOK, NEW l \in Cores, count[l] < Batch
  PROVE  /\ Filled(l) \in 1..BurstSize
         /\ count[l] + Filled(l) \in 1..Batch
         /\ count[l] \in Nat
  BY SizeAssumption DEF TypeOK, Filled

(* How often a message is offered is a number, and more than none if an    *)
(* mbuf holds it.                                                          *)
LEMMA TimesOfferedType ==
  ASSUME NEW l, NEW m, NEW n \in Nat
  PROVE  /\ TimesOffered(l, m, n) \in Nat
         /\ (\E i \in 1..n : pkt[l][i] = m) => TimesOffered(l, m, n) >= 1
         /\ (\A i \in 1..n : pkt[l][i] # m) => TimesOffered(l, m, n) = 0
<1> DEFINE S == {i \in 1..n : pkt[l][i] = m}
<1>1. S \in SUBSET (1..n)
  OBVIOUS
<1>2. IsFiniteSet(1..n)
  BY FS_Interval
<1>3. IsFiniteSet(S) /\ Cardinality(S) \in Nat
  BY <1>1, <1>2, FS_Subset, FS_CardinalityType
<1>4. Cardinality(S) = 0 <=> S = {}
  BY <1>3, FS_EmptySet
<1> QED
  BY <1>3, <1>4 DEF TimesOffered

(* The variables have their types at the start.                            *)
LEMMA TypeInit == Init => TypeInv
<1> SUFFICES ASSUME Init
             PROVE  TypeInv
  OBVIOUS
<1>1. 0 \in 0..BoardsPerCore /\ 0 \in 0..BurstSize /\ 0 \in 0..Batch
  BY SizeAssumption
<1>2. TypeOK
  BY <1>1 DEF Init, TypeOK, NoneHanded
<1>3. BoardInv
  BY DEF Init, BoardInv
<1> QED
  BY <1>2, <1>3 DEF TypeInv

(* Every command keeps the types.                                          *)
LEMMA TypeCommand ==
  ASSUME TypeOK,
         Configure \/ ConfigureExits \/ ConfigureThrows \/ Start \/ Stop \/ CommandStep
           \/ (\E l \in Cores : LaunchWithoutEal(l)) \/ UNCHANGED vars
  PROVE  TypeOK'
<1> USE DEF confVars, cmdVars, sendVars, histVars, lcoreVars, vars
<1>1. CASE Configure \/ ConfigureExits \/ Start \/ Stop
  BY <1>1 DEF TypeOK, Configure, ConfigureExits, Start, Stop
<1>2. CASE CommandStep
  BY <1>2 DEF TypeOK, CommandStep, Launch, Launched, CleanUp, CrashIf
<1>3. CASE ConfigureThrows \/ (\E l \in Cores : LaunchWithoutEal(l)) \/ UNCHANGED vars
  BY <1>3 DEF TypeOK, ConfigureThrows, LaunchWithoutEal, CrashIf
<1> QED
  BY <1>1, <1>2, <1>3

(* Every step of an lcore keeps the types.                                 *)
LEMMA TypeLcore ==
  ASSUME TypeOK, BoardInv, NEW l \in Cores, LcoreStep(l)
  PROVE  TypeOK'
<1> USE DEF confVars, cmdVars, sendVars, histVars, lcoreVars, Running, Goto
<1>1. CASE Prepare(l) \/ Return(l)
  BY <1>1 DEF TypeOK, Prepare, Return, CrashIf
<1>8. CASE StartRound(l)
  <2>1. 0 \in 0..BoardsPerCore
    BY SizeAssumption
  <2> QED
    BY <1>8, <2>1 DEF TypeOK, StartRound
<1>2. CASE StartBatch(l)
  BY <1>2, SizeAssumption DEF TypeOK, StartBatch, CrashIf
<1>3. CASE RoundDone(l) \/ BurstSent(l)
  BY <1>3 DEF TypeOK, RoundDone, BurstSent, CrashIf
<1>4. CASE Fill(l)
  <2>1. count[l] < Batch /\ count[l] \in Nat
    BY <1>4, SizeAssumption DEF Fill, TypeOK
  <2>2. \A i \in 1..Filled(l) : MessageIn(l, i) \in Messages
    <3>1. Filled(l) \in Nat /\ count[l] + Filled(l) <= Batch /\ Batch \in Nat
      BY <2>1, FilledType, SizeAssumption
    <3> QED
      BY <2>1, <3>1 DEF MessageIn, Messages
  <2>3. pkt' \in [Cores -> [Mbufs -> Messages \cup {Old}]]
    <3>1. pkt \in [Cores -> [Mbufs -> Messages \cup {Old}]] /\ Filled(l) \in Nat
      BY <2>1, FilledType DEF TypeOK
    <3>2. \A i \in Mbufs : i <= Filled(l) => i \in 1..Filled(l)
      BY <3>1, SizeAssumption DEF Mbufs
    <3>3. [i \in Mbufs |-> IF i <= Filled(l) THEN MessageIn(l, i) ELSE pkt[l][i]]
            \in [Mbufs -> Messages \cup {Old}]
      BY <2>2, <3>1, <3>2
    <3> QED
      BY <1>4, <3>1, <3>3 DEF Fill
  <2>4. count' \in [Cores -> 0..Batch]
    BY <1>4, <2>1, FilledType DEF Fill, TypeOK
  <2> QED
    BY <1>4, <2>3, <2>4, SizeAssumption DEF Fill, TypeOK, CrashIf
<1>5. CASE BatchDone(l)
  <2>1. board[l] + 1 \in 0..BoardsPerCore
    BY <1>5, SizeAssumption DEF BatchDone, TypeOK, BoardInv
  <2> QED
    BY <1>5, <2>1, SizeAssumption DEF TypeOK, BatchDone, Mbufs, NoneHanded, Old
<1>6. ASSUME NEW n \in 0..BurstSize, TxBurst(l, n)
      PROVE  TypeOK'
  <2>1. n \in Nat /\ sent[l] + n \in 0..BurstSize /\ n \in 0..BurstSize
    BY <1>6, SizeAssumption DEF TypeOK, TxBurst, Offered
  <2>2. \A m \in Messages : handed[l][m] + TimesOffered(l, m, n) \in Nat
    BY <2>1, TimesOfferedType DEF TypeOK
  <2>3. handed' \in [Cores -> [Messages -> Nat]]
    BY <1>6, <2>2 DEF TypeOK, TxBurst
  <2>4. 1..n \subseteq Mbufs
    BY <2>1, SizeAssumption DEF Mbufs
  <2> QED
    BY <1>6, <2>1, <2>3, <2>4 DEF TypeOK, TxBurst, CrashIf
<1>7. CASE FreeUnsent(l)
  BY <1>7 DEF TypeOK, FreeUnsent, Freed, CrashIf
<1> QED
  BY <1>1, <1>2, <1>3, <1>4, <1>5, <1>6, <1>7, <1>8 DEF LcoreStep

(* No step leaves an lcore past its last board.                            *)
LEMMA BoardStep ==
  ASSUME TypeOK, BoardInv, [Next]_vars
  PROVE  BoardInv'
<1> USE DEF confVars, cmdVars, sendVars, histVars, lcoreVars, vars, Running, Goto, BoardInv
<1>1. CASE Configure \/ ConfigureExits \/ ConfigureThrows \/ Start \/ Stop \/ Launched \/ CleanUp
           \/ (\E l \in Cores : LaunchWithoutEal(l)) \/ UNCHANGED vars
  BY <1>1 DEF Configure, ConfigureExits, ConfigureThrows, Start, Stop, Launched, CleanUp,
     LaunchWithoutEal
<1>2. ASSUME NEW l \in Cores, Launch(l)
      PROVE  BoardInv'
  BY <1>2 DEF Launch, TypeOK
<1>3. ASSUME NEW l \in Cores, LcoreStep(l)
      PROVE  BoardInv'
  <2>1. CASE Prepare(l) \/ StartRound(l) \/ Return(l) \/ RoundDone(l) \/ BatchDone(l)
    BY <1>3, <2>1 DEF Prepare, StartRound, Return, RoundDone, BatchDone, TypeOK
  <2>2. CASE StartBatch(l) \/ Fill(l) \/ BurstSent(l) \/ FreeUnsent(l)
    BY <1>3, <2>2 DEF StartBatch, Fill, BurstSent, FreeUnsent, TypeOK
  <2>3. CASE \E n \in 0..BurstSize : TxBurst(l, n)
    BY <1>3, <2>3 DEF TxBurst
  <2> QED
    BY <1>3, <2>1, <2>2, <2>3 DEF LcoreStep
<1> QED
  BY <1>1, <1>2, <1>3 DEF Next, CommandStep

(* The variables keep their types.                                         *)
LEMMA TypeStep == TypeInv /\ [Next]_vars => TypeInv'
  BY TypeCommand, TypeLcore, BoardStep DEF Next, TypeInv

(***************************************************************************)
(* TypeOK: no more of a burst is sent than there is, the filling loop      *)
(* never runs past the batch, nor the loop over the boards past the last.  *)
(***************************************************************************)
THEOREM TypeCorrect == Spec => []TypeOK
<1>1. TypeInv => TypeOK
  BY DEF TypeInv
<1> QED
  BY <1>1, TypeInit, TypeStep, PTL DEF Spec

-----------------------------------------------------------------------------
(* A batch in which the driver took all it was offered: every burst was    *)
(* handed over in one call.                                                *)
Sending(l) == lpc[l] = "send" /\ sent[l] = 0

Covered(l) ==
  \A m \in 1..count[l] :
    \/ handed[l][m] >= 1
    \/ Sending(l) /\ \E i \in Mbufs : pkt[l][i] = m

WholeBursts(l) ==
  /\ lpc[l] = "send" => sent[l] = 0 \/ sent[l] = BurstSize
  /\ lpc[l] \in {"fill", "send", "free"} => Covered(l)

BatchInv == \A l \in Cores : ~short[l] => WholeBursts(l)

(* If the bursts fill the batch evenly, the count is one of whole bursts,  *)
(* and the array holds the messages of the last one and nothing else.      *)
Aligned(c) == \E j \in Nat : j * BurstSize = c

EachOnce(l) ==
  /\ lpc[l] \in {"wait", "prepare", "test", "board"} =>
       \A m \in Messages : handed[l][m] = 0
  /\ \A m \in Messages : handed[l][m] <= 1
  /\ lpc[l] \in {"fill", "send", "free"} =>
       /\ Aligned(count[l])
       /\ ~Sending(l) => \A m \in Messages : m > count[l] => handed[l][m] = 0
  /\ Sending(l) =>
       /\ \A i \in Mbufs : pkt[l][i] = count[l] - BurstSize + i
       /\ \A m \in Messages : m > count[l] - BurstSize => handed[l][m] = 0

OnceInv == \A l \in Cores : Even /\ ~short[l] => EachOnce(l)

HandInv == TypeInv /\ BatchInv /\ OnceInv

(* Burst by burst, an even batch is filled without a rest.                 *)
LEMMA EvenStep ==
  ASSUME Even, NEW c \in Nat, Aligned(c), c < Batch
  PROVE  c + BurstSize <= Batch /\ Aligned(c + BurstSize)
<1>1. PICK k \in 1..Batch : k * BurstSize = Batch
  BY DEF Even
<1>2. PICK j \in Nat : j * BurstSize = c
  BY DEF Aligned
<1>3. BurstSize \in Nat /\ BurstSize > 0 /\ Batch \in Nat /\ k \in Nat
  BY SizeAssumption
<1>4. j < k
  <2>1. \A a, b, d \in Nat : a >= b => a * d >= b * d
    OBVIOUS
  <2> QED
    BY <1>1, <1>2, <1>3, <2>1
<1>5. (j + 1) * BurstSize = c + BurstSize
  BY <1>2, <1>3
<1>6. (j + 1) * BurstSize <= k * BurstSize
  <2>1. \A a, b, d \in Nat : a <= b => a * d <= b * d
    OBVIOUS
  <2> QED
    BY <1>3, <1>4, <2>1
<1>7. c + BurstSize <= Batch
  BY <1>1, <1>5, <1>6
<1>8. Aligned(c + BurstSize)
  BY <1>5 DEF Aligned
<1> QED
  BY <1>7, <1>8

(* A step of one lcore leaves the variables of the others alone.           *)
LEMMA OthersUnmoved ==
  ASSUME TypeOK, NEW l \in Cores, NEW m \in Cores, m # l, LcoreStep(l) \/ Launch(l)
  PROVE  Unmoved(m)
<1> USE DEF confVars, cmdVars, sendVars, histVars, lcoreVars, Unmoved, Running, Goto, TypeOK
<1>1. CASE Prepare(l) \/ StartRound(l) \/ Return(l) \/ RoundDone(l) \/ BatchDone(l) \/ Launch(l)
  BY <1>1 DEF Prepare, StartRound, Return, RoundDone, BatchDone, Launch
<1>2. CASE StartBatch(l) \/ Fill(l)
  BY <1>2 DEF StartBatch, Fill
<1>3. CASE BurstSent(l) \/ FreeUnsent(l)
  BY <1>3 DEF BurstSent, FreeUnsent
<1>4. CASE \E n \in 0..BurstSize : TxBurst(l, n)
  BY <1>4 DEF TxBurst
<1> QED
  BY <1>1, <1>2, <1>3, <1>4 DEF LcoreStep

(* What holds of an lcore does not change with the others.                 *)
LEMMA UnmovedHolds ==
  ASSUME NEW l \in Cores, Unmoved(l)
  PROVE  /\ short'[l] = short[l]
         /\ WholeBursts(l) => WholeBursts(l)'
         /\ EachOnce(l) => EachOnce(l)'
  BY DEF Unmoved, WholeBursts, Covered, EachOnce, Sending

(* Between two batches, nothing of the next is handed over.                *)
LEMMA OutsideBatch ==
  ASSUME TypeOK, NEW l \in Cores,
         Launch(l) \/ Prepare(l) \/ StartRound(l) \/ Return(l) \/ RoundDone(l)
  PROVE  /\ short'[l] = short[l]
         /\ WholeBursts(l) => WholeBursts(l)'
         /\ EachOnce(l) => EachOnce(l)'
<1> USE DEF confVars, cmdVars, sendVars, histVars, lcoreVars, Running, Goto
<1>1. CASE Return(l)
  BY <1>1, UnmovedHolds DEF Return, Unmoved
<1>2. CASE Launch(l)
  <2>1. CASE lpc[l] = "wait"
    <3>1. lpc'[l] = "prepare"
      BY <1>2, <2>1 DEF Launch, TypeOK
    <3> QED
      BY <1>2, <2>1, <3>1 DEF Launch, WholeBursts, Covered, EachOnce, Sending
  <2>2. CASE lpc[l] # "wait"
    <3>1. lpc'[l] = lpc[l]
      BY <1>2, <2>2 DEF Launch, TypeOK
    <3> QED
      BY <1>2, <3>1, UnmovedHolds DEF Launch, Unmoved
  <2> QED
    BY <2>1, <2>2
<1>3. CASE Prepare(l) \/ StartRound(l) \/ RoundDone(l)
  <2>1. lpc'[l] \in {"test", "board"} /\ lpc[l] \in {"prepare", "test", "board"}
    BY <1>3 DEF Prepare, StartRound, RoundDone, TypeOK
  <2>2. UNCHANGED <<handed, short>>
    BY <1>3 DEF Prepare, StartRound, RoundDone
  <2> QED
    BY <2>1, <2>2 DEF WholeBursts, Covered, EachOnce, Sending
<1> QED
  BY <1>1, <1>2, <1>3

(* A batch begins with nothing of it handed over.                          *)
LEMMA StartBatchHolds ==
  ASSUME TypeOK, NEW l \in Cores, StartBatch(l)
  PROVE  /\ short'[l] = short[l]
         /\ WholeBursts(l)'
         /\ EachOnce(l) => EachOnce(l)'
<1>1. /\ lpc[l] = "board" /\ lpc'[l] = "fill" /\ count'[l] = 0
      /\ handed' = handed /\ short' = short
  BY DEF StartBatch, Running, Goto, TypeOK, histVars
<1>2. Aligned(0)
  BY SizeAssumption DEF Aligned
<1>3. WholeBursts(l)'
  BY <1>1 DEF WholeBursts, Covered, Sending
<1>4. ASSUME EachOnce(l)
      PROVE  EachOnce(l)'
  <2>1. \A m \in Messages : handed'[l][m] = 0
    BY <1>1, <1>4 DEF EachOnce
  <2> QED
    BY <1>1, <1>2, <2>1 DEF EachOnce, Sending, Aligned
<1> QED
  BY <1>1, <1>3, <1>4

(* What a batch has handed over is of no interest when it is done.         *)
LEMMA BatchDoneHolds ==
  ASSUME TypeOK, NEW l \in Cores, BatchDone(l)
  PROVE  WholeBursts(l)' /\ EachOnce(l)'
<1>1. lpc'[l] = "board" /\ \A m \in Messages : handed'[l][m] = 0
  BY DEF BatchDone, Goto, TypeOK, NoneHanded
<1>2. WholeBursts(l)'
  BY <1>1 DEF WholeBursts, Covered, Sending
<1>3. EachOnce(l)'
  BY <1>1 DEF EachOnce, Sending
<1> QED
  BY <1>2, <1>3

(* The array is filled with messages that were not handed over yet.        *)
LEMMA FillHolds ==
  ASSUME TypeOK, NEW l \in Cores, Fill(l)
  PROVE  /\ short'[l] = short[l]
         /\ WholeBursts(l) => WholeBursts(l)'
         /\ Even /\ EachOnce(l) => EachOnce(l)'
<1> DEFINE f == Filled(l)
<1>1. /\ f \in 1..BurstSize /\ count[l] + f \in 1..Batch /\ count[l] \in Nat
      /\ lpc[l] = "fill" /\ count[l] < Batch
  BY FilledType, SizeAssumption DEF Fill, Running, TypeOK
<1>2. /\ lpc'[l] = "send" /\ sent'[l] = 0 /\ count'[l] = count[l] + f
      /\ handed' = handed /\ short' = short
      /\ \A i \in Mbufs : pkt'[l][i] = IF i <= f THEN count[l] + i ELSE pkt[l][i]
  BY DEF Fill, Goto, TypeOK, MessageIn
<1> HIDE DEF f
<1>3. ASSUME WholeBursts(l)
      PROVE  WholeBursts(l)'
  <2>1. ASSUME NEW m \in 1..count'[l]
        PROVE  handed'[l][m] >= 1 \/ \E i \in Mbufs : pkt'[l][i] = m
    <3>1. CASE m <= count[l]
      <4>1. m \in 1..count[l]
        BY <1>1, <1>2, <3>1
      <4> QED
        BY <1>1, <1>2, <1>3, <4>1 DEF WholeBursts, Covered, Sending
    <3>2. CASE m > count[l]
      <4>1. m - count[l] \in Mbufs /\ m - count[l] <= f /\ count[l] + (m - count[l]) = m
        BY <1>1, <1>2, <3>2, SizeAssumption DEF Mbufs
      <4> QED
        BY <1>2, <4>1
    <3> QED
      BY <1>1, <1>2, <3>1, <3>2
  <2>2. Sending(l)'
    BY <1>2 DEF Sending
  <2>3. Covered(l)'
    BY <2>1, <2>2 DEF Covered
  <2> QED
    BY <1>2, <2>3 DEF WholeBursts
<1>4. ASSUME Even, EachOnce(l)
      PROVE  EachOnce(l)'
  <2>1. /\ Aligned(count[l]) /\ \A m \in Messages : m > count[l] => handed[l][m] = 0
        /\ \A m \in Messages : handed[l][m] <= 1
    BY <1>1, <1>4 DEF EachOnce, Sending
  <2>2. count[l] + BurstSize <= Batch /\ Aligned(count[l] + BurstSize)
    BY <1>1, <1>4, <2>1, EvenStep
  <2>3. f = BurstSize
    BY <2>2 DEF f, Filled
  <2>4. \A i \in Mbufs : i <= f
    BY <2>3, SizeAssumption DEF Mbufs
  <2>5. count'[l] - BurstSize = count[l]
    BY <1>1, <1>2, <2>3
  <2>6. \A i \in Mbufs : pkt'[l][i] = count'[l] - BurstSize + i
    BY <1>2, <2>4, <2>5
  <2>7. \A m \in Messages : m > count'[l] - BurstSize => handed'[l][m] = 0
    BY <1>2, <2>1, <2>5
  <2>8. Aligned(count'[l]) /\ \A m \in Messages : handed'[l][m] <= 1
    BY <1>2, <2>1, <2>2, <2>3
  <2> QED
    BY <1>2, <2>6, <2>7, <2>8 DEF EachOnce, Sending, Aligned
<1> QED
  BY <1>2, <1>3, <1>4

(* A call that takes all it was offered hands every message of the array   *)
(* over, each as often as the array holds it.                              *)
LEMMA TxBurstHolds ==
  ASSUME TypeOK, NEW l \in Cores, NEW n \in 0..BurstSize, TxBurst(l, n),
         ~short'[l], WholeBursts(l)
  PROVE  /\ ~short[l]
         /\ WholeBursts(l)'
         /\ EachOnce(l) => EachOnce(l)'
<1>1. /\ short[l] \in BOOLEAN /\ sent[l] \in 0..BurstSize /\ BurstSize \in Nat \ {0}
      /\ count[l] \in Nat
  BY SizeAssumption DEF TypeOK
<1>2. /\ lpc[l] = "send" /\ sent[l] < BurstSize /\ n <= BurstSize - sent[l]
      /\ lpc' = lpc /\ count' = count /\ pkt' = pkt
      /\ sent'[l] = sent[l] + n
      /\ \A m \in Messages : handed'[l][m] = handed[l][m] + TimesOffered(l, m, n)
  BY DEF TxBurst, Running, TypeOK, Offered
<1>3. short'[l] = (short[l] \/ n < BurstSize - sent[l])
  BY Zenon DEF TxBurst, TypeOK, Offered
<1>4. ~short[l] /\ ~(n < BurstSize - sent[l])
  BY <1>3
<1>5. sent[l] = 0 /\ n = BurstSize
  BY <1>1, <1>2, <1>4 DEF WholeBursts
<1>6. \A m \in Messages : handed[l][m] \in Nat /\ TimesOffered(l, m, n) \in Nat
  BY TimesOfferedType DEF TypeOK
<1>7. count[l] <= Batch /\ 1..count[l] \subseteq Messages
  BY SizeAssumption DEF TypeOK, Messages
<1>8. Sending(l) /\ ~Sending(l)'
  BY <1>1, <1>2, <1>5 DEF Sending
<1>9. WholeBursts(l)'
  <2>1. ASSUME NEW m \in 1..count[l]
        PROVE  handed'[l][m] >= 1
    <3>1. handed[l][m] >= 1 \/ \E i \in Mbufs : pkt[l][i] = m
      BY <1>2 DEF WholeBursts, Covered
    <3>2. (\E i \in Mbufs : pkt[l][i] = m) => TimesOffered(l, m, n) >= 1
      BY <1>5, TimesOfferedType DEF Mbufs
    <3> QED
      BY <1>2, <1>6, <1>7, <3>1, <3>2
  <2>2. lpc'[l] = "send" /\ sent'[l] = BurstSize /\ count'[l] = count[l]
    BY <1>1, <1>2, <1>5
  <2>3. \A m \in 1..count'[l] : handed'[l][m] >= 1
    BY <2>1, <2>2
  <2>4. Covered(l)'
    BY <2>3 DEF Covered
  <2> QED
    BY <2>2, <2>4 DEF WholeBursts
<1>10. ASSUME EachOnce(l)
       PROVE  EachOnce(l)'
  <2>1. /\ \A m \in Messages : handed[l][m] <= 1
        /\ Aligned(count[l])
        /\ \A i \in Mbufs : pkt[l][i] = count[l] - BurstSize + i
        /\ \A m \in Messages : m > count[l] - BurstSize => handed[l][m] = 0
    BY <1>2, <1>8, <1>10 DEF EachOnce
  <2>2. ASSUME NEW m \in Messages
        PROVE  /\ handed'[l][m] <= 1
               /\ m > count[l] => handed'[l][m] = 0
    <3>1. m \in Nat /\ m >= 1 /\ handed[l][m] \in Nat
      BY <1>6 DEF Messages
    <3>2. CASE m <= count[l] - BurstSize \/ m > count[l]
      <4>1. \A i \in 1..n : pkt[l][i] # m
        BY <1>1, <1>5, <2>1, <3>1, <3>2 DEF Mbufs
      <4>2. TimesOffered(l, m, n) = 0
        BY <4>1, TimesOfferedType
      <4> QED
        BY <1>1, <1>2, <2>1, <3>1, <3>2, <4>2
    <3>3. CASE m > count[l] - BurstSize /\ m <= count[l]
      <4>1. {i \in 1..n : pkt[l][i] = m} = {m - (count[l] - BurstSize)}
        BY <1>1, <1>5, <2>1, <3>1, <3>3 DEF Mbufs
      <4>2. TimesOffered(l, m, n) = 1
        BY <4>1, FS_Singleton DEF TimesOffered
      <4> QED
        BY <1>1, <1>2, <2>1, <3>1, <3>3, <4>2
    <3> QED
      BY <1>1, <3>1, <3>2, <3>3
  <2>3. Aligned(count'[l]) /\ lpc'[l] = "send" /\ count'[l] = count[l]
    BY <1>2, <2>1
  <2> QED
    BY <1>8, <2>2, <2>3 DEF EachOnce, Aligned
<1> QED
  BY <1>4, <1>9, <1>10

(* Freeing changes nothing of what was handed over.                        *)
LEMMA BurstEndHolds ==
  ASSUME TypeOK, NEW l \in Cores, BurstSent(l) \/ FreeUnsent(l), WholeBursts(l)
  PROVE  /\ short'[l] = short[l]
         /\ WholeBursts(l)'
         /\ EachOnce(l) => EachOnce(l)'
<1> USE DEF confVars, cmdVars, sendVars, histVars, lcoreVars, Running, Goto
<1>1. CASE BurstSent(l)
  <2>1. /\ lpc[l] = "send" /\ sent[l] >= BurstSize /\ lpc'[l] = "free"
        /\ UNCHANGED <<count, pkt, sent, handed, short>>
    BY <1>1 DEF BurstSent, TypeOK
  <2>2. sent[l] # 0
    BY <2>1, SizeAssumption DEF TypeOK
  <2> QED
    BY <2>1, <2>2 DEF WholeBursts, Covered, EachOnce, Sending
<1>2. CASE FreeUnsent(l)
  <2>1. /\ lpc[l] = "free" /\ lpc'[l] = "fill"
        /\ UNCHANGED <<count, pkt, sent, handed, short>>
    BY <1>2 DEF FreeUnsent, TypeOK
  <2> QED
    BY <2>1 DEF WholeBursts, Covered, EachOnce, Sending
<1> QED
  BY <1>1, <1>2

(* Every step keeps what holds of the batches.                             *)
LEMMA HandStep == HandInv /\ [Next]_vars => HandInv'
<1> SUFFICES ASSUME HandInv, [Next]_vars
             PROVE  HandInv'
  OBVIOUS
<1>1. TypeInv' /\ TypeOK
  BY TypeStep DEF HandInv, TypeInv
<1>2. CASE Configure \/ ConfigureExits \/ ConfigureThrows \/ Start \/ Stop \/ Launched \/ CleanUp
           \/ (\E l \in Cores : LaunchWithoutEal(l)) \/ UNCHANGED vars
  <2>1. \A l \in Cores : Unmoved(l)
    BY <1>2 DEF Configure, ConfigureExits, ConfigureThrows, Start, Stop, Launched, CleanUp,
       LaunchWithoutEal, vars, lcoreVars, sendVars, histVars, Unmoved
  <2> QED
    BY <1>1, <2>1, UnmovedHolds DEF HandInv, BatchInv, OnceInv
<1>3. ASSUME NEW l \in Cores, LcoreStep(l) \/ Launch(l)
      PROVE  HandInv'
  <2>1. ASSUME NEW m \in Cores, m # l
        PROVE  /\ ~short'[m] => WholeBursts(m)'
               /\ Even /\ ~short'[m] => EachOnce(m)'
    BY <1>1, <1>3, <2>1, OthersUnmoved, UnmovedHolds DEF HandInv, BatchInv, OnceInv
  <2>2. /\ ~short[l] => WholeBursts(l)
        /\ Even /\ ~short[l] => EachOnce(l)
    BY DEF HandInv, BatchInv, OnceInv
  <2>3. /\ ~short'[l] => WholeBursts(l)'
        /\ Even /\ ~short'[l] => EachOnce(l)'
    <3>1. CASE Launch(l) \/ Prepare(l) \/ StartRound(l) \/ Return(l) \/ RoundDone(l)
      BY <1>1, <2>2, <3>1, OutsideBatch
    <3>2. CASE StartBatch(l)
      BY <1>1, <2>2, <3>2, StartBatchHolds
    <3>6. CASE BatchDone(l)
      BY <1>1, <3>6, BatchDoneHolds
    <3>3. CASE Fill(l)
      BY <1>1, <2>2, <3>3, FillHolds
    <3>4. ASSUME NEW n \in 0..BurstSize, TxBurst(l, n)
          PROVE  /\ ~short'[l] => WholeBursts(l)'
                 /\ Even /\ ~short'[l] => EachOnce(l)'
      <4>1. ~short'[l] => ~short[l]
        BY <3>4, <1>1, Zenon DEF TxBurst, TypeOK
      <4> QED
        BY <1>1, <2>2, <3>4, <4>1, TxBurstHolds
    <3>5. CASE BurstSent(l) \/ FreeUnsent(l)
      <4>1. short' = short
        BY <3>5 DEF BurstSent, FreeUnsent, histVars
      <4> QED
        BY <1>1, <2>2, <3>5, <4>1, BurstEndHolds
    <3> QED
      BY <1>3, <3>1, <3>2, <3>3, <3>4, <3>5, <3>6 DEF LcoreStep
  <2> QED
    BY <1>1, <2>1, <2>3 DEF HandInv, BatchInv, OnceInv
<1> QED
  BY <1>2, <1>3 DEF Next, CommandStep

(* What holds of the batches holds for ever.                               *)
LEMMA HandHolds == Spec => []HandInv
<1>1. Init => HandInv
  <2> SUFFICES ASSUME Init
               PROVE  HandInv
    OBVIOUS
  <2>1. TypeInv
    BY TypeInit
  <2>2. \A l \in Cores : lpc[l] = "wait" /\ handed[l] = NoneHanded
    BY DEF Init
  <2>3. BatchInv
    BY <2>2 DEF BatchInv, WholeBursts, Covered
  <2>4. OnceInv
    BY <2>2 DEF OnceInv, EachOnce, Sending, NoneHanded
  <2> QED
    BY <2>1, <2>3, <2>4 DEF HandInv
<1> QED
  BY <1>1, HandStep, PTL DEF Spec

(***************************************************************************)
(* While the driver takes what it is offered, every message of a batch is  *)
(* handed over, and once if bursts fill the batch evenly.                  *)
(***************************************************************************)
THEOREM MessagesHandedOverOnce == Spec => []HandedOverOnce
<1>1. HandInv => HandedOverOnce
  <2> SUFFICES ASSUME HandInv, NEW l \in Cores, ~short[l]
               PROVE  /\ lpc[l] = "fill" => \A m \in 1..count[l] : handed[l][m] >= 1
                      /\ Even => \A m \in Messages : handed[l][m] <= 1
    BY DEF HandedOverOnce
  <2>1. WholeBursts(l) /\ (Even => EachOnce(l))
    BY DEF HandInv, BatchInv, OnceInv
  <2> QED
    BY <2>1 DEF WholeBursts, Covered, EachOnce, Sending
<1> QED
  BY <1>1, HandHolds, PTL
=============================================================================
