------------------------- MODULE SourceSetupProofs -------------------------
(***************************************************************************)
(* Theorems about SourceSetup for any configuration, any number of sources *)
(* and any order of starts, stops and registrations.                       *)
(***************************************************************************)
EXTENDS SourceSetup, TLAPS

(* Of the outputs init has seen, each source has the model of the last one *)
(* with its id.                                                            *)
ModelInv ==
  \A s \in keys :
    \E i \in 1..(next - 1) :
      /\ outputs[i].id = s
      /\ model[s] = createSourceModel(outputs[i])
      /\ \A j \in (i + 1)..(next - 1) : outputs[j].id # s

(* The configuration has an output without a data type.                    *)
TypeMissing == \E i \in 1..Len(outputs) : outputs[i].dataType = "none"

(* The commands come after init, and no frame comes before them.           *)
PhaseInv ==
  /\ cmd # "init" => next = Len(outputs) + 1
  /\ cmd = "init" => got = {} /\ ~flowOn /\ (proc = "crashed" => TypeMissing)

(* What was delivered came from a source that is there, through the model  *)
(* it has.                                                                 *)
GotInv == \A g \in got : g[1] \in keys /\ g[2] = model[g[1]] /\ g[2] # NoModel

(* start has been at the source, and it had a model.                       *)
Visited(s) == model[s] # NoModel /\ (model[s].cb => s \in acquired)

FlowInv ==
  /\ flowOn => \A s \in keys : Visited(s)
  /\ cmd = "acquire" => \A s \in keys \ todo : Visited(s)

CrashInv ==
  proc = "crashed" =>
    \/ \E s \in keys : model[s] = NoModel
    \/ TypeMissing
    \/ acquired \ callback # {}

IInv == TypeOK /\ ModelInv /\ PhaseInv /\ GotInv /\ FlowInv /\ CrashInv

-----------------------------------------------------------------------------
(* createSourceModel answers a model or the null pointer.                  *)
LEMMA ModelType ==
  ASSUME NEW o \in Outputs
  PROVE  /\ createSourceModel(o) \in Models \cup {NoModel}
         /\ createSourceModel(o) = NoModel => o.dataType \in {"other", "none"}
         /\ createSourceModel(o) # NoModel
              => createSourceModel(o) = [uid |-> o.uid, cb |-> o.cb]
BY NoModelAssumption DEF createSourceModel, Models, Outputs

(* Every output of a configuration is a well-formed output.                *)
LEMMA OutputType ==
  ASSUME TypeOK, NEW i \in 1..Len(outputs)
  PROVE  /\ outputs \in Seq(Outputs)
         /\ Len(outputs) \in Nat
         /\ outputs[i] \in Outputs
         /\ outputs[i].id \in Ids
<1>1. outputs \in Seq(Outputs)
  BY OutputAssumption DEF TypeOK
<1>2. Len(outputs) \in Nat /\ outputs[i] \in Outputs
  BY <1>1
<1> QED BY <1>1, <1>2 DEF Outputs

LEMMA LengthType == ASSUME TypeOK PROVE Len(outputs) \in Nat
BY OutputAssumption DEF TypeOK

LEMMA InitInvariant == Init => IInv
<1> SUFFICES ASSUME Init PROVE IInv
  OBVIOUS
<1>1. Len(outputs) \in Nat
  BY OutputAssumption DEF Init
<1>2. TypeOK
  <2>1. next \in 1..(Len(outputs) + 1)
    BY <1>1 DEF Init
  <2>2. model \in [Ids -> Models \cup {NoModel}]
    BY DEF Init
  <2> QED BY <2>1, <2>2 DEF Init, TypeOK
<1>3. ModelInv /\ PhaseInv /\ GotInv /\ FlowInv /\ CrashInv
  BY DEF Init, ModelInv, PhaseInv, GotInv, FlowInv, CrashInv
<1> QED BY <1>2, <1>3 DEF IInv

-----------------------------------------------------------------------------
LEMMA AddSourceInvariant == ASSUME IInv, AddSource PROVE IInv'
<1> USE DEF AddSource, At, initVars, sinkVars
<1> DEFINE o == outputs[next]
<1>0. TypeOK /\ ModelInv /\ PhaseInv /\ GotInv /\ FlowInv /\ CrashInv
  BY DEF IInv
<1>1. Len(outputs) \in Nat /\ next \in 1..Len(outputs)
  BY <1>0, LengthType DEF TypeOK
<1>2. o \in Outputs /\ o.id \in Ids
  BY <1>0, <1>1, OutputType
<1>3. createSourceModel(o) \in Models \cup {NoModel}
  BY <1>2, ModelType
<1>4. TypeOK'
  <2>1. next' \in 1..(Len(outputs') + 1)
    BY <1>1
  <2>2. keys' \subseteq Ids /\ keys \subseteq keys'
    BY <1>0, <1>2 DEF TypeOK
  <2>3. model' \in [Ids -> Models \cup {NoModel}]
    BY <1>0, <1>3 DEF TypeOK
  <2> QED BY <1>0, <2>1, <2>2, <2>3 DEF TypeOK
<1>5. ModelInv'
  <2> SUFFICES ASSUME NEW s \in keys'
               PROVE  \E i \in 1..(next' - 1) :
                        /\ outputs'[i].id = s
                        /\ model'[s] = createSourceModel(outputs'[i])
                        /\ \A j \in (i + 1)..(next' - 1) : outputs'[j].id # s
    BY DEF ModelInv, createSourceModel
  <2>1. model \in [Ids -> Models \cup {NoModel}]
    BY <1>0 DEF TypeOK
  <2>2. CASE s = o.id
    <3>1. model'[s] = createSourceModel(o)
      BY <1>2, <2>1, <2>2
    <3>2. next \in 1..(next' - 1) /\ (next + 1)..(next' - 1) = {}
      BY <1>1
    <3> QED BY <2>2, <3>1, <3>2
  <2>3. CASE s # o.id
    <3>1. s \in keys /\ model'[s] = model[s]
      BY <1>0, <2>1, <2>3 DEF TypeOK
    <3>2. PICK i \in 1..(next - 1) :
            /\ outputs[i].id = s
            /\ model[s] = createSourceModel(outputs[i])
            /\ \A j \in (i + 1)..(next - 1) : outputs[j].id # s
      BY <1>0, <3>1 DEF ModelInv
    <3>3. i \in 1..(next' - 1)
      BY <1>1
    <3>4. \A j \in (i + 1)..(next' - 1) : j \in (i + 1)..(next - 1) \/ j = next
      BY <1>1
    <3> QED BY <2>3, <3>1, <3>2, <3>3, <3>4
  <2> QED BY <2>2, <2>3
<1>6. PhaseInv' /\ GotInv' /\ FlowInv' /\ CrashInv'
  BY <1>0 DEF PhaseInv, GotInv, FlowInv, CrashInv, TypeMissing
<1> QED BY <1>4, <1>5, <1>6 DEF IInv

-----------------------------------------------------------------------------
(* A step other than AddSource leaves the models as they are.              *)
LEMMA OtherInvariant ==
  ASSUME IInv,
         \/ InitThrows \/ FirstOfNoTypes \/ InitDone \/ StartCommand \/ EnableFlow \/ StopCommand
         \/ \E s \in Ids : AcquireNoModel(s) \/ AcquireCallback(s) \/ HandlePayload(s)
         \/ \E u \in Uids : Register(u)
         \/ UNCHANGED vars
  PROVE  IInv'
<1> USE DEF At, initVars, sinkVars
<1>0. TypeOK /\ ModelInv /\ PhaseInv /\ GotInv /\ FlowInv /\ CrashInv
  BY DEF IInv
<1>1. UNCHANGED <<outputs, next, keys, model>>
  BY DEF InitThrows, FirstOfNoTypes, InitDone, StartCommand, EnableFlow, StopCommand,
         AcquireNoModel, AcquireCallback, HandlePayload, Register, vars
<1>2. ModelInv'
  BY <1>0, <1>1 DEF ModelInv, createSourceModel
<1>a. CASE InitThrows
  <2>1. TypeOK'
    BY <1>0, <1>a DEF TypeOK, InitThrows
  <2>2. PhaseInv' /\ GotInv' /\ FlowInv' /\ CrashInv'
    BY <1>0, <1>a DEF InitThrows, PhaseInv, GotInv, FlowInv, Visited, CrashInv, TypeMissing
  <2> QED BY <1>2, <2>1, <2>2 DEF IInv
<1>k. CASE FirstOfNoTypes
  <2>1. TypeOK'
    BY <1>0, <1>k DEF TypeOK, FirstOfNoTypes
  <2>2. TypeMissing'
    BY <1>0, <1>k, LengthType DEF FirstOfNoTypes, TypeOK, TypeMissing
  <2>3. PhaseInv' /\ GotInv' /\ FlowInv' /\ CrashInv'
    BY <1>0, <1>k, <2>2 DEF FirstOfNoTypes, PhaseInv, GotInv, FlowInv, Visited, CrashInv
  <2> QED BY <1>2, <2>1, <2>3 DEF IInv
<1>b. CASE InitDone
  <2>1. TypeOK'
    BY <1>0, <1>b DEF TypeOK, InitDone
  <2>2. PhaseInv' /\ GotInv' /\ FlowInv' /\ CrashInv'
    BY <1>0, <1>b DEF InitDone, PhaseInv, GotInv, FlowInv, Visited, CrashInv, TypeMissing
  <2> QED BY <1>2, <2>1, <2>2 DEF IInv
<1>c. CASE StartCommand
  <2>1. TypeOK'
    BY <1>0, <1>c DEF TypeOK, StartCommand
  <2>2. PhaseInv' /\ GotInv' /\ FlowInv' /\ CrashInv'
    BY <1>0, <1>c DEF StartCommand, PhaseInv, GotInv, FlowInv, Visited, CrashInv, TypeMissing
  <2> QED BY <1>2, <2>1, <2>2 DEF IInv
<1>d. CASE EnableFlow
  <2>1. TypeOK'
    BY <1>0, <1>d DEF TypeOK, EnableFlow
  <2>2. PhaseInv' /\ GotInv' /\ FlowInv' /\ CrashInv'
    BY <1>0, <1>d DEF EnableFlow, PhaseInv, GotInv, FlowInv, Visited, CrashInv, TypeMissing
  <2> QED BY <1>2, <2>1, <2>2 DEF IInv
<1>e. CASE StopCommand
  <2>1. TypeOK'
    BY <1>0, <1>e DEF TypeOK, StopCommand
  <2>2. PhaseInv' /\ GotInv' /\ FlowInv' /\ CrashInv'
    BY <1>0, <1>e DEF StopCommand, PhaseInv, GotInv, FlowInv, Visited, CrashInv, TypeMissing
  <2> QED BY <1>2, <2>1, <2>2 DEF IInv
<1>f. ASSUME NEW s \in Ids, AcquireNoModel(s) PROVE IInv'
  <2>1. TypeOK'
    BY <1>0, <1>f DEF TypeOK, AcquireNoModel
  <2>2. CrashInv'
    <3>1. s \in keys' /\ model'[s] = NoModel
      BY <1>0, <1>f DEF TypeOK, AcquireNoModel
    <3> QED BY <3>1 DEF CrashInv
  <2>3. PhaseInv' /\ GotInv' /\ FlowInv'
    BY <1>0, <1>f DEF AcquireNoModel, PhaseInv, GotInv, FlowInv, Visited, TypeMissing
  <2> QED BY <1>2, <2>1, <2>2, <2>3 DEF IInv
<1>g. ASSUME NEW s \in Ids, AcquireCallback(s) PROVE IInv'
  <2>1. TypeOK'
    BY <1>0, <1>g DEF TypeOK, AcquireCallback
  <2>2. acquired \subseteq acquired' /\ (model[s].cb => s \in acquired')
    BY <1>g DEF AcquireCallback
  <2>3. FlowInv'
    <3>1. \A t \in keys : Visited(t) => Visited(t)'
      BY <1>1, <2>2 DEF Visited
    <3>2. Visited(s)'
      BY <1>g, <1>1, <2>2 DEF AcquireCallback, Visited
    <3> QED BY <1>0, <1>g, <3>1, <3>2 DEF AcquireCallback, FlowInv
  <2>4. PhaseInv' /\ GotInv' /\ CrashInv'
    BY <1>0, <1>g DEF AcquireCallback, PhaseInv, GotInv, CrashInv, TypeMissing
  <2> QED BY <1>2, <2>1, <2>3, <2>4 DEF IInv
<1>h. ASSUME NEW s \in Ids, HandlePayload(s) PROVE IInv'
  <2>1. model[s] \in Models \cup {NoModel} /\ s \in keys /\ Visited(s)
    BY <1>0, <1>h DEF TypeOK, HandlePayload, FlowInv
  <2>2. TypeOK'
    BY <1>0, <1>h, <2>1 DEF TypeOK, HandlePayload
  <2>3. CrashInv'
    BY <1>0, <1>h, <2>1 DEF HandlePayload, CrashInv, Visited, TypeMissing
  <2>4. GotInv'
    BY <1>0, <1>h, <2>1 DEF HandlePayload, GotInv, Visited
  <2>5. PhaseInv' /\ FlowInv'
    BY <1>0, <1>h DEF HandlePayload, PhaseInv, FlowInv, Visited, TypeMissing
  <2> QED BY <1>2, <2>2, <2>3, <2>4, <2>5 DEF IInv
<1>i. ASSUME NEW u \in Uids, Register(u) PROVE IInv'
  <2>1. TypeOK'
    BY <1>0, <1>i DEF TypeOK, Register
  <2>2. PhaseInv' /\ GotInv' /\ FlowInv' /\ CrashInv'
    BY <1>0, <1>i DEF Register, PhaseInv, GotInv, FlowInv, Visited, CrashInv, TypeMissing
  <2> QED BY <1>2, <2>1, <2>2 DEF IInv
<1>j. CASE UNCHANGED vars
  BY <1>0, <1>2, <1>j
  DEF vars, IInv, TypeOK, PhaseInv, GotInv, FlowInv, Visited, CrashInv, TypeMissing
<1> QED BY <1>a, <1>b, <1>c, <1>d, <1>e, <1>f, <1>g, <1>h, <1>i, <1>j, <1>k

LEMMA Invariance == Spec => []IInv
<1>1. IInv /\ [Next]_vars => IInv'
  BY AddSourceInvariant, OtherInvariant DEF Next
<1> QED BY InitInvariant, <1>1, PTL DEF Spec

-----------------------------------------------------------------------------
(* The variables of init, start and stop and of the sources keep their     *)
(* types; only sources in m_sources are visited or have a callback.        *)
THEOREM TypeCorrect == Spec => []TypeOK
<1>1. IInv => TypeOK
  BY DEF IInv
<1> QED BY <1>1, Invariance, PTL

(* Frames of a source reach the queue that init saw last for its id, for   *)
(* any list of outputs, however often ids repeat.                          *)
THEOREM FramesReachConfiguredSinks == Spec => []DeliversToConfiguredSink
<1>1. IInv => DeliversToConfiguredSink
  <2> SUFFICES ASSUME IInv, NEW g \in got
               PROVE  \E i \in 1..Len(outputs) :
                        /\ LastOutput(g[1], outputs[i])
                        /\ g[2] = [uid |-> outputs[i].uid, cb |-> outputs[i].cb]
    BY DEF DeliversToConfiguredSink
  <2>1. TypeOK /\ ModelInv /\ PhaseInv /\ GotInv
    BY DEF IInv
  <2>2. next = Len(outputs) + 1 /\ Len(outputs) \in Nat
    BY <2>1, LengthType DEF PhaseInv
  <2>3. g[1] \in keys /\ g[2] = model[g[1]] /\ g[2] # NoModel
    BY <2>1 DEF GotInv
  <2>4. PICK i \in 1..Len(outputs) :
          /\ outputs[i].id = g[1]
          /\ model[g[1]] = createSourceModel(outputs[i])
          /\ \A j \in (i + 1)..Len(outputs) : outputs[j].id # g[1]
    BY <2>1, <2>2, <2>3 DEF ModelInv
  <2>5. g[2] = [uid |-> outputs[i].uid, cb |-> outputs[i].cb]
    BY <2>1, <2>3, <2>4, OutputType, ModelType
  <2>6. LastOutput(g[1], outputs[i])
    BY <2>4 DEF LastOutput
  <2> QED BY <2>5, <2>6
<1> QED BY <1>1, Invariance, PTL

(* The process dies only of a data type without a SourceModel, of an       *)
(* output without one, or of a callback that was not registered when start *)
(* asked for it.                                                           *)
THEOREM CrashesHaveACause == Spec => []CrashHasCause
<1>1. IInv => CrashHasCause
  <2> SUFFICES ASSUME IInv, proc = "crashed", acquired \ callback = {}, ~TypeMissing
               PROVE  \E i \in 1..Len(outputs) :
                        /\ LastOutput(outputs[i].id, outputs[i])
                        /\ outputs[i].dataType = "other"
    BY DEF CrashHasCause, TypeMissing
  <2>1. TypeOK /\ ModelInv /\ PhaseInv /\ CrashInv
    BY DEF IInv
  <2>2. next = Len(outputs) + 1 /\ Len(outputs) \in Nat
    BY <2>1, LengthType DEF PhaseInv
  <2>3. PICK s \in keys : model[s] = NoModel
    BY <2>1 DEF CrashInv
  <2>4. PICK i \in 1..Len(outputs) :
          /\ outputs[i].id = s
          /\ model[s] = createSourceModel(outputs[i])
          /\ \A j \in (i + 1)..Len(outputs) : outputs[j].id # s
    BY <2>1, <2>2, <2>3 DEF ModelInv
  <2>5. outputs[i].dataType = "other"
    BY <2>1, <2>3, <2>4, OutputType, ModelType DEF TypeMissing
  <2>6. LastOutput(outputs[i].id, outputs[i])
    BY <2>4 DEF LastOutput
  <2> QED BY <2>5, <2>6
<1> QED BY <1>1, Invariance, PTL
=============================================================================
