---------------------------- MODULE SourceSetup ----------------------------
(***************************************************************************)
(* The sources of the NIC reader, from the list of outputs to the sinks:   *)
(* init makes a SourceModel for every output, start has every source in    *)
(* callback mode look its callback up in DataMoveCallbackRegistry, which   *)
(* other modules of the process fill at their own pace, and from then on   *)
(* the lcores hand frames to the sinks.                                    *)
(*                                                                         *)
(* The flow flags of all interfaces are one flag here; their interleaving  *)
(* with the lcores is the subject of ReaderControl, the content of a frame *)
(* and full queues that of RxPath.                                         *)
(***************************************************************************)
EXTENDS Naturals, Sequences

CONSTANTS
  Uids,         (* UIDs of the queues an output can be.                    *)
  Ids,          (* Source ids.                                             *)
  OutputLists,  (* The configurations: lists of outputs.                   *)
  NoModel       (* The null pointer createSourceModel may return.          *)

(* An output is a queue with a UID and a source id; cb says if the UID     *)
(* starts with "cb", dataType is what the queue carries: the first of its  *)
(* types if there are several, which is only reported.                     *)
Outputs == [isQueue : BOOLEAN, uid : Uids, id : Ids, cb : BOOLEAN,
            dataType : {"WIBEthFrame", "TDEFrame", "other", "none"}]

ASSUME OutputAssumption == OutputLists \subseteq Seq(Outputs)

(* m_callback_mode and m_sink_name.                                        *)
Models == [uid : Uids, cb : BOOLEAN]
ASSUME NoModelAssumption == NoModel \notin Models

VARIABLES
  outputs,   (* mdal->get_outputs().                                       *)
  proc,      (* up, threw (init failed) or crashed.                        *)
  cmd,       (* The command thread: init, idle, acquire.                   *)
  next,      (* The output init is at.                                     *)
  keys,      (* The keys of m_sources ...                                  *)
  model,     (* ... and what they lead to.                                 *)
  todo,      (* Sources start has still to visit.                          *)
  acquired,  (* Sources with m_callback_is_acquired set.                   *)
  callback,  (* Sources whose m_sink_callback is not null.                 *)
  registry,  (* UIDs with a callback in DataMoveCallbackRegistry.          *)
  flowOn,    (* m_lcore_enable_flow.                                       *)
  got        (* History: which sink has got frames of which source.        *)

initVars == <<next, keys, model>>
sinkVars == <<acquired, callback>>
vars == <<outputs, proc, cmd, next, keys, model, todo, acquired, callback,
          registry, flowOn, got>>

Init ==
  /\ outputs \in OutputLists
  /\ proc = "up"
  /\ cmd = "init"
  /\ next = 1
  /\ keys = {}
  /\ model = [s \in Ids |-> NoModel]
  /\ todo = {}
  /\ acquired = {}
  /\ callback = {}
  /\ registry = {}
  /\ flowOn = FALSE
  /\ got = {}

At(step) == proc = "up" /\ cmd = step

(***************************************************************************)
(* init: one source per output; no outputs, or one that is not a queue, is *)
(* an error, and a queue for which the IOManager has no sender.            *)
(***************************************************************************)
createSourceModel(o) ==
  IF o.dataType \in {"WIBEthFrame", "TDEFrame"}
    THEN [uid |-> o.uid, cb |-> o.cb]
    ELSE NoModel

InitThrows ==
  /\ At("init")
  /\ \/ outputs = <<>>
     \/ next <= Len(outputs) /\ ~outputs[next].isQueue
     \/ next <= Len(outputs) /\ ~outputs[next].cb /\ createSourceModel(outputs[next]) # NoModel
  /\ proc' = "threw"
  /\ UNCHANGED <<outputs, cmd, initVars, todo, sinkVars, registry, flowOn, got>>

(* The first of no data types is read: this may end init or the process,   *)
(* or give a text that is no known type (AddSource).                       *)
FirstOfNoTypes ==
  /\ At("init")
  /\ next <= Len(outputs) /\ outputs[next].isQueue /\ outputs[next].dataType = "none"
  /\ proc' \in {"threw", "crashed"}
  /\ UNCHANGED <<outputs, cmd, initVars, todo, sinkVars, registry, flowOn, got>>

(* Mutant: insert instead of operator[] and assignment.                    *)
AddSourceInsert ==
  /\ At("init")
  /\ next <= Len(outputs) /\ outputs[next].isQueue
  /\ LET o == outputs[next]
     IN /\ keys' = keys \cup {o.id}
        /\ model' = IF o.id \in keys THEN model
                      ELSE [model EXCEPT ![o.id] = createSourceModel(o)]
  /\ next' = next + 1
  /\ UNCHANGED <<outputs, proc, cmd, todo, sinkVars, registry, flowOn, got>>

(* A second output with the same source id takes the place of the first.   *)
AddSource ==
  /\ At("init")
  /\ next <= Len(outputs) /\ outputs[next].isQueue
  /\ LET o == outputs[next]
     IN /\ keys' = keys \cup {o.id}
        /\ model' = [model EXCEPT ![o.id] = createSourceModel(o)]
  /\ next' = next + 1
  /\ UNCHANGED <<outputs, proc, cmd, todo, sinkVars, registry, flowOn, got>>

InitDone ==
  /\ At("init")
  /\ outputs # <<>> /\ next = Len(outputs) + 1
  /\ cmd' = "idle"
  /\ UNCHANGED <<outputs, proc, initVars, todo, sinkVars, registry, flowOn, got>>

(***************************************************************************)
(* start and stop_trigger_sources.                                         *)
(***************************************************************************)
StartCommand ==
  /\ At("idle")
  /\ cmd' = "acquire"
  /\ todo' = keys
  /\ UNCHANGED <<outputs, proc, initVars, sinkVars, registry, flowOn, got>>

(* A virtual call through the pointer in m_sources.                        *)
AcquireNoModel(s) ==
  /\ At("acquire")
  /\ s \in todo /\ model[s] = NoModel
  /\ proc' = "crashed"
  /\ UNCHANGED <<outputs, cmd, initVars, todo, sinkVars, registry, flowOn, got>>

(* Mutant: the flag is never set.                                          *)
AcquireCallbackNoFlag(s) ==
  /\ At("acquire")
  /\ s \in todo /\ model[s] # NoModel
  /\ todo' = todo \ {s}
  /\ callback' = IF model[s].cb /\ model[s].uid \in registry
                   THEN callback \cup {s} ELSE callback
  /\ UNCHANGED <<outputs, proc, cmd, initVars, acquired, registry, flowOn, got>>

(* Mutant: the modes are exchanged.                                        *)
AcquireCallbackQueueMode(s) ==
  /\ At("acquire")
  /\ s \in todo /\ model[s] # NoModel
  /\ todo' = todo \ {s}
  /\ IF ~model[s].cb /\ s \notin acquired
       THEN /\ acquired' = acquired \cup {s}
            /\ callback' = IF model[s].uid \in registry THEN callback \cup {s} ELSE callback
       ELSE UNCHANGED sinkVars
  /\ UNCHANGED <<outputs, proc, cmd, initVars, registry, flowOn, got>>

(* The flag is set whether the registry had a callback or not.             *)
AcquireCallback(s) ==
  /\ At("acquire")
  /\ s \in todo /\ model[s] # NoModel
  /\ todo' = todo \ {s}
  /\ IF model[s].cb /\ s \notin acquired
       THEN /\ acquired' = acquired \cup {s}
            /\ callback' = IF model[s].uid \in registry THEN callback \cup {s} ELSE callback
       ELSE UNCHANGED sinkVars
  /\ UNCHANGED <<outputs, proc, cmd, initVars, registry, flowOn, got>>

EnableFlow ==
  /\ At("acquire")
  /\ todo = {}
  /\ cmd' = "idle"
  /\ flowOn' = TRUE
  /\ UNCHANGED <<outputs, proc, initVars, todo, sinkVars, registry, got>>

StopCommand ==
  /\ At("idle")
  /\ flowOn' = FALSE
  /\ UNCHANGED <<outputs, proc, cmd, initVars, todo, sinkVars, registry, got>>

(***************************************************************************)
(* Other modules of the process, and the lcores.                           *)
(***************************************************************************)
Register(u) ==
  /\ proc = "up"
  /\ u \notin registry
  /\ registry' = registry \cup {u}
  /\ UNCHANGED <<outputs, proc, cmd, initVars, todo, sinkVars, flowOn, got>>

(* handle_payload; a source that is not in m_sources is none of its calls. *)
HandlePayload(s) ==
  /\ proc = "up" /\ flowOn
  /\ s \in keys
  /\ IF model[s] = NoModel \/ (model[s].cb /\ s \notin callback)
       THEN proc' = "crashed" /\ UNCHANGED got
       ELSE got' = got \cup {<<s, model[s]>>} /\ UNCHANGED proc
  /\ UNCHANGED <<outputs, cmd, initVars, todo, sinkVars, registry, flowOn>>

Next ==
  \/ InitThrows \/ FirstOfNoTypes \/ AddSource \/ InitDone
  \/ StartCommand \/ EnableFlow \/ StopCommand
  \/ \E s \in Ids : AcquireNoModel(s) \/ AcquireCallback(s) \/ HandlePayload(s)
  \/ \E u \in Uids : Register(u)

Spec == Init /\ [][Next]_vars

-----------------------------------------------------------------------------
(* Every variable keeps its type; only sources in m_sources are waited for *)
(* or have a callback, and a callback is never there unasked.              *)
TypeOK ==
  /\ outputs \in OutputLists
  /\ proc \in {"up", "threw", "crashed"}
  /\ cmd \in {"init", "idle", "acquire"}
  /\ next \in 1..(Len(outputs) + 1)
  /\ keys \subseteq Ids
  /\ model \in [Ids -> Models \cup {NoModel}]
  /\ todo \subseteq keys
  /\ callback \subseteq acquired /\ acquired \subseteq keys
  /\ registry \subseteq Uids
  /\ flowOn \in BOOLEAN
  /\ got \subseteq Ids \X Models

(* The output with a source id that is listed last.                        *)
LastOutput(s, o) ==
  \E i \in 1..Len(outputs) :
    /\ outputs[i] = o /\ o.id = s
    /\ \A j \in (i + 1)..Len(outputs) : outputs[j].id # s

(* The frames of a source go to the queue the configuration lists last for *)
(* its id, through a callback exactly if the UID of that queue asks for    *)
(* one, over any number of starts and stops.                               *)
DeliversToConfiguredSink ==
  \A g \in got :
    \E i \in 1..Len(outputs) :
      LET o == outputs[i]
      IN LastOutput(g[1], o) /\ g[2] = [uid |-> o.uid, cb |-> o.cb]

(* The process dies for one of three reasons only: a source of a data type *)
(* for which there is no SourceModel, an output without a data type, or a  *)
(* callback that was not in the registry when start first asked for it.    *)
(* With all types known and all callbacks registered before the first      *)
(* start, no call goes through a null pointer.                             *)
CrashHasCause ==
  proc = "crashed" =>
    \/ \E i \in 1..Len(outputs) :
         LastOutput(outputs[i].id, outputs[i]) /\ outputs[i].dataType = "other"
    \/ \E i \in 1..Len(outputs) : outputs[i].dataType = "none"
    \/ acquired \ callback # {}
=============================================================================
