--------------------------- MODULE MCSourceSetup ---------------------------
(***************************************************************************)
(* Lists of up to two outputs: two queues with any two ids, in either      *)
(* mode, of a known, an unknown or no data type; one that is not a queue.  *)
(***************************************************************************)
EXTENDS SourceSetup

MCOutputs == [isQueue : {TRUE}, uid : Uids, id : Ids, cb : BOOLEAN,
              dataType : {"WIBEthFrame", "other", "none"}]
             \cup [isQueue : {FALSE}, uid : {"q1"}, id : {1}, cb : {FALSE},
                   dataType : {"TDEFrame"}]
MCOutputLists == {<<>>} \cup {<<o>> : o \in MCOutputs}
                 \cup {<<op[1], op[2]>> : op \in {q \in MCOutputs \X MCOutputs : q[1].uid # q[2].uid}}
=============================================================================
