----------------------------- MODULE QueueLists -----------------------------
(***************************************************************************)
(* How the receive queues of an interface are shared among its lcores,     *)
(* when rx_runner of each lcore goes through its part of m_rx_core_map.    *)
(* RxPath assumes it, InterfaceSetup brings it about.                      *)
(***************************************************************************)
EXTENDS Naturals, Sequences

(* Every lcore has a list of queues, and one at least.                     *)
HaveQueues(lcores, queues, queuesOf) ==
  /\ queuesOf \in [lcores -> Seq(queues)]
  /\ \A l \in lcores : queuesOf[l] # <<>>

(* Every queue is in the list of an lcore.                                 *)
AllServed(lcores, queues, queuesOf) ==
  \A q \in queues : \E l \in lcores : \E k \in 1..Len(queuesOf[l]) : queuesOf[l][k] = q

(* No queue is in two lists, nor twice in one.                             *)
NoneShared(lcores, queuesOf) ==
  \A l, m \in lcores : \A j \in 1..Len(queuesOf[l]), k \in 1..Len(queuesOf[m]) :
    queuesOf[l][j] = queuesOf[m][k] => l = m /\ j = k
=============================================================================
