------------------------- MODULE ReaderControlProofs -------------------------
(***************************************************************************)
(* The theorems of ReaderControl.  Each group of the inductive invariant   *)
(* is a named formula, proved inductive relative to the groups before it.  *)
(***************************************************************************)
EXTENDS ReaderControl, TLAPS

-----------------------------------------------------------------------------
(* The inductive invariant.                                                *)

(* An lcore that is about to hand a frame over holds one.                  *)
FrameInHand == \A l \in Lcores : lpc[l] = "deliver" => left[l] > 0

(* A frame is accepted only once every callback has been acquired.         *)
CallbacksFirst ==
  /\ cmd = "enable" => CallbackSources \subseteq acquired
  /\ flowOn # {} => CallbackSources \subseteq acquired
  /\ \A l \in Lcores : lpc[l] = "deliver" => CallbackSources \subseteq acquired
  /\ proc # "nullcall"

(* An lcore has no late frame while its flow is enabled, and when it holds *)
(* an accepted frame with the flow disabled that frame is its first one.   *)
LateInv ==
  \A l \in Lcores :
    /\ late[l] <= 1
    /\ owner[l] \in flowOn => late[l] = 0
    /\ lpc[l] = "deliver" => late[l] = 0

(* The run marker and the place of the command thread agree.               *)
PhaseInv ==
  /\ cmd = "launch" => runMarker /\ todo \subseteq wrapped /\ cur \notin todo
  /\ cmd = "launch" /\ todoL # {} => cur \in wrapped
  /\ cmd \in {"stop", "join", "wait"} => ~runMarker
  /\ cmd = "destroy" /\ ~ExitWithoutScrap => ~runMarker
  /\ cmd = "join" => cur \in Ifaces
  /\ cmd # "launch" => todoL = {}
  /\ cmd \notin {"launch", "join"} => cur = NoIface

(* An lcore belongs to a wrapper exactly while it runs.                    *)
OwnerInv == \A l \in Lcores : lpc[l] = "wait" <=> owner[l] = NoIface

(* A thread belongs to a wrapper of m_ifaces, except while the module is   *)
(* destroyed without a scrap.                                              *)
WrappedInv ==
  cmd # "destroy" \/ ~ExitWithoutScrap =>
    /\ \A i \in Ifaces : garp[i] # "none" => i \in wrapped
    /\ \A l \in Lcores : owner[l] # NoIface => owner[l] \in wrapped

(* Scrap leaves no GARP thread behind the interfaces it has visited.       *)
QuietInv ==
  /\ ~runMarker /\ cmd \notin {"stop", "join", "wait"} => Quiet
  /\ cmd \in {"stop", "join", "wait"} =>
       \A i \in Ifaces : garp[i] # "none" =>
         (cmd # "wait" /\ i \in todo) \/ (cmd = "join" /\ cur = i)

(* How the launch of the lcores proceeds when no two interfaces share one. *)
LaunchInv ==
  /\ cmd = "conf" => Ifaces = todo \cup wrapped
  /\ runMarker /\ cmd # "launch" =>
       /\ quit = {}
       /\ \A i \in Ifaces : \A l \in LcoresOf[i] : owner[l] = i
  /\ cmd = "launch" =>
       /\ quit \subseteq todo
       /\ todoL # {} => cur \in Ifaces /\ todoL \subseteq LcoresOf[cur]
       /\ \A l \in todoL : owner[l] = NoIface
       /\ \A i \in todo : \A l \in LcoresOf[i] : owner[l] = NoIface
       /\ \A i \in Ifaces \ todo : \A l \in LcoresOf[i] \ todoL : owner[l] = i
       /\ \A l \in Lcores : owner[l] \notin todo

IInv ==
  /\ TypeOK /\ FrameInHand
  /\ CallbacksFirst /\ LateInv
  /\ PhaseInv /\ OwnerInv /\ WrappedInv /\ QuietInv

-----------------------------------------------------------------------------
(* The invariant is preserved, one lemma per group and one step per action *)
(* in each.  Types: a frame is taken off a burst only while one is left.   *)
LEMMA TypeStep ==
  TypeOK /\ FrameInHand /\ [Next]_vars => (TypeOK /\ FrameInHand)'
<1> SUFFICES ASSUME TypeOK, FrameInHand, [Next]_vars
             PROVE  (TypeOK /\ FrameInHand)'
  OBVIOUS
<1> USE IfaceAssumption, LcoreAssumption, SourceAssumption, BurstAssumption
    DEF TypeOK, FrameInHand, Commands, Endings
<1>1. CASE ConfInitEal
  BY <1>1 DEF ConfInitEal, Ready, sigVars, lcoreVars
<1>2. CASE ConfInitEalFails
  BY <1>2 DEF ConfInitEalFails, Ready, sigVars, lcoreVars
<1>3. CASE StartCommand
  BY <1>3 DEF StartCommand, Ready, sigVars, lcoreVars
<1>4. CASE StopCommand
  BY <1>4 DEF StopCommand, Ready, sigVars, lcoreVars
<1>5. CASE ScrapCommand
  BY <1>5 DEF ScrapCommand, Ready, sigVars, lcoreVars
<1>6. CASE Destroy
  BY <1>6 DEF Destroy, Ready, sigVars, lcoreVars
<1>7. ASSUME NEW i \in Ifaces, ConfIface(i)
      PROVE  (TypeOK /\ FrameInHand)'
  BY <1>7 DEF ConfIface, At, sigVars, lcoreVars
<1>8. ASSUME NEW i \in Ifaces, ConfIfaceThrows(i)
      PROVE  (TypeOK /\ FrameInHand)'
  BY <1>8 DEF ConfIfaceThrows, At, sigVars, lcoreVars
<1>9. ASSUME NEW i \in Ifaces, StartIface(i)
      PROVE  (TypeOK /\ FrameInHand)'
  BY <1>9 DEF StartIface, At, lcoreVars
<1>10. ASSUME NEW l \in Lcores, LaunchLcore(l)
      PROVE  (TypeOK /\ FrameInHand)'
  BY <1>10 DEF LaunchLcore, At, sigVars
<1>11. CASE ConfIfaceExits
  BY <1>11 DEF ConfIfaceExits, At, sigVars, lcoreVars
<1>12. CASE ConfLaunch
  BY <1>12 DEF ConfLaunch, At, sigVars, lcoreVars
<1>13. CASE ConfDone
  BY <1>13 DEF ConfDone, At, sigVars, lcoreVars
<1>14. ASSUME NEW s \in Sources, AcquireCallback(s)
      PROVE  (TypeOK /\ FrameInHand)'
  BY <1>14 DEF AcquireCallback, At, lcoreVars
<1>15. ASSUME NEW i \in Ifaces, EnableFlow(i)
      PROVE  (TypeOK /\ FrameInHand)'
  BY <1>15 DEF EnableFlow, At
<1>16. ASSUME NEW i \in Ifaces, DisableFlow(i)
      PROVE  (TypeOK /\ FrameInHand)'
  BY <1>16 DEF DisableFlow, At, lcoreVars
<1>17. CASE CallbacksAcquired
  BY <1>17 DEF CallbacksAcquired, At, sigVars, lcoreVars
<1>18. CASE FlowLoopDone
  BY <1>18 DEF FlowLoopDone, At, sigVars, lcoreVars
<1>19. ASSUME NEW i \in Ifaces, StopIface(i)
      PROVE  (TypeOK /\ FrameInHand)'
  BY <1>19 DEF StopIface, At, lcoreVars
<1>20. CASE JoinGarp
  BY <1>20 DEF JoinGarp, At, sigVars, lcoreVars
<1>21. CASE AllStopped
  BY <1>21 DEF AllStopped, At, sigVars, lcoreVars
<1>22. CASE WaitForLcores
  BY <1>22 DEF WaitForLcores, At, sigVars, lcoreVars
<1>23. ASSUME NEW i \in Ifaces, DestroyIface(i)
      PROVE  (TypeOK /\ FrameInHand)'
  BY <1>23 DEF DestroyIface, At, sigVars, lcoreVars
<1>24. CASE Destroyed
  BY <1>24 DEF Destroyed, At, sigVars, lcoreVars
<1>25. ASSUME NEW i \in Ifaces, GarpTest(i)
      PROVE  (TypeOK /\ FrameInHand)'
  BY <1>25 DEF GarpTest, ctlVars, sigVars, lcoreVars
<1>26. ASSUME NEW i \in Ifaces, GarpSend(i)
      PROVE  (TypeOK /\ FrameInHand)'
  BY <1>26 DEF GarpSend, ctlVars, sigVars, lcoreVars
<1>27. ASSUME NEW l \in Lcores, TakeBurst(l)
      PROVE  (TypeOK /\ FrameInHand)'
  BY <1>27 DEF TakeBurst, Running, ctlVars, sigVars
<1>28. ASSUME NEW l \in Lcores, ReturnFromRunner(l)
      PROVE  (TypeOK /\ FrameInHand)'
  BY <1>28 DEF ReturnFromRunner, Running, ctlVars, sigVars
<1>29. ASSUME NEW l \in Lcores, SkipFrame(l)
      PROVE  (TypeOK /\ FrameInHand)'
  BY <1>29 DEF SkipFrame, Running, ctlVars, sigVars
<1>30. ASSUME NEW l \in Lcores, AcceptFrame(l)
      PROVE  (TypeOK /\ FrameInHand)'
  BY <1>30 DEF AcceptFrame, Running, ctlVars, sigVars
<1>31. ASSUME NEW l \in Lcores, CountUnexpected(l)
      PROVE  (TypeOK /\ FrameInHand)'
  BY <1>31 DEF CountUnexpected, Running, ctlVars, sigVars
<1>32. ASSUME NEW l \in Lcores, BurstDone(l)
      PROVE  (TypeOK /\ FrameInHand)'
  BY <1>32 DEF BurstDone, Running, ctlVars, sigVars
<1>33. ASSUME NEW l \in Lcores, NEW s \in Sources, Deliver(l, s)
      PROVE  (TypeOK /\ FrameInHand)'
  BY <1>33 DEF Deliver, Running, sigVars, LateAfter, CanTake
<1>34. CASE UNCHANGED vars
  BY <1>34 DEF vars
<1>35. QED
  BY <1>1, <1>2, <1>3, <1>4, <1>5, <1>6, <1>7, <1>8, <1>9, <1>10, <1>11,
      <1>12, <1>13, <1>14, <1>15, <1>16, <1>17, <1>18, <1>19, <1>20, <1>21,
      <1>22, <1>23, <1>24, <1>25, <1>26, <1>27, <1>28, <1>29, <1>30, <1>31,
      <1>32, <1>33, <1>34 DEF Next, NewCommand, CommandStep, ConfStep,
      FlowStep, ScrapStep, DestroyStep, GarpStep, LcoreStep

(* CallbacksFirst: the flow is enabled only by a start whose first loop    *)
(* has acquired every callback, and callbacks are never given back.        *)
LEMMA CallbackStep ==
  TypeOK /\ CallbacksFirst /\ [Next]_vars => CallbacksFirst'
<1> SUFFICES ASSUME TypeOK, CallbacksFirst, [Next]_vars
             PROVE  CallbacksFirst'
  OBVIOUS
<1> USE SourceAssumption DEF TypeOK, CallbacksFirst
<1>1. CASE ConfInitEal
  BY <1>1 DEF ConfInitEal, Ready, sigVars, lcoreVars
<1>2. CASE ConfInitEalFails
  BY <1>2 DEF ConfInitEalFails, Ready, sigVars, lcoreVars
<1>3. CASE StartCommand
  BY <1>3 DEF StartCommand, Ready, sigVars, lcoreVars
<1>4. CASE StopCommand
  BY <1>4 DEF StopCommand, Ready, sigVars, lcoreVars
<1>5. CASE ScrapCommand
  BY <1>5 DEF ScrapCommand, Ready, sigVars, lcoreVars
<1>6. CASE Destroy
  BY <1>6 DEF Destroy, Ready, sigVars, lcoreVars
<1>7. ASSUME NEW i \in Ifaces, ConfIface(i)
      PROVE  CallbacksFirst'
  BY <1>7 DEF ConfIface, At, sigVars, lcoreVars
<1>8. ASSUME NEW i \in Ifaces, ConfIfaceThrows(i)
      PROVE  CallbacksFirst'
  BY <1>8 DEF ConfIfaceThrows, At, sigVars, lcoreVars
<1>9. ASSUME NEW i \in Ifaces, StartIface(i)
      PROVE  CallbacksFirst'
  BY <1>9 DEF StartIface, At, lcoreVars
<1>10. ASSUME NEW l \in Lcores, LaunchLcore(l)
      PROVE  CallbacksFirst'
  BY <1>10 DEF LaunchLcore, At, sigVars
<1>11. CASE ConfIfaceExits
  BY <1>11 DEF ConfIfaceExits, At, sigVars, lcoreVars
<1>12. CASE ConfLaunch
  BY <1>12 DEF ConfLaunch, At, sigVars, lcoreVars
<1>13. CASE ConfDone
  BY <1>13 DEF ConfDone, At, sigVars, lcoreVars
<1>14. ASSUME NEW s \in Sources, AcquireCallback(s)
      PROVE  CallbacksFirst'
  BY <1>14 DEF AcquireCallback, At, lcoreVars
<1>15. ASSUME NEW i \in Ifaces, EnableFlow(i)
      PROVE  CallbacksFirst'
  BY <1>15 DEF EnableFlow, At
<1>16. ASSUME NEW i \in Ifaces, DisableFlow(i)
      PROVE  CallbacksFirst'
  BY <1>16 DEF DisableFlow, At, lcoreVars
<1>17. CASE CallbacksAcquired
  BY <1>17 DEF CallbacksAcquired, At, sigVars, lcoreVars
<1>18. CASE FlowLoopDone
  BY <1>18 DEF FlowLoopDone, At, sigVars, lcoreVars
<1>19. ASSUME NEW i \in Ifaces, StopIface(i)
      PROVE  CallbacksFirst'
  BY <1>19 DEF StopIface, At, lcoreVars
<1>20. CASE JoinGarp
  BY <1>20 DEF JoinGarp, At, sigVars, lcoreVars
<1>21. CASE AllStopped
  BY <1>21 DEF AllStopped, At, sigVars, lcoreVars
<1>22. CASE WaitForLcores
  BY <1>22 DEF WaitForLcores, At, sigVars, lcoreVars
<1>23. ASSUME NEW i \in Ifaces, DestroyIface(i)
      PROVE  CallbacksFirst'
  BY <1>23 DEF DestroyIface, At, sigVars, lcoreVars
<1>24. CASE Destroyed
  BY <1>24 DEF Destroyed, At, sigVars, lcoreVars
<1>25. ASSUME NEW i \in Ifaces, GarpTest(i)
      PROVE  CallbacksFirst'
  BY <1>25 DEF GarpTest, ctlVars, sigVars, lcoreVars
<1>26. ASSUME NEW i \in Ifaces, GarpSend(i)
      PROVE  CallbacksFirst'
  BY <1>26 DEF GarpSend, ctlVars, sigVars, lcoreVars
<1>27. ASSUME NEW l \in Lcores, TakeBurst(l)
      PROVE  CallbacksFirst'
  BY <1>27 DEF TakeBurst, Running, ctlVars, sigVars
<1>28. ASSUME NEW l \in Lcores, ReturnFromRunner(l)
      PROVE  CallbacksFirst'
  BY <1>28 DEF ReturnFromRunner, Running, ctlVars, sigVars
<1>29. ASSUME NEW l \in Lcores, SkipFrame(l)
      PROVE  CallbacksFirst'
  BY <1>29 DEF SkipFrame, Running, ctlVars, sigVars
<1>30. ASSUME NEW l \in Lcores, AcceptFrame(l)
      PROVE  CallbacksFirst'
  BY <1>30 DEF AcceptFrame, Running, ctlVars, sigVars
<1>31. ASSUME NEW l \in Lcores, CountUnexpected(l)
      PROVE  CallbacksFirst'
  BY <1>31 DEF CountUnexpected, Running, ctlVars, sigVars
<1>32. ASSUME NEW l \in Lcores, BurstDone(l)
      PROVE  CallbacksFirst'
  BY <1>32 DEF BurstDone, Running, ctlVars, sigVars
<1>33. ASSUME NEW l \in Lcores, NEW s \in Sources, Deliver(l, s)
      PROVE  CallbacksFirst'
  BY <1>33 DEF Deliver, Running, sigVars, CanTake
<1>34. CASE UNCHANGED vars
  BY <1>34 DEF vars
<1>35. QED
  BY <1>1, <1>2, <1>3, <1>4, <1>5, <1>6, <1>7, <1>8, <1>9, <1>10, <1>11,
      <1>12, <1>13, <1>14, <1>15, <1>16, <1>17, <1>18, <1>19, <1>20, <1>21,
      <1>22, <1>23, <1>24, <1>25, <1>26, <1>27, <1>28, <1>29, <1>30, <1>31,
      <1>32, <1>33, <1>34 DEF Next, NewCommand, CommandStep, ConfStep,
      FlowStep, ScrapStep, DestroyStep, GarpStep, LcoreStep

(* LateInv: a frame is accepted with the flow enabled, when no frame is    *)
(* late; the flow is enabled again only with the count of its lcores at 0. *)
LEMMA LateStep ==
  TypeOK /\ LateInv /\ [Next]_vars => LateInv'
<1> SUFFICES ASSUME TypeOK, LateInv, [Next]_vars
             PROVE  LateInv'
  OBVIOUS
<1> USE IfaceAssumption DEF TypeOK, LateInv
<1>1. CASE ConfInitEal
  BY <1>1 DEF ConfInitEal, Ready, sigVars, lcoreVars
<1>2. CASE ConfInitEalFails
  BY <1>2 DEF ConfInitEalFails, Ready, sigVars, lcoreVars
<1>3. CASE StartCommand
  BY <1>3 DEF StartCommand, Ready, sigVars, lcoreVars
<1>4. CASE StopCommand
  BY <1>4 DEF StopCommand, Ready, sigVars, lcoreVars
<1>5. CASE ScrapCommand
  BY <1>5 DEF ScrapCommand, Ready, sigVars, lcoreVars
<1>6. CASE Destroy
  BY <1>6 DEF Destroy, Ready, sigVars, lcoreVars
<1>7. ASSUME NEW i \in Ifaces, ConfIface(i)
      PROVE  LateInv'
  BY <1>7 DEF ConfIface, At, sigVars, lcoreVars
<1>8. ASSUME NEW i \in Ifaces, ConfIfaceThrows(i)
      PROVE  LateInv'
  BY <1>8 DEF ConfIfaceThrows, At, sigVars, lcoreVars
<1>9. ASSUME NEW i \in Ifaces, StartIface(i)
      PROVE  LateInv'
  BY <1>9 DEF StartIface, At, lcoreVars
<1>10. ASSUME NEW l \in Lcores, LaunchLcore(l)
      PROVE  LateInv'
  BY <1>10 DEF LaunchLcore, At, sigVars
<1>11. CASE ConfIfaceExits
  BY <1>11 DEF ConfIfaceExits, At, sigVars, lcoreVars
<1>12. CASE ConfLaunch
  BY <1>12 DEF ConfLaunch, At, sigVars, lcoreVars
<1>13. CASE ConfDone
  BY <1>13 DEF ConfDone, At, sigVars, lcoreVars
<1>14. ASSUME NEW s \in Sources, AcquireCallback(s)
      PROVE  LateInv'
  BY <1>14 DEF AcquireCallback, At, lcoreVars
<1>15. ASSUME NEW i \in Ifaces, EnableFlow(i)
      PROVE  LateInv'
  BY <1>15 DEF EnableFlow, At
<1>16. ASSUME NEW i \in Ifaces, DisableFlow(i)
      PROVE  LateInv'
  BY <1>16 DEF DisableFlow, At, lcoreVars
<1>17. CASE CallbacksAcquired
  BY <1>17 DEF CallbacksAcquired, At, sigVars, lcoreVars
<1>18. CASE FlowLoopDone
  BY <1>18 DEF FlowLoopDone, At, sigVars, lcoreVars
<1>19. ASSUME NEW i \in Ifaces, StopIface(i)
      PROVE  LateInv'
  BY <1>19 DEF StopIface, At, lcoreVars
<1>20. CASE JoinGarp
  BY <1>20 DEF JoinGarp, At, sigVars, lcoreVars
<1>21. CASE AllStopped
  BY <1>21 DEF AllStopped, At, sigVars, lcoreVars
<1>22. CASE WaitForLcores
  BY <1>22 DEF WaitForLcores, At, sigVars, lcoreVars
<1>23. ASSUME NEW i \in Ifaces, DestroyIface(i)
      PROVE  LateInv'
  BY <1>23 DEF DestroyIface, At, sigVars, lcoreVars
<1>24. CASE Destroyed
  BY <1>24 DEF Destroyed, At, sigVars, lcoreVars
<1>25. ASSUME NEW i \in Ifaces, GarpTest(i)
      PROVE  LateInv'
  BY <1>25 DEF GarpTest, ctlVars, sigVars, lcoreVars
<1>26. ASSUME NEW i \in Ifaces, GarpSend(i)
      PROVE  LateInv'
  BY <1>26 DEF GarpSend, ctlVars, sigVars, lcoreVars
<1>27. ASSUME NEW l \in Lcores, TakeBurst(l)
      PROVE  LateInv'
  BY <1>27 DEF TakeBurst, Running, ctlVars, sigVars
<1>28. ASSUME NEW l \in Lcores, ReturnFromRunner(l)
      PROVE  LateInv'
  BY <1>28 DEF ReturnFromRunner, Running, ctlVars, sigVars
<1>29. ASSUME NEW l \in Lcores, SkipFrame(l)
      PROVE  LateInv'
  BY <1>29 DEF SkipFrame, Running, ctlVars, sigVars
<1>30. ASSUME NEW l \in Lcores, AcceptFrame(l)
      PROVE  LateInv'
  BY <1>30 DEF AcceptFrame, Running, ctlVars, sigVars
<1>31. ASSUME NEW l \in Lcores, CountUnexpected(l)
      PROVE  LateInv'
  BY <1>31 DEF CountUnexpected, Running, ctlVars, sigVars
<1>32. ASSUME NEW l \in Lcores, BurstDone(l)
      PROVE  LateInv'
  BY <1>32 DEF BurstDone, Running, ctlVars, sigVars
<1>33. ASSUME NEW l \in Lcores, NEW s \in Sources, Deliver(l, s)
      PROVE  LateInv'
  BY <1>33 DEF Deliver, Running, sigVars, LateAfter
<1>34. CASE UNCHANGED vars
  BY <1>34 DEF vars
<1>35. QED
  BY <1>1, <1>2, <1>3, <1>4, <1>5, <1>6, <1>7, <1>8, <1>9, <1>10, <1>11,
      <1>12, <1>13, <1>14, <1>15, <1>16, <1>17, <1>18, <1>19, <1>20, <1>21,
      <1>22, <1>23, <1>24, <1>25, <1>26, <1>27, <1>28, <1>29, <1>30, <1>31,
      <1>32, <1>33, <1>34 DEF Next, NewCommand, CommandStep, ConfStep,
      FlowStep, ScrapStep, DestroyStep, GarpStep, LcoreStep

(* PhaseInv: the command thread alone writes what the invariant mentions.  *)
LEMMA PhaseStep ==
  TypeOK /\ PhaseInv /\ [Next]_vars => PhaseInv'
<1> SUFFICES ASSUME TypeOK, PhaseInv, [Next]_vars
             PROVE  PhaseInv'
  OBVIOUS
<1> USE IfaceAssumption, ExitAssumption DEF TypeOK, PhaseInv
<1>1. CASE ConfInitEal
  BY <1>1 DEF ConfInitEal, Ready, sigVars, lcoreVars
<1>2. CASE ConfInitEalFails
  BY <1>2 DEF ConfInitEalFails, Ready, sigVars, lcoreVars
<1>3. CASE StartCommand
  BY <1>3 DEF StartCommand, Ready, sigVars, lcoreVars
<1>4. CASE StopCommand
  BY <1>4 DEF StopCommand, Ready, sigVars, lcoreVars
<1>5. CASE ScrapCommand
  BY <1>5 DEF ScrapCommand, Ready, sigVars, lcoreVars
<1>6. CASE Destroy
  BY <1>6 DEF Destroy, Ready, sigVars, lcoreVars
<1>7. ASSUME NEW i \in Ifaces, ConfIface(i)
      PROVE  PhaseInv'
  BY <1>7 DEF ConfIface, At, sigVars, lcoreVars
<1>8. ASSUME NEW i \in Ifaces, ConfIfaceThrows(i)
      PROVE  PhaseInv'
  BY <1>8 DEF ConfIfaceThrows, At, sigVars, lcoreVars
<1>9. ASSUME NEW i \in Ifaces, StartIface(i)
      PROVE  PhaseInv'
  BY <1>9 DEF StartIface, At, lcoreVars
<1>10. ASSUME NEW l \in Lcores, LaunchLcore(l)
      PROVE  PhaseInv'
  BY <1>10 DEF LaunchLcore, At, sigVars
<1>11. CASE ConfIfaceExits
  BY <1>11 DEF ConfIfaceExits, At, sigVars, lcoreVars
<1>12. CASE ConfLaunch
  BY <1>12 DEF ConfLaunch, At, sigVars, lcoreVars
<1>13. CASE ConfDone
  BY <1>13 DEF ConfDone, At, sigVars, lcoreVars
<1>14. ASSUME NEW s \in Sources, AcquireCallback(s)
      PROVE  PhaseInv'
  BY <1>14 DEF AcquireCallback, At, lcoreVars
<1>15. ASSUME NEW i \in Ifaces, EnableFlow(i)
      PROVE  PhaseInv'
  BY <1>15 DEF EnableFlow, At
<1>16. ASSUME NEW i \in Ifaces, DisableFlow(i)
      PROVE  PhaseInv'
  BY <1>16 DEF DisableFlow, At, lcoreVars
<1>17. CASE CallbacksAcquired
  BY <1>17 DEF CallbacksAcquired, At, sigVars, lcoreVars
<1>18. CASE FlowLoopDone
  BY <1>18 DEF FlowLoopDone, At, sigVars, lcoreVars
<1>19. ASSUME NEW i \in Ifaces, StopIface(i)
      PROVE  PhaseInv'
  BY <1>19 DEF StopIface, At, lcoreVars
<1>20. CASE JoinGarp
  BY <1>20 DEF JoinGarp, At, sigVars, lcoreVars
<1>21. CASE AllStopped
  BY <1>21 DEF AllStopped, At, sigVars, lcoreVars
<1>22. CASE WaitForLcores
  BY <1>22 DEF WaitForLcores, At, sigVars, lcoreVars
<1>23. ASSUME NEW i \in Ifaces, DestroyIface(i)
      PROVE  PhaseInv'
  BY <1>23 DEF DestroyIface, At, sigVars, lcoreVars
<1>24. CASE Destroyed
  BY <1>24 DEF Destroyed, At, sigVars, lcoreVars
<1>25. ASSUME NEW i \in Ifaces, GarpTest(i)
      PROVE  PhaseInv'
  BY <1>25 DEF GarpTest, ctlVars, sigVars, lcoreVars
<1>26. ASSUME NEW i \in Ifaces, GarpSend(i)
      PROVE  PhaseInv'
  BY <1>26 DEF GarpSend, ctlVars, sigVars, lcoreVars
<1>27. ASSUME NEW l \in Lcores, TakeBurst(l)
      PROVE  PhaseInv'
  BY <1>27 DEF TakeBurst, Running, ctlVars, sigVars
<1>28. ASSUME NEW l \in Lcores, ReturnFromRunner(l)
      PROVE  PhaseInv'
  BY <1>28 DEF ReturnFromRunner, Running, ctlVars, sigVars
<1>29. ASSUME NEW l \in Lcores, SkipFrame(l)
      PROVE  PhaseInv'
  BY <1>29 DEF SkipFrame, Running, ctlVars, sigVars
<1>30. ASSUME NEW l \in Lcores, AcceptFrame(l)
      PROVE  PhaseInv'
  BY <1>30 DEF AcceptFrame, Running, ctlVars, sigVars
<1>31. ASSUME NEW l \in Lcores, CountUnexpected(l)
      PROVE  PhaseInv'
  BY <1>31 DEF CountUnexpected, Running, ctlVars, sigVars
<1>32. ASSUME NEW l \in Lcores, BurstDone(l)
      PROVE  PhaseInv'
  BY <1>32 DEF BurstDone, Running, ctlVars, sigVars
<1>33. ASSUME NEW l \in Lcores, NEW s \in Sources, Deliver(l, s)
      PROVE  PhaseInv'
  BY <1>33 DEF Deliver, Running, sigVars
<1>34. CASE UNCHANGED vars
  BY <1>34 DEF vars
<1>35. QED
  BY <1>1, <1>2, <1>3, <1>4, <1>5, <1>6, <1>7, <1>8, <1>9, <1>10, <1>11,
      <1>12, <1>13, <1>14, <1>15, <1>16, <1>17, <1>18, <1>19, <1>20, <1>21,
      <1>22, <1>23, <1>24, <1>25, <1>26, <1>27, <1>28, <1>29, <1>30, <1>31,
      <1>32, <1>33, <1>34 DEF Next, NewCommand, CommandStep, ConfStep,
      FlowStep, ScrapStep, DestroyStep, GarpStep, LcoreStep

(* OwnerInv: an lcore is given its wrapper when it is launched, and drops  *)
(* it when rx_runner returns.                                              *)
LEMMA OwnerStep ==
  TypeOK /\ PhaseInv /\ OwnerInv /\ [Next]_vars => OwnerInv'
<1> SUFFICES ASSUME TypeOK, PhaseInv, OwnerInv, [Next]_vars
             PROVE  OwnerInv'
  OBVIOUS
<1> USE IfaceAssumption DEF TypeOK, PhaseInv, OwnerInv
<1>1. CASE ConfInitEal
  BY <1>1 DEF ConfInitEal, Ready, sigVars, lcoreVars
<1>2. CASE ConfInitEalFails
  BY <1>2 DEF ConfInitEalFails, Ready, sigVars, lcoreVars
<1>3. CASE StartCommand
  BY <1>3 DEF StartCommand, Ready, sigVars, lcoreVars
<1>4. CASE StopCommand
  BY <1>4 DEF StopCommand, Ready, sigVars, lcoreVars
<1>5. CASE ScrapCommand
  BY <1>5 DEF ScrapCommand, Ready, sigVars, lcoreVars
<1>6. CASE Destroy
  BY <1>6 DEF Destroy, Ready, sigVars, lcoreVars
<1>7. ASSUME NEW i \in Ifaces, ConfIface(i)
      PROVE  OwnerInv'
  BY <1>7 DEF ConfIface, At, sigVars, lcoreVars
<1>8. ASSUME NEW i \in Ifaces, ConfIfaceThrows(i)
      PROVE  OwnerInv'
  BY <1>8 DEF ConfIfaceThrows, At, sigVars, lcoreVars
<1>9. ASSUME NEW i \in Ifaces, StartIface(i)
      PROVE  OwnerInv'
  BY <1>9 DEF StartIface, At, lcoreVars
<1>10. ASSUME NEW l \in Lcores, LaunchLcore(l)
      PROVE  OwnerInv'
  BY <1>10 DEF LaunchLcore, At, sigVars
<1>11. CASE ConfIfaceExits
  BY <1>11 DEF ConfIfaceExits, At, sigVars, lcoreVars
<1>12. CASE ConfLaunch
  BY <1>12 DEF ConfLaunch, At, sigVars, lcoreVars
<1>13. CASE ConfDone
  BY <1>13 DEF ConfDone, At, sigVars, lcoreVars
<1>14. ASSUME NEW s \in Sources, AcquireCallback(s)
      PROVE  OwnerInv'
  BY <1>14 DEF AcquireCallback, At, lcoreVars
<1>15. ASSUME NEW i \in Ifaces, EnableFlow(i)
      PROVE  OwnerInv'
  BY <1>15 DEF EnableFlow, At
<1>16. ASSUME NEW i \in Ifaces, DisableFlow(i)
      PROVE  OwnerInv'
  BY <1>16 DEF DisableFlow, At, lcoreVars
<1>17. CASE CallbacksAcquired
  BY <1>17 DEF CallbacksAcquired, At, sigVars, lcoreVars
<1>18. CASE FlowLoopDone
  BY <1>18 DEF FlowLoopDone, At, sigVars, lcoreVars
<1>19. ASSUME NEW i \in Ifaces, StopIface(i)
      PROVE  OwnerInv'
  BY <1>19 DEF StopIface, At, lcoreVars
<1>20. CASE JoinGarp
  BY <1>20 DEF JoinGarp, At, sigVars, lcoreVars
<1>21. CASE AllStopped
  BY <1>21 DEF AllStopped, At, sigVars, lcoreVars
<1>22. CASE WaitForLcores
  BY <1>22 DEF WaitForLcores, At, sigVars, lcoreVars
<1>23. ASSUME NEW i \in Ifaces, DestroyIface(i)
      PROVE  OwnerInv'
  BY <1>23 DEF DestroyIface, At, sigVars, lcoreVars
<1>24. CASE Destroyed
  BY <1>24 DEF Destroyed, At, sigVars, lcoreVars
<1>25. ASSUME NEW i \in Ifaces, GarpTest(i)
      PROVE  OwnerInv'
  BY <1>25 DEF GarpTest, ctlVars, sigVars, lcoreVars
<1>26. ASSUME NEW i \in Ifaces, GarpSend(i)
      PROVE  OwnerInv'
  BY <1>26 DEF GarpSend, ctlVars, sigVars, lcoreVars
<1>27. ASSUME NEW l \in Lcores, TakeBurst(l)
      PROVE  OwnerInv'
  BY <1>27 DEF TakeBurst, Running, ctlVars, sigVars
<1>28. ASSUME NEW l \in Lcores, ReturnFromRunner(l)
      PROVE  OwnerInv'
  BY <1>28 DEF ReturnFromRunner, Running, ctlVars, sigVars
<1>29. ASSUME NEW l \in Lcores, SkipFrame(l)
      PROVE  OwnerInv'
  BY <1>29 DEF SkipFrame, Running, ctlVars, sigVars
<1>30. ASSUME NEW l \in Lcores, AcceptFrame(l)
      PROVE  OwnerInv'
  BY <1>30 DEF AcceptFrame, Running, ctlVars, sigVars
<1>31. ASSUME NEW l \in Lcores, CountUnexpected(l)
      PROVE  OwnerInv'
  BY <1>31 DEF CountUnexpected, Running, ctlVars, sigVars
<1>32. ASSUME NEW l \in Lcores, BurstDone(l)
      PROVE  OwnerInv'
  BY <1>32 DEF BurstDone, Running, ctlVars, sigVars
<1>33. ASSUME NEW l \in Lcores, NEW s \in Sources, Deliver(l, s)
      PROVE  OwnerInv'
  BY <1>33 DEF Deliver, Running, sigVars
<1>34. CASE UNCHANGED vars
  BY <1>34 DEF vars
<1>35. QED
  BY <1>1, <1>2, <1>3, <1>4, <1>5, <1>6, <1>7, <1>8, <1>9, <1>10, <1>11,
      <1>12, <1>13, <1>14, <1>15, <1>16, <1>17, <1>18, <1>19, <1>20, <1>21,
      <1>22, <1>23, <1>24, <1>25, <1>26, <1>27, <1>28, <1>29, <1>30, <1>31,
      <1>32, <1>33, <1>34 DEF Next, NewCommand, CommandStep, ConfStep,
      FlowStep, ScrapStep, DestroyStep, GarpStep, LcoreStep

(* WrappedInv: threads start under wrappers of m_ifaces; a wrapper goes    *)
(* when no thread is left, QuietInv says, unless no scrap came before.     *)
LEMMA WrappedStep ==
  TypeOK /\ PhaseInv /\ OwnerInv /\ QuietInv /\ WrappedInv /\ [Next]_vars => WrappedInv'
<1> SUFFICES ASSUME TypeOK, PhaseInv, OwnerInv, QuietInv, WrappedInv, [Next]_vars
             PROVE  WrappedInv'
  OBVIOUS
<1> USE IfaceAssumption, ExitAssumption DEF TypeOK, PhaseInv, OwnerInv, WrappedInv
<1>1. CASE ConfInitEal
  BY <1>1 DEF ConfInitEal, Ready, sigVars, lcoreVars
<1>2. CASE ConfInitEalFails
  BY <1>2 DEF ConfInitEalFails, Ready, sigVars, lcoreVars
<1>3. CASE StartCommand
  BY <1>3 DEF StartCommand, Ready, sigVars, lcoreVars
<1>4. CASE StopCommand
  BY <1>4 DEF StopCommand, Ready, sigVars, lcoreVars
<1>5. CASE ScrapCommand
  BY <1>5 DEF ScrapCommand, Ready, sigVars, lcoreVars
<1>6. CASE Destroy
  BY <1>6 DEF Destroy, Ready, sigVars, lcoreVars
<1>7. ASSUME NEW i \in Ifaces, ConfIface(i)
      PROVE  WrappedInv'
  BY <1>7 DEF ConfIface, At, sigVars, lcoreVars
<1>8. ASSUME NEW i \in Ifaces, ConfIfaceThrows(i)
      PROVE  WrappedInv'
  BY <1>8 DEF ConfIfaceThrows, At, sigVars, lcoreVars
<1>9. ASSUME NEW i \in Ifaces, StartIface(i)
      PROVE  WrappedInv'
  BY <1>9 DEF StartIface, At, lcoreVars
<1>10. ASSUME NEW l \in Lcores, LaunchLcore(l)
      PROVE  WrappedInv'
  BY <1>10 DEF LaunchLcore, At, sigVars
<1>11. CASE ConfIfaceExits
  BY <1>11 DEF ConfIfaceExits, At, sigVars, lcoreVars
<1>12. CASE ConfLaunch
  BY <1>12 DEF ConfLaunch, At, sigVars, lcoreVars
<1>13. CASE ConfDone
  BY <1>13 DEF ConfDone, At, sigVars, lcoreVars
<1>14. ASSUME NEW s \in Sources, AcquireCallback(s)
      PROVE  WrappedInv'
  BY <1>14 DEF AcquireCallback, At, lcoreVars
<1>15. ASSUME NEW i \in Ifaces, EnableFlow(i)
      PROVE  WrappedInv'
  BY <1>15 DEF EnableFlow, At
<1>16. ASSUME NEW i \in Ifaces, DisableFlow(i)
      PROVE  WrappedInv'
  BY <1>16 DEF DisableFlow, At, lcoreVars
<1>17. CASE CallbacksAcquired
  BY <1>17 DEF CallbacksAcquired, At, sigVars, lcoreVars
<1>18. CASE FlowLoopDone
  BY <1>18 DEF FlowLoopDone, At, sigVars, lcoreVars
<1>19. ASSUME NEW i \in Ifaces, StopIface(i)
      PROVE  WrappedInv'
  BY <1>19 DEF StopIface, At, lcoreVars
<1>20. CASE JoinGarp
  BY <1>20 DEF JoinGarp, At, sigVars, lcoreVars
<1>21. CASE AllStopped
  BY <1>21 DEF AllStopped, At, sigVars, lcoreVars
<1>22. CASE WaitForLcores
  BY <1>22 DEF WaitForLcores, At, sigVars, lcoreVars
<1>23. ASSUME NEW i \in Ifaces, DestroyIface(i)
      PROVE  WrappedInv'
  BY <1>23 DEF DestroyIface, At, sigVars, lcoreVars, QuietInv, Quiet
<1>24. CASE Destroyed
  BY <1>24 DEF Destroyed, At, sigVars, lcoreVars
<1>25. ASSUME NEW i \in Ifaces, GarpTest(i)
      PROVE  WrappedInv'
  BY <1>25 DEF GarpTest, ctlVars, sigVars, lcoreVars
<1>26. ASSUME NEW i \in Ifaces, GarpSend(i)
      PROVE  WrappedInv'
  BY <1>26 DEF GarpSend, ctlVars, sigVars, lcoreVars
<1>27. ASSUME NEW l \in Lcores, TakeBurst(l)
      PROVE  WrappedInv'
  BY <1>27 DEF TakeBurst, Running, ctlVars, sigVars
<1>28. ASSUME NEW l \in Lcores, ReturnFromRunner(l)
      PROVE  WrappedInv'
  BY <1>28 DEF ReturnFromRunner, Running, ctlVars, sigVars
<1>29. ASSUME NEW l \in Lcores, SkipFrame(l)
      PROVE  WrappedInv'
  BY <1>29 DEF SkipFrame, Running, ctlVars, sigVars
<1>30. ASSUME NEW l \in Lcores, AcceptFrame(l)
      PROVE  WrappedInv'
  BY <1>30 DEF AcceptFrame, Running, ctlVars, sigVars
<1>31. ASSUME NEW l \in Lcores, CountUnexpected(l)
      PROVE  WrappedInv'
  BY <1>31 DEF CountUnexpected, Running, ctlVars, sigVars
<1>32. ASSUME NEW l \in Lcores, BurstDone(l)
      PROVE  WrappedInv'
  BY <1>32 DEF BurstDone, Running, ctlVars, sigVars
<1>33. ASSUME NEW l \in Lcores, NEW s \in Sources, Deliver(l, s)
      PROVE  WrappedInv'
  BY <1>33 DEF Deliver, Running, sigVars
<1>34. CASE UNCHANGED vars
  BY <1>34 DEF vars
<1>35. QED
  BY <1>1, <1>2, <1>3, <1>4, <1>5, <1>6, <1>7, <1>8, <1>9, <1>10, <1>11,
      <1>12, <1>13, <1>14, <1>15, <1>16, <1>17, <1>18, <1>19, <1>20, <1>21,
      <1>22, <1>23, <1>24, <1>25, <1>26, <1>27, <1>28, <1>29, <1>30, <1>31,
      <1>32, <1>33, <1>34 DEF Next, NewCommand, CommandStep, ConfStep,
      FlowStep, ScrapStep, DestroyStep, GarpStep, LcoreStep

(* QuietInv: scrap visits every interface that has a GARP thread, joins    *)
(* it, and waits for the lcores.                                           *)
LEMMA QuietStep ==
  TypeOK /\ PhaseInv /\ OwnerInv /\ WrappedInv /\ QuietInv /\ [Next]_vars => QuietInv'
<1> SUFFICES ASSUME TypeOK, PhaseInv, OwnerInv, WrappedInv, QuietInv, [Next]_vars
             PROVE  QuietInv'
  OBVIOUS
<1> USE DEF TypeOK, PhaseInv, QuietInv, Quiet
<1>1. CASE ConfInitEal
  BY <1>1 DEF ConfInitEal, Ready, sigVars, lcoreVars
<1>2. CASE ConfInitEalFails
  BY <1>2 DEF ConfInitEalFails, Ready, sigVars, lcoreVars
<1>3. CASE StartCommand
  BY <1>3 DEF StartCommand, Ready, sigVars, lcoreVars
<1>4. CASE StopCommand
  BY <1>4 DEF StopCommand, Ready, sigVars, lcoreVars
<1>5. CASE ScrapCommand
  BY <1>5 DEF ScrapCommand, Ready, sigVars, lcoreVars, WrappedInv
<1>6. CASE Destroy
  BY <1>6 DEF Destroy, Ready, sigVars, lcoreVars
<1>7. ASSUME NEW i \in Ifaces, ConfIface(i)
      PROVE  QuietInv'
  BY <1>7 DEF ConfIface, At, sigVars, lcoreVars
<1>8. ASSUME NEW i \in Ifaces, ConfIfaceThrows(i)
      PROVE  QuietInv'
  BY <1>8 DEF ConfIfaceThrows, At, sigVars, lcoreVars
<1>9. ASSUME NEW i \in Ifaces, StartIface(i)
      PROVE  QuietInv'
  BY <1>9 DEF StartIface, At, lcoreVars
<1>10. ASSUME NEW l \in Lcores, LaunchLcore(l)
      PROVE  QuietInv'
  BY <1>10 DEF LaunchLcore, At, sigVars
<1>11. CASE ConfIfaceExits
  BY <1>11 DEF ConfIfaceExits, At, sigVars, lcoreVars
<1>12. CASE ConfLaunch
  BY <1>12 DEF ConfLaunch, At, sigVars, lcoreVars
<1>13. CASE ConfDone
  BY <1>13 DEF ConfDone, At, sigVars, lcoreVars
<1>14. ASSUME NEW s \in Sources, AcquireCallback(s)
      PROVE  QuietInv'
  BY <1>14 DEF AcquireCallback, At, lcoreVars
<1>15. ASSUME NEW i \in Ifaces, EnableFlow(i)
      PROVE  QuietInv'
  BY <1>15 DEF EnableFlow, At
<1>16. ASSUME NEW i \in Ifaces, DisableFlow(i)
      PROVE  QuietInv'
  BY <1>16 DEF DisableFlow, At, lcoreVars
<1>17. CASE CallbacksAcquired
  BY <1>17 DEF CallbacksAcquired, At, sigVars, lcoreVars
<1>18. CASE FlowLoopDone
  BY <1>18 DEF FlowLoopDone, At, sigVars, lcoreVars
<1>19. ASSUME NEW i \in Ifaces, StopIface(i)
      PROVE  QuietInv'
  BY <1>19 DEF StopIface, At, lcoreVars
<1>20. CASE JoinGarp
  BY <1>20 DEF JoinGarp, At, sigVars, lcoreVars
<1>21. CASE AllStopped
  BY <1>21 DEF AllStopped, At, sigVars, lcoreVars
<1>22. CASE WaitForLcores
  BY <1>22 DEF WaitForLcores, At, sigVars, lcoreVars
<1>23. ASSUME NEW i \in Ifaces, DestroyIface(i)
      PROVE  QuietInv'
  BY <1>23 DEF DestroyIface, At, sigVars, lcoreVars
<1>24. CASE Destroyed
  BY <1>24 DEF Destroyed, At, sigVars, lcoreVars
<1>25. ASSUME NEW i \in Ifaces, GarpTest(i)
      PROVE  QuietInv'
  BY <1>25 DEF GarpTest, ctlVars, sigVars, lcoreVars
<1>26. ASSUME NEW i \in Ifaces, GarpSend(i)
      PROVE  QuietInv'
  BY <1>26 DEF GarpSend, ctlVars, sigVars, lcoreVars
<1>27. ASSUME NEW l \in Lcores, TakeBurst(l)
      PROVE  QuietInv'
  BY <1>27 DEF TakeBurst, Running, ctlVars, sigVars
<1>28. ASSUME NEW l \in Lcores, ReturnFromRunner(l)
      PROVE  QuietInv'
  BY <1>28 DEF ReturnFromRunner, Running, ctlVars, sigVars
<1>29. ASSUME NEW l \in Lcores, SkipFrame(l)
      PROVE  QuietInv'
  BY <1>29 DEF SkipFrame, Running, ctlVars, sigVars
<1>30. ASSUME NEW l \in Lcores, AcceptFrame(l)
      PROVE  QuietInv'
  BY <1>30 DEF AcceptFrame, Running, ctlVars, sigVars
<1>31. ASSUME NEW l \in Lcores, CountUnexpected(l)
      PROVE  QuietInv'
  BY <1>31 DEF CountUnexpected, Running, ctlVars, sigVars
<1>32. ASSUME NEW l \in Lcores, BurstDone(l)
      PROVE  QuietInv'
  BY <1>32 DEF BurstDone, Running, ctlVars, sigVars
<1>33. ASSUME NEW l \in Lcores, NEW s \in Sources, Deliver(l, s)
      PROVE  QuietInv'
  BY <1>33 DEF Deliver, Running, sigVars
<1>34. CASE UNCHANGED vars
  BY <1>34 DEF vars
<1>35. QED
  BY <1>1, <1>2, <1>3, <1>4, <1>5, <1>6, <1>7, <1>8, <1>9, <1>10, <1>11,
      <1>12, <1>13, <1>14, <1>15, <1>16, <1>17, <1>18, <1>19, <1>20, <1>21,
      <1>22, <1>23, <1>24, <1>25, <1>26, <1>27, <1>28, <1>29, <1>30, <1>31,
      <1>32, <1>33, <1>34 DEF Next, NewCommand, CommandStep, ConfStep,
      FlowStep, ScrapStep, DestroyStep, GarpStep, LcoreStep

(* LaunchInv: an lcore that start() launches is waiting, because no other  *)
(* interface uses it, and none leaves rx_runner until scrap.               *)
LEMMA LaunchStep ==
  DisjointLcores /\ TypeOK /\ PhaseInv /\ OwnerInv /\ QuietInv /\ LaunchInv /\ [Next]_vars => LaunchInv'
<1> SUFFICES ASSUME DisjointLcores, TypeOK, PhaseInv, OwnerInv, QuietInv, LaunchInv, [Next]_vars
             PROVE  LaunchInv'
  OBVIOUS
<1> USE IfaceAssumption, LcoreAssumption DEF TypeOK, PhaseInv, LaunchInv
<1>1. CASE ConfInitEal
  BY <1>1 DEF ConfInitEal, Ready, sigVars, lcoreVars
<1>2. CASE ConfInitEalFails
  BY <1>2 DEF ConfInitEalFails, Ready, sigVars, lcoreVars
<1>3. CASE StartCommand
  BY <1>3 DEF StartCommand, Ready, sigVars, lcoreVars
<1>4. CASE StopCommand
  BY <1>4 DEF StopCommand, Ready, sigVars, lcoreVars
<1>5. CASE ScrapCommand
  BY <1>5 DEF ScrapCommand, Ready, sigVars, lcoreVars
<1>6. CASE Destroy
  BY <1>6 DEF Destroy, Ready, sigVars, lcoreVars
<1>7. ASSUME NEW i \in Ifaces, ConfIface(i)
      PROVE  LaunchInv'
  BY <1>7 DEF ConfIface, At, sigVars, lcoreVars
<1>8. ASSUME NEW i \in Ifaces, ConfIfaceThrows(i)
      PROVE  LaunchInv'
  BY <1>8 DEF ConfIfaceThrows, At, sigVars, lcoreVars
<1>9. ASSUME NEW i \in Ifaces, StartIface(i)
      PROVE  LaunchInv'
  BY <1>9 DEF StartIface, At, lcoreVars
<1>10. ASSUME NEW l \in Lcores, LaunchLcore(l)
      PROVE  LaunchInv'
  BY <1>10 DEF LaunchLcore, At, sigVars, OwnerInv, DisjointLcores
<1>11. CASE ConfIfaceExits
  BY <1>11 DEF ConfIfaceExits, At, sigVars, lcoreVars
<1>12. CASE ConfLaunch
  BY <1>12 DEF ConfLaunch, At, sigVars, lcoreVars, QuietInv, Quiet, OwnerInv
<1>13. CASE ConfDone
  BY <1>13 DEF ConfDone, At, sigVars, lcoreVars
<1>14. ASSUME NEW s \in Sources, AcquireCallback(s)
      PROVE  LaunchInv'
  BY <1>14 DEF AcquireCallback, At, lcoreVars
<1>15. ASSUME NEW i \in Ifaces, EnableFlow(i)
      PROVE  LaunchInv'
  BY <1>15 DEF EnableFlow, At
<1>16. ASSUME NEW i \in Ifaces, DisableFlow(i)
      PROVE  LaunchInv'
  BY <1>16 DEF DisableFlow, At, lcoreVars
<1>17. CASE CallbacksAcquired
  BY <1>17 DEF CallbacksAcquired, At, sigVars, lcoreVars
<1>18. CASE FlowLoopDone
  BY <1>18 DEF FlowLoopDone, At, sigVars, lcoreVars
<1>19. ASSUME NEW i \in Ifaces, StopIface(i)
      PROVE  LaunchInv'
  BY <1>19 DEF StopIface, At, lcoreVars
<1>20. CASE JoinGarp
  BY <1>20 DEF JoinGarp, At, sigVars, lcoreVars
<1>21. CASE AllStopped
  BY <1>21 DEF AllStopped, At, sigVars, lcoreVars
<1>22. CASE WaitForLcores
  BY <1>22 DEF WaitForLcores, At, sigVars, lcoreVars
<1>23. ASSUME NEW i \in Ifaces, DestroyIface(i)
      PROVE  LaunchInv'
  BY <1>23 DEF DestroyIface, At, sigVars, lcoreVars
<1>24. CASE Destroyed
  BY <1>24 DEF Destroyed, At, sigVars, lcoreVars
<1>25. ASSUME NEW i \in Ifaces, GarpTest(i)
      PROVE  LaunchInv'
  BY <1>25 DEF GarpTest, ctlVars, sigVars, lcoreVars
<1>26. ASSUME NEW i \in Ifaces, GarpSend(i)
      PROVE  LaunchInv'
  BY <1>26 DEF GarpSend, ctlVars, sigVars, lcoreVars
<1>27. ASSUME NEW l \in Lcores, TakeBurst(l)
      PROVE  LaunchInv'
  BY <1>27 DEF TakeBurst, Running, ctlVars, sigVars
<1>28. ASSUME NEW l \in Lcores, ReturnFromRunner(l)
      PROVE  LaunchInv'
  BY <1>28 DEF ReturnFromRunner, Running, ctlVars, sigVars
<1>29. ASSUME NEW l \in Lcores, SkipFrame(l)
      PROVE  LaunchInv'
  BY <1>29 DEF SkipFrame, Running, ctlVars, sigVars
<1>30. ASSUME NEW l \in Lcores, AcceptFrame(l)
      PROVE  LaunchInv'
  BY <1>30 DEF AcceptFrame, Running, ctlVars, sigVars
<1>31. ASSUME NEW l \in Lcores, CountUnexpected(l)
      PROVE  LaunchInv'
  BY <1>31 DEF CountUnexpected, Running, ctlVars, sigVars
<1>32. ASSUME NEW l \in Lcores, BurstDone(l)
      PROVE  LaunchInv'
  BY <1>32 DEF BurstDone, Running, ctlVars, sigVars
<1>33. ASSUME NEW l \in Lcores, NEW s \in Sources, Deliver(l, s)
      PROVE  LaunchInv'
  BY <1>33 DEF Deliver, Running, sigVars
<1>34. CASE UNCHANGED vars
  BY <1>34 DEF vars
<1>35. QED
  BY <1>1, <1>2, <1>3, <1>4, <1>5, <1>6, <1>7, <1>8, <1>9, <1>10, <1>11,
      <1>12, <1>13, <1>14, <1>15, <1>16, <1>17, <1>18, <1>19, <1>20, <1>21,
      <1>22, <1>23, <1>24, <1>25, <1>26, <1>27, <1>28, <1>29, <1>30, <1>31,
      <1>32, <1>33, <1>34 DEF Next, NewCommand, CommandStep, ConfStep,
      FlowStep, ScrapStep, DestroyStep, GarpStep, LcoreStep

-----------------------------------------------------------------------------
(* The inductive invariant holds in every reachable state.                 *)
LEMMA InvariantHolds == Spec => []IInv
<1>1. Init => IInv
  <2> SUFFICES ASSUME Init PROVE IInv
    OBVIOUS
  <2> USE DEF Init
  <2>1. TypeOK
    <3>1. 0 \in 0..MaxBurst
      BY BurstAssumption
    <3>2. /\ garp \in [Ifaces -> {"none", "test", "send", "exited"}]
          /\ lpc \in [Lcores -> {"wait", "check", "packet", "deliver"}]
          /\ owner \in [Lcores -> Ifaces \cup {NoIface}]
          /\ left \in [Lcores -> 0..MaxBurst]
          /\ late \in [Lcores -> Nat]
      BY <3>1
    <3>3. QED
      BY <3>2 DEF TypeOK, Commands, Endings
  <2>2. FrameInHand /\ CallbacksFirst /\ LateInv
    BY DEF FrameInHand, CallbacksFirst, LateInv
  <2>3. PhaseInv /\ OwnerInv /\ WrappedInv /\ QuietInv
    BY DEF PhaseInv, OwnerInv, WrappedInv, QuietInv, Quiet
  <2>4. QED
    BY <2>1, <2>2, <2>3 DEF IInv
<1>2. IInv /\ [Next]_vars => IInv'
  BY TypeStep, CallbackStep, LateStep, PhaseStep, OwnerStep, WrappedStep,
     QuietStep DEF IInv
<1>3. QED
  BY <1>1, <1>2, PTL DEF Spec

(* Every variable keeps its type: a burst never outgrows its array.        *)
THEOREM TypeCorrect ==
  Spec => []TypeOK
<1>1. IInv => TypeOK
  BY DEF IInv
<1>2. QED
  BY InvariantHolds, <1>1, PTL

(* No lcore dereferences a callback that was not acquired, in any order of *)
(* the commands.                                                           *)
THEOREM CallbackBeforeFlow ==
  Spec => []NoNullCallback
<1>1. IInv => NoNullCallback
  BY DEF IInv, CallbacksFirst, NoNullCallback
<1>2. QED
  BY InvariantHolds, <1>1, PTL

(* After stop_trigger_sources an lcore delivers at most the one frame it   *)
(* had accepted before.                                                    *)
THEOREM LateFramesBounded ==
  Spec => []AtMostOneLateFrame
<1>1. IInv => AtMostOneLateFrame
  BY DEF IInv, LateInv, AtMostOneLateFrame
<1>2. QED
  BY InvariantHolds, <1>1, PTL

(* No thread outlives a scrap, whichever interfaces and lcores there are,  *)
(* and even when interfaces share lcores.                                  *)
THEOREM ScrapLeavesNothingRunning ==
  Spec => []QuietWhenNotRunning
<1>1. IInv => QuietWhenNotRunning
  BY DEF IInv, QuietInv, QuietWhenNotRunning, Ready
<1>2. QED
  BY InvariantHolds, <1>1, PTL

(* A module that is scrapped before it is destroyed never destroys a       *)
(* wrapper some thread still uses.                                         *)
THEOREM StopsBeforeDestroy ==
  ASSUME ~ExitWithoutScrap
  PROVE  Spec => []StoppedWhenDestroyed
<1>1. IInv => StoppedWhenDestroyed
  BY IfaceAssumption DEF IInv, WrappedInv, StoppedWhenDestroyed
<1>2. QED
  BY InvariantHolds, <1>1, PTL

(* When no two interfaces share an lcore, conf leaves every receive queue  *)
(* with a poller, and it keeps it until scrap.                             *)
THEOREM QueuesPolled ==
  ASSUME DisjointLcores
  PROVE  Spec => []EveryQueuePolled
<1>1. Init => LaunchInv
  BY DEF Init, LaunchInv
<1>2. IInv /\ LaunchInv /\ [Next]_vars => LaunchInv'
  BY LaunchStep DEF IInv
<1>3. IInv /\ LaunchInv => EveryQueuePolled
  BY IfaceAssumption, LcoreAssumption
     DEF IInv, OwnerInv, LaunchInv, EveryQueuePolled, Ready
<1>4. QED
  BY InvariantHolds, <1>1, <1>2, <1>3, PTL DEF Spec

-----------------------------------------------------------------------------
(* The EAL is up, the run marker cleared and no conf in progress.          *)
Over == ealUp = TRUE /\ runMarker = FALSE /\ cmd # "conf"

(* Only the conf that init_eal let through sets the run marker.            *)
LEMMA OverStep == Over /\ [Next]_vars => Over'
<1> SUFFICES ASSUME Over, [Next]_vars
             PROVE  Over'
  OBVIOUS
<1> USE DEF Over, ctlVars, sigVars, lcoreVars
<1>1. CASE NewCommand
  BY <1>1 DEF NewCommand, ConfInitEal, ConfInitEalFails, StartCommand, StopCommand,
     ScrapCommand, Destroy, Ready
<1>2. CASE ConfStep
  BY <1>2 DEF ConfStep, ConfIface, ConfIfaceThrows, StartIface, LaunchLcore, ConfIfaceExits,
     ConfLaunch, ConfDone, At
<1>3. CASE FlowStep
  BY <1>3 DEF FlowStep, AcquireCallback, EnableFlow, DisableFlow, CallbacksAcquired,
     FlowLoopDone, At
<1>4. CASE ScrapStep
  BY <1>4 DEF ScrapStep, StopIface, JoinGarp, AllStopped, WaitForLcores, At
<1>5. CASE DestroyStep
  BY <1>5 DEF DestroyStep, DestroyIface, Destroyed, At
<1>6. CASE \E i \in Ifaces : GarpStep(i)
  BY <1>6 DEF GarpStep, GarpTest, GarpSend
<1>7. CASE \E l \in Lcores : LcoreStep(l)
  BY <1>7 DEF LcoreStep, TakeBurst, ReturnFromRunner, SkipFrame, AcceptFrame,
     CountUnexpected, BurstDone, Deliver
<1>8. CASE UNCHANGED vars
  BY <1>8 DEF vars
<1> QED
  BY <1>1, <1>2, <1>3, <1>4, <1>5, <1>6, <1>7, <1>8 DEF Next, CommandStep

(* After a scrap, or a conf that threw, no command and no thread launches  *)
(* an lcore again in this process.                                         *)
THEOREM ScrapFinal ==
  Spec => ScrapIsFinal
<1>1. TypeOK /\ ealUp /\ cmd = "idle" /\ ~runMarker => Over
  BY DEF Over, TypeOK
<1>2. Over => ~runMarker
  BY DEF Over
<1> QED
  BY <1>1, <1>2, OverStep, TypeCorrect, PTL DEF Spec, ScrapIsFinal
=============================================================================
