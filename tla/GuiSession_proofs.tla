---------------------------- MODULE GuiSession_proofs ----------------------------
(* Proofs about the controllers and about the page that uses them.              *)
(*                                                                              *)
(* ConnectionController, for every set of controllers and threads, under the    *)
(* interleaving of any number of connect() and disconnect() calls, one          *)
(* connect() for each controller: theorems of its Spec.                         *)
(*                                                                              *)
(* GuiSession, which extends it: the type invariant holds however fast the user *)
(* clicks; what is left behind, and what the button says, when no second click  *)
(* comes before the page has disabled the button: theorems of GuiSpec.          *)
EXTENDS GuiSession, TLAPS

-----------------------------------------------------------------------------
(* The controllers. *)
USE NoneAssumption, LinuxAssumption

(* Where a thread that runs connect() stands with its manager: not started,     *)
(* its own local variable, or published in _xray_mgr.                           *)
Owning == {"starting", "publish"}
Published == {"set_connected", "done"}

CallInv ==
  /\ \A t \in Threads : pc[t] = "free" <=> op[t] = None
  /\ \A t \in Threads : pc[t] # "free" => self[t] \in Controllers
  /\ \A t \in Threads : pc[t] \in Connecting => op[t] = "connect"
  /\ \A t, u \in Threads :
       op[t] = "connect" /\ op[u] = "connect" /\ self[t] = self[u] => t = u

(* A live child belongs to a thread whose connect() has got as far as start(),  *)
(* and from Publish on it is the controller's _xray_mgr, unless a call raised   *)
(* beside it.  Whoever is in the first half of a teardown has seen the manager  *)
(* of the connect() of that controller; when it comes to reset _xray_mgr, that  *)
(* manager has nothing left to lose.                                            *)
MgrInv ==
  /\ \A t \in xray : op[t] = "connect" /\ pc[t] \in Owning \cup Published
  /\ \A t \in Tracked : pc[t] \in Published => xray_mgr[self[t]] = t
  /\ \A c \in Controllers : xray_mgr[c] # None =>
       /\ self[xray_mgr[c]] = c
       /\ op[xray_mgr[c]] = "connect"
       /\ pc[xray_mgr[c]] \in Published
  /\ \A t \in Threads : pc[t] \in {"load_mgr", "stop_mgr", "reset_mgr"} =>
       \E u \in Threads : op[u] = "connect" /\ self[u] = self[t] /\ pc[u] \in Published
  /\ \A t \in Threads : pc[t] = "stop_mgr" =>
       held[t] \in Threads /\ op[held[t]] = "connect" /\ self[held[t]] = self[t]
  /\ \A t \in Threads, u \in Tracked :
       pc[t] = "reset_mgr" /\ self[u] = self[t] => pc[u] \notin Published

IInv == TypeOK /\ CallInv /\ MgrInv

-----------------------------------------------------------------------------
LEMMA InitIInv == Init => IInv
  BY DEF Init, IInv, TypeOK, CallInv, MgrInv, Tracked, Connecting, TearingDown

(* What the promise of XrayContract means for the thread in start() ...         *)
LEMMA StartedXrayEffect ==
  ASSUME NEW t \in Threads, StartedXray(t)
  PROVE  /\ UNCHANGED <<object, held, tunfd>>
         /\ \/ /\ Goto(t, "starting", "publish")
               /\ xray' \in {xray \cup {t}, xray \ {t}}
               /\ UNCHANGED <<result, abandoned>>
            \/ /\ Goto(t, "starting", "check_mgr")
               /\ xray' = xray \ {t}
               /\ UNCHANGED <<result, abandoned>>
            \/ /\ Goto(t, "starting", "done")
               /\ \/ xray' = xray \ {t} /\ UNCHANGED abandoned
                  \/ xray' = xray \cup {t} /\ abandoned' = abandoned \cup {t}
               /\ result' = [result EXCEPT ![t] = "raised"]
<1>1. PICK o \in StartOutcomes :
        /\ xray' = IF o.live THEN xray \cup {t} ELSE xray \ {t}
        /\ abandoned' = abandoned \cup {u \in {t} : o.answer = "raised" /\ o.live}
        /\ \/ o.answer = "ok" /\ Goto(t, "starting", "publish") /\ UNCHANGED result
           \/ o.answer = "failed" /\ Goto(t, "starting", "check_mgr") /\ UNCHANGED result
           \/ /\ o.answer = "raised" /\ Goto(t, "starting", "done")
              /\ result' = [result EXCEPT ![t] = "raised"]
  BY DEF StartedXray
<1>2. o.live \in BOOLEAN /\ (o.answer = "failed" => o.live = FALSE)
  BY DEF StartOutcomes
<1>3. UNCHANGED <<object, held, tunfd>>
  BY DEF StartedXray
<1>4. CASE o.live
  BY <1>1, <1>2, <1>3, <1>4
<1>5. CASE ~o.live
  BY <1>1, <1>2, <1>3, <1>5
<1> QED
  BY <1>4, <1>5

(* ... and for one that calls stop(). *)
LEMMA StopMgrEffect ==
  ASSUME NEW t \in Threads, StopMgr(t)
  PROVE  /\ UNCHANGED <<object, result, tunfd>>
         /\ Goto(t, "stop_mgr", "reset_mgr")
         /\ held' = [held EXCEPT ![t] = None]
         /\ \/ xray' = xray \ {held[t]} /\ UNCHANGED abandoned
            \/ held[t] \in xray /\ abandoned' = abandoned \cup {held[t]} /\ UNCHANGED xray
<1>1. PICK o \in StopOutcomes(held[t] \in xray) :
        IF o.live THEN abandoned' = abandoned \cup {held[t]} /\ UNCHANGED xray
                  ELSE xray' = xray \ {held[t]} /\ UNCHANGED abandoned
  BY DEF StopMgr
<1>2. o.live => held[t] \in xray
  BY DEF StopOutcomes
<1> QED
  BY <1>1, <1>2 DEF StopMgr

(* Every step of a thread that is in a call of some controller keeps the types, *)
(* whoever made the call and when.                                              *)
LEMMA ThreadTypeOK ==
  ASSUME NEW t \in Threads, TypeOK, Busy(t) => self[t] \in Controllers,
         Advance(t) \/ Background(t)
  PROVE  TypeOK'
<1> USE DEF TypeOK, Goto, Connecting, TearingDown, object, os
<1>1. CASE CheckBinary(t) \/ WriteConfig(t) \/ SmokeTest(t)
  BY <1>1 DEF CheckBinary, WriteConfig, SmokeTest, Phase, Return, SetState
<1>2. CASE NewTun(t) \/ LoadTun(t) \/ OpenTun(t)
  BY <1>2 DEF NewTun, LoadTun, OpenTun
<1>3. CASE StartXray(t) \/ Publish(t) \/ SetConnected(t)
  BY <1>3 DEF StartXray, Publish, SetConnected, Return, SetState
<1>4. CASE StartedXray(t)
  BY <1>4, StartedXrayEffect
<1>5. CASE CheckMgr(t) \/ ResetMgr(t) \/ CheckTun(t) \/ ResetTun(t)
  BY <1>5 DEF CheckMgr, ResetMgr, CheckTun, ResetTun
<1>6. CASE StopMgr(t)
  BY <1>6, StopMgrEffect
<1>7. CASE LoadMgr(t) \/ LoadClose(t) \/ CloseTun(t)
  <2>1. held' \in [Threads -> Threads \cup {None}]
    BY <1>7 DEF LoadMgr, LoadClose, CloseTun, Busy
  <2>2. pc' \in [Threads -> Connecting \cup TearingDown \cup {"free", "done"}]
    BY <1>7 DEF LoadMgr, LoadClose, CloseTun
  <2> QED
    BY <1>7, <2>1, <2>2 DEF LoadMgr, LoadClose, CloseTun
<1>8. CASE TornDown(t)
  BY <1>8 DEF TornDown, Return, SetState
<1>9. CASE Background(t)
  BY <1>9 DEF Background, ChildrenComeAndGo, XrayDies
<1> QED
  BY <1>1, <1>2, <1>3, <1>4, <1>5, <1>6, <1>7, <1>8, <1>9 DEF Advance

(* A step of a call is one of a thread that is in it and stays in it or returns, *)
(* and it neither changes what is called nor on which controller.               *)
LEMMA AdvanceMovesPc ==
  ASSUME NEW t \in Threads, TypeOK, Advance(t)
  PROVE  /\ Busy(t)
         /\ \E to \in Connecting \cup TearingDown \cup {"done"} : pc' = [pc EXCEPT ![t] = to]
         /\ UNCHANGED <<self, op>>
<1> USE DEF Busy, Connecting, TearingDown, Goto, TypeOK
<1>1. CASE CheckBinary(t) \/ WriteConfig(t) \/ SmokeTest(t)
  BY <1>1 DEF CheckBinary, WriteConfig, SmokeTest, Phase
<1>2. CASE NewTun(t) \/ LoadTun(t) \/ OpenTun(t)
  BY <1>2 DEF NewTun, LoadTun, OpenTun
<1>3. CASE StartXray(t) \/ Publish(t) \/ SetConnected(t)
  BY <1>3 DEF StartXray, Publish, SetConnected
<1>4. CASE StartedXray(t)
  BY <1>4, StartedXrayEffect
<1>5. CASE CheckMgr(t) \/ LoadMgr(t) \/ StopMgr(t) \/ ResetMgr(t)
  BY <1>5 DEF CheckMgr, LoadMgr, StopMgr, ResetMgr
<1>6. CASE CheckTun(t) \/ LoadClose(t) \/ CloseTun(t) \/ ResetTun(t) \/ TornDown(t)
  BY <1>6 DEF CheckTun, LoadClose, CloseTun, ResetTun, TornDown
<1> QED
  BY <1>1, <1>2, <1>3, <1>4, <1>5, <1>6 DEF Advance

LEMMA CallTypeOK ==
  ASSUME NEW t \in Threads, NEW c \in Controllers, TypeOK, CallConnect(t, c) \/ CallDisconnect(t, c)
  PROVE  TypeOK'
  BY DEF TypeOK, Connecting, TearingDown, object, os, CallConnect, CallDisconnect

LEMMA SameTypeOK == TypeOK /\ UNCHANGED ctrlVars => TypeOK'
  BY DEF TypeOK, ctrlVars, object, os

LEMMA StepTypeOK == TypeOK /\ CallInv /\ [Next]_ctrlVars => TypeOK'
<1>1. CallInv => \A t \in Threads : Busy(t) => self[t] \in Controllers
  BY DEF CallInv, Busy, Connecting, TearingDown
<1> QED
  BY <1>1, SameTypeOK, ThreadTypeOK, CallTypeOK DEF Next

(* Only CallConnect and CallDisconnect assign self and op, and only of a free   *)
(* thread; CallConnect only when no thread has run connect() on the controller. *)
LEMMA StepCallInv == TypeOK /\ CallInv /\ [Next]_ctrlVars => CallInv'
<1> SUFFICES ASSUME TypeOK, CallInv, [Next]_ctrlVars PROVE CallInv'
  OBVIOUS
<1> USE DEF TypeOK, CallInv, Goto, Connecting, TearingDown, object, os
<1>1. ASSUME NEW t \in Threads, CheckBinary(t) \/ WriteConfig(t) \/ SmokeTest(t) PROVE CallInv'
  <2>1. CASE CheckBinary(t)
    BY <2>1 DEF CheckBinary, Phase
  <2>2. CASE WriteConfig(t)
    BY <2>2 DEF WriteConfig, Phase
  <2>3. CASE SmokeTest(t)
    BY <2>3 DEF SmokeTest, Phase
  <2> QED
    BY <1>1, <2>1, <2>2, <2>3
<1>2. ASSUME NEW t \in Threads, NewTun(t) \/ LoadTun(t) \/ OpenTun(t) PROVE CallInv'
  BY <1>2 DEF NewTun, LoadTun, OpenTun
<1>3. ASSUME NEW t \in Threads, StartXray(t) \/ Publish(t) \/ SetConnected(t) PROVE CallInv'
  BY <1>3 DEF StartXray, Publish, SetConnected
<1>4. ASSUME NEW t \in Threads, StartedXray(t) PROVE CallInv'
  BY <1>4, StartedXrayEffect
<1>5. ASSUME NEW t \in Threads, CheckMgr(t) \/ LoadMgr(t) \/ StopMgr(t) \/ ResetMgr(t)
      PROVE CallInv'
  BY <1>5 DEF CheckMgr, LoadMgr, StopMgr, ResetMgr
<1>11. ASSUME NEW t \in Threads, CheckTun(t) \/ LoadClose(t) \/ CloseTun(t) \/ ResetTun(t)
       PROVE CallInv'
  BY <1>11 DEF CheckTun, LoadClose, CloseTun, ResetTun
<1>6. ASSUME NEW t \in Threads, TornDown(t) PROVE CallInv'
  BY <1>6 DEF TornDown
<1>7. ASSUME NEW t \in Threads, Background(t) PROVE CallInv'
  BY <1>7 DEF Background, ChildrenComeAndGo, XrayDies
<1>8. ASSUME NEW t \in Threads, NEW c \in Controllers, Unused(c), CallConnect(t, c) PROVE CallInv'
  BY <1>8 DEF CallConnect, Unused
<1>9. ASSUME NEW t \in Threads, NEW c \in Controllers, CallDisconnect(t, c) PROVE CallInv'
  BY <1>9 DEF CallDisconnect
<1>10. CASE UNCHANGED ctrlVars
  BY <1>10 DEF ctrlVars
<1> QED
  BY <1>1, <1>2, <1>3, <1>4, <1>5, <1>6, <1>7, <1>8, <1>9, <1>10, <1>11
     DEF Next, Advance

-----------------------------------------------------------------------------
(* The argument of XrayReachable.  There is one connect() for the controller,   *)
(* so the manager a teardown has loaded is the only one there will ever be;     *)
(* whoever comes to reset _xray_mgr has stopped it, has seen its stop() raise,  *)
(* or has found None where somebody else has done so.                           *)
LEMMA StepMgrInv == IInv /\ [Next]_ctrlVars => MgrInv'
<1> SUFFICES ASSUME IInv, [Next]_ctrlVars PROVE MgrInv'
  OBVIOUS
<1> USE DEF IInv, TypeOK, CallInv, MgrInv, Tracked, Owning, Published, Goto, Connecting,
            TearingDown, object, os
<1>1. ASSUME NEW t \in Threads, CheckBinary(t) \/ WriteConfig(t) PROVE MgrInv'
  BY <1>1 DEF CheckBinary, WriteConfig, Phase
<1>2. ASSUME NEW t \in Threads, SmokeTest(t) PROVE MgrInv'
  BY <1>2 DEF SmokeTest, Phase
<1>3. ASSUME NEW t \in Threads, NewTun(t) \/ LoadTun(t) \/ OpenTun(t) PROVE MgrInv'
  BY <1>3 DEF NewTun, LoadTun, OpenTun
<1>4. ASSUME NEW t \in Threads, StartXray(t) \/ SetConnected(t) PROVE MgrInv'
  BY <1>4 DEF StartXray, SetConnected
<1>5. ASSUME NEW t \in Threads, StartedXray(t) PROVE MgrInv'
  BY <1>5, StartedXrayEffect
<1>6. ASSUME NEW t \in Threads, Publish(t) PROVE MgrInv'
  BY <1>6 DEF Publish
<1>7. ASSUME NEW t \in Threads, CheckMgr(t) PROVE MgrInv'
  BY <1>7 DEF CheckMgr
<1>8. ASSUME NEW t \in Threads, LoadMgr(t) PROVE MgrInv'
  BY <1>8, NoneAssumption DEF LoadMgr
<1>9. ASSUME NEW t \in Threads, StopMgr(t) PROVE MgrInv'
  BY <1>9, StopMgrEffect
<1>10. ASSUME NEW t \in Threads, ResetMgr(t) PROVE MgrInv'
  BY <1>10 DEF ResetMgr
<1>11. ASSUME NEW t \in Threads, CheckTun(t) \/ LoadClose(t) \/ CloseTun(t) \/ ResetTun(t)
       PROVE MgrInv'
  BY <1>11 DEF CheckTun, LoadClose, CloseTun, ResetTun
<1>12. ASSUME NEW t \in Threads, TornDown(t) PROVE MgrInv'
  BY <1>12 DEF TornDown
<1>13. ASSUME NEW t \in Threads, Background(t) PROVE MgrInv'
  BY <1>13 DEF Background, ChildrenComeAndGo, XrayDies
<1>14. ASSUME NEW t \in Threads, NEW c \in Controllers, CallConnect(t, c) \/ CallDisconnect(t, c)
       PROVE MgrInv'
  BY <1>14 DEF CallConnect, CallDisconnect
<1>15. CASE UNCHANGED ctrlVars
  BY <1>15 DEF ctrlVars
<1> QED
  BY <1>1, <1>2, <1>3, <1>4, <1>5, <1>6, <1>7, <1>8, <1>9, <1>10, <1>11, <1>12, <1>13,
     <1>14, <1>15 DEF Next, Advance

LEMMA StepIInv == IInv /\ [Next]_ctrlVars => IInv'
  BY StepTypeOK, StepCallInv, StepMgrInv DEF IInv

(* The invariant of any page or program that makes its calls as Next does. *)
LEMMA CallsKeepIInv == Init /\ [][Next]_ctrlVars => []IInv
  BY InitIInv, StepIInv, PTL

(* ... and so of the threads' specification. *)
THEOREM Invariance == Spec => []IInv
  BY CallsKeepIInv, PTL DEF Spec

(* Type correctness of the controllers and of the threads that work on them.    *)
THEOREM TypeCorrect == Spec => []TypeOK
<1>1. IInv => TypeOK
  BY DEF IInv
<1> QED
  BY <1>1, Invariance, PTL

LEMMA XrayReachableOfCalls == Init /\ [][Next]_ctrlVars => []XrayReachable
<1>1. IInv => XrayReachable
  BY DEF IInv, MgrInv, Published, XrayReachable
<1> QED
  BY <1>1, CallsKeepIInv, PTL

(* However the checks, loads, stops and resets of several disconnect() calls    *)
(* fall between each other and between the steps of connect(), the controller   *)
(* keeps hold of the manager of every xray that outlives connect(), but for     *)
(* those whose own call raised.                                                 *)
THEOREM XrayReachableHolds == Spec => []XrayReachable
  BY XrayReachableOfCalls, PTL DEF Spec

-----------------------------------------------------------------------------
(* The argument of FailedConnectLeavesNothing: while no other thread works on   *)
(* its controller, the TUN that a connect() opens stays the controller's _tun   *)
(* until CloseTun, which a failed start() always comes through.                 *)

Alone(t) == \A u \in Threads : u # t => self[u] # self[t]

BeforeTun == {"check_binary", "write_config", "smoke_test", "new_tun", "load_tun", "open_tun"}

TunInv ==
  /\ \A t \in Threads : pc[t] = "free" => self[t] = None
  /\ \A t \in Threads : result[t] # None => pc[t] = "done"
  /\ \A t \in tunfd : op[t] = "connect" /\ pc[t] \notin BeforeTun
  /\ \A t \in Threads : Alone(t) /\ pc[t] \in {"load_tun", "open_tun"} => tun[self[t]] = t
  /\ \A t \in tunfd : Alone(t) /\ pc[t] # "done" =>
       tun[self[t]] = t /\ pc[t] \notin {"reset_tun", "set_state"}
  /\ \A t \in Threads : Alone(t) /\ pc[t] = "close_tun" => held[t] = tun[self[t]]
  /\ \A t \in Threads : op[t] = "connect" /\ Alone(t) /\ result[t] = "error" => t \notin tunfd
  /\ \A t \in Threads : op[t] = "connect" /\ result[t] = "error" => t \notin xray

LEMMA InitTunInv == Init => TunInv
  BY DEF Init, TunInv, BeforeTun

LEMMA StepTunInv == IInv /\ TunInv /\ [Next]_ctrlVars => TunInv'
<1> SUFFICES ASSUME IInv, TunInv, [Next]_ctrlVars PROVE TunInv'
  OBVIOUS
<1> USE DEF IInv, TypeOK, CallInv, TunInv, Alone, BeforeTun, Goto, Connecting, TearingDown,
            object, os
<1>1. ASSUME NEW t \in Threads, CheckBinary(t) PROVE TunInv'
  BY <1>1 DEF CheckBinary, Phase, Return, SetState, MgrInv, Owning, Published
<1>2. ASSUME NEW t \in Threads, WriteConfig(t) PROVE TunInv'
  BY <1>2 DEF WriteConfig, Phase, Return, SetState, MgrInv, Owning, Published
<1>3. ASSUME NEW t \in Threads, SmokeTest(t) PROVE TunInv'
  BY <1>3 DEF SmokeTest, Phase, Return, SetState, MgrInv, Owning, Published
<1>4. ASSUME NEW t \in Threads, NewTun(t) PROVE TunInv'
  BY <1>4 DEF NewTun
<1>5. ASSUME NEW t \in Threads, LoadTun(t) PROVE TunInv'
  BY <1>5 DEF LoadTun
<1>6. ASSUME NEW t \in Threads, OpenTun(t) PROVE TunInv'
  BY <1>6 DEF OpenTun
<1>7. ASSUME NEW t \in Threads, StartXray(t) PROVE TunInv'
  BY <1>7 DEF StartXray
<1>8. ASSUME NEW t \in Threads, StartedXray(t) PROVE TunInv'
  BY <1>8, StartedXrayEffect
<1>9. ASSUME NEW t \in Threads, Publish(t) PROVE TunInv'
  BY <1>9 DEF Publish
<1>10. ASSUME NEW t \in Threads, SetConnected(t) PROVE TunInv'
  BY <1>10 DEF SetConnected, Return, SetState
<1>11. ASSUME NEW t \in Threads, CheckMgr(t) \/ LoadMgr(t) \/ ResetMgr(t) PROVE TunInv'
  BY <1>11 DEF CheckMgr, LoadMgr, ResetMgr
<1>18. ASSUME NEW t \in Threads, StopMgr(t) PROVE TunInv'
  BY <1>18, StopMgrEffect
<1>12. ASSUME NEW t \in Threads, CheckTun(t) PROVE TunInv'
  BY <1>12 DEF CheckTun
<1>13. ASSUME NEW t \in Threads, CloseTun(t) PROVE TunInv'
  BY <1>13 DEF CloseTun
<1>19. ASSUME NEW t \in Threads, LoadClose(t) PROVE TunInv'
  BY <1>19 DEF LoadClose
<1>20. ASSUME NEW t \in Threads, ResetTun(t) PROVE TunInv'
  BY <1>20 DEF ResetTun
<1>14. ASSUME NEW t \in Threads, TornDown(t) PROVE TunInv'
  BY <1>14 DEF TornDown, Return, SetState, MgrInv, Owning, Published
<1>15. ASSUME NEW t \in Threads, Background(t) PROVE TunInv'
  BY <1>15 DEF Background, ChildrenComeAndGo, XrayDies
<1>16. ASSUME NEW t \in Threads, NEW c \in Controllers, CallConnect(t, c) \/ CallDisconnect(t, c)
       PROVE TunInv'
  BY <1>16 DEF CallConnect, CallDisconnect
<1>17. CASE UNCHANGED ctrlVars
  BY <1>17 DEF ctrlVars
<1> QED
  BY <1>1, <1>2, <1>3, <1>4, <1>5, <1>6, <1>7, <1>8, <1>9, <1>10, <1>11, <1>12, <1>13,
     <1>14, <1>15, <1>16, <1>17, <1>18, <1>19, <1>20 DEF Next, Advance

LEMMA FailedConnectOfCalls == Init /\ [][Next]_ctrlVars => []FailedConnectLeavesNothing
<1>1. TunInv /\ IInv => FailedConnectLeavesNothing
  BY DEF TunInv, IInv, TypeOK, Alone, FailedConnectLeavesNothing
<1> QED
  BY <1>1, InitTunInv, StepTunInv, CallsKeepIInv, PTL

(* A connect() that fails leaves neither an xray nor a TUN behind. *)
THEOREM FailedConnectLeavesNothingHolds == Spec => []FailedConnectLeavesNothing
  BY FailedConnectOfCalls, PTL DEF Spec

-----------------------------------------------------------------------------
(* The page. *)
USE MaxClicksAssumption

-----------------------------------------------------------------------------
(* Types, for any number of clicks ahead of the page's update.  A worker calls  *)
(* a method only when there is a controller, since `controller` never goes back *)
(* to None and the handler starts a disconnect() only on an active one.         *)
CallsAnObject ==
  /\ \A t \in Threads : job[t] \in {"call_connect", "disconnect"} => current # None
  /\ \A t \in Threads : pc[t] # "free" => self[t] \in Controllers

LEMMA InitGuiTypeOK == GuiInit => GuiTypeOK /\ CallsAnObject
  BY DEF GuiInit, Init, GuiTypeOK, TypeOK, CallsAnObject, Connecting, TearingDown

LEMMA StepGuiTypeOK ==
  GuiTypeOK /\ CallsAnObject /\ [GuiNext]_allVars => GuiTypeOK' /\ CallsAnObject'
<1> SUFFICES ASSUME GuiTypeOK, CallsAnObject, [GuiNext]_allVars
             PROVE  GuiTypeOK' /\ CallsAnObject'
  OBVIOUS
<1> USE DEF GuiTypeOK, CallsAnObject, Job
<1>1. ASSUME UNCHANGED ctrlVars PROVE TypeOK' /\ UNCHANGED <<pc, self>>
  BY <1>1, SameTypeOK DEF ctrlVars
<1>2. CASE Click
  BY <1>1, <1>2 DEF Click
<1>3. ASSUME NEW t \in Threads, OnButtonClick(t) PROVE GuiTypeOK' /\ CallsAnObject'
  <2>1. TypeOK'
    BY <1>1, <1>3 DEF OnButtonClick
  <2>2. job' \in [Threads -> {"none", "connect", "call_connect", "disconnect", "running", "shown"}]
    BY <1>3 DEF OnButtonClick
  <2>3. CallsAnObject'
    BY <1>1, <1>3 DEF OnButtonClick, Active
  <2>4. clicks' \in 0..MaxClicks /\ enabled' = FALSE /\ UNCHANGED <<current, created, label>>
    BY <1>3 DEF OnButtonClick
  <2> QED
    BY <2>1, <2>2, <2>3, <2>4
<1>4. ASSUME NEW t \in Threads, NewController(t) PROVE GuiTypeOK' /\ CallsAnObject'
  <2>1. TypeOK' /\ UNCHANGED <<pc, self>>
    BY <1>1, <1>4 DEF NewController
  <2> QED
    BY <1>4, <2>1 DEF NewController
<1>5. ASSUME NEW t \in Threads, WorkerConnect(t) \/ WorkerDisconnect(t)
      PROVE GuiTypeOK' /\ CallsAnObject'
  <2>1. current \in Controllers
    BY <1>5 DEF WorkerConnect, WorkerDisconnect
  <2>2. TypeOK'
    BY <1>5, <2>1, CallTypeOK DEF WorkerConnect, WorkerDisconnect
  <2>3. \A u \in Threads : pc'[u] # "free" => self'[u] \in Controllers
    BY <1>5, <2>1 DEF WorkerConnect, WorkerDisconnect, CallConnect, CallDisconnect, TypeOK
  <2> QED
    BY <1>5, <2>2, <2>3 DEF WorkerConnect, WorkerDisconnect
<1>6. ASSUME NEW t \in Threads, OnResult(t) PROVE GuiTypeOK' /\ CallsAnObject'
  BY <1>1, <1>6 DEF OnResult
<1>7. ASSUME NEW t \in Threads, Advance(t) \/ Background(t), UNCHANGED guiVars
      PROVE GuiTypeOK' /\ CallsAnObject'
  <2>1. TypeOK'
    BY <1>7, ThreadTypeOK DEF Busy, Connecting, TearingDown
  <2>2. /\ self' = self
        /\ \A u \in Threads : pc'[u] # "free" => pc[u] # "free"
    <3>1. CASE Advance(t)
      BY <3>1, AdvanceMovesPc DEF TypeOK, Busy, Connecting, TearingDown
    <3>2. CASE Background(t)
      BY <3>2 DEF Background, ChildrenComeAndGo, XrayDies
    <3> QED
      BY <1>7, <3>1, <3>2
  <2> QED
    BY <1>7, <2>1, <2>2 DEF guiVars
<1>8. CASE UNCHANGED allVars
  BY <1>1, <1>8 DEF allVars, guiVars
<1> QED
  BY <1>2, <1>3, <1>4, <1>5, <1>6, <1>7, <1>8 DEF GuiNext, Worker

(* Type correctness of the page, its workers and its controllers. *)
THEOREM GuiTypeCorrect == GuiSpec => []GuiTypeOK
  BY InitGuiTypeOK, StepGuiTypeOK, PTL DEF GuiSpec

-----------------------------------------------------------------------------
OneClickAtATime == MaxClicks = 1

(* A worker that has not been shown to the user yet.                            *)
Waiting == {"connect", "call_connect", "disconnect"}
Working == Waiting \cup {"running"}

(* One worker at a time: the button is enabled only when there is none.         *)
WorkerInv ==
  /\ clicks > 0 => enabled
  /\ \A t \in Threads : job[t] \in Working => ~enabled
  /\ \A t, u \in Threads : job[t] \in Working /\ job[u] \in Working => t = u
  /\ \A t \in Threads : pc[t] = "free" <=> job[t] \in Waiting \cup {"none"}
  /\ \A t \in Threads : job[t] = "shown" => pc[t] = "done"

(* The controller in `controller` is the one that is worked on, and a           *)
(* controller no connect() has been called on is as __init__() left it.         *)
CurrentInv ==
  /\ \A t \in Threads : pc[t] # "free" => self[t] \in created /\ ~Unused(self[t])
  /\ \A t \in Threads : Busy(t) => self[t] = current
  /\ \A t \in Threads : job[t] = "connect" => ~Active(current)
  /\ \A t \in Threads : job[t] = "call_connect" => current # None /\ Unused(current)
  /\ \A t \in Threads : job[t] = "disconnect" => Active(current)
  /\ \A c \in Controllers : Unused(c) => state[c] = "idle"
  /\ \A t \in Threads : op[t] = "connect" /\ Busy(t) => state[current] = "connecting"
  /\ \A t \in Threads : op[t] = "disconnect" /\ pc[t] = "done" => state[self[t]] = "idle"

MgrStopped == {"reset_mgr", "check_tun", "load_close", "close_tun", "reset_tun", "set_state"}

(* Whatever is live or open is the current controller's, which can reach it;    *)
(* each step of _teardown() leaves nothing of what it has passed; and between   *)
(* two calls something is left only under a state that makes the next click a   *)
(* disconnect().                                                                *)
TunnelInv ==
  /\ ReplacedOwnNothing
  /\ \A t \in tunfd : op[t] = "connect" /\ tun[current] = t
  /\ \A t \in Threads : pc[t] \in {"load_tun", "open_tun"} => tun[current] = t
  /\ \A t \in Threads : pc[t] \in BeforeTun => tunfd = {}
  /\ \A t \in Threads : pc[t] = "stop_mgr" => held[t] = xray_mgr[current]
  /\ \A t \in Threads : pc[t] \in MgrStopped => Tracked = {}
  /\ \A t \in Threads : pc[t] = "close_tun" => held[t] = tun[current]
  /\ \A t \in Threads : pc[t] \in {"reset_tun", "set_state"} => tunfd = {}
  /\ (\A t \in Threads : ~Busy(t)) /\ ~Active(current) => Tracked = {} /\ tunfd = {}

(* A connected state is under "Disconnect", or will be by the result to come.   *)
ButtonInv ==
  current # None /\ state[current] = "connected" =>
    /\ \/ label = "Disconnect"
       \/ \E t \in Threads : job[t] = "running" /\ pc[t] = "done"
    /\ \A t \in Threads : job[t] = "running" /\ pc[t] = "done" => result[t] = "ok"

GuiIInv == IInv /\ GuiTypeOK /\ WorkerInv /\ CurrentInv /\ TunnelInv /\ ButtonInv

-----------------------------------------------------------------------------
LEMMA InitGuiIInv == GuiInit => GuiIInv
<1> SUFFICES ASSUME GuiInit PROVE GuiIInv
  OBVIOUS
<1> USE DEF GuiInit, Init
<1>1. IInv /\ GuiTypeOK
  BY InitIInv, InitGuiTypeOK
<1>2. WorkerInv /\ ButtonInv
  BY DEF WorkerInv, ButtonInv, Waiting, Working
<1>3. CurrentInv
  BY DEF CurrentInv, Busy, Connecting, TearingDown
<1>4. TunnelInv
  BY DEF TunnelInv, ReplacedOwnNothing, Tracked, BeforeTun, MgrStopped
<1> QED
  BY <1>1, <1>2, <1>3, <1>4 DEF GuiIInv

(* A call assigns the state of its controller, after connect() has begun, only  *)
(* as the last thing it does, and then answers ok if the state is connected; a  *)
(* disconnect() leaves it idle, and only an exception of start() as it was.     *)
LEMMA AdvanceSetsState ==
  ASSUME NEW t \in Threads, TypeOK, CallInv, Advance(t)
  PROVE  \/ state' = state /\ (pc'[t] = "done" => op[t] = "connect")
         \/ /\ pc'[t] = "done"
            /\ \E s \in {"idle", "connected", "error"} :
                 /\ state' = [state EXCEPT ![self[t]] = s]
                 /\ s = "connected" => result'[t] = "ok"
                 /\ op[t] = "disconnect" => s = "idle"
<1> USE DEF Goto, Return, SetState, TypeOK, CallInv, Connecting, TearingDown, object
<1>1. CASE CheckBinary(t) \/ WriteConfig(t) \/ SmokeTest(t)
  BY <1>1 DEF CheckBinary, WriteConfig, SmokeTest, Phase
<1>2. CASE NewTun(t) \/ LoadTun(t) \/ OpenTun(t)
  BY <1>2 DEF NewTun, LoadTun, OpenTun
<1>3. CASE StartXray(t) \/ Publish(t) \/ SetConnected(t)
  BY <1>3 DEF StartXray, Publish, SetConnected
<1>4. CASE StartedXray(t)
  BY <1>4, StartedXrayEffect
<1>5. CASE CheckMgr(t) \/ LoadMgr(t) \/ StopMgr(t) \/ ResetMgr(t)
  BY <1>5 DEF CheckMgr, LoadMgr, StopMgr, ResetMgr
<1>6. CASE CheckTun(t) \/ LoadClose(t) \/ CloseTun(t) \/ ResetTun(t)
  BY <1>6 DEF CheckTun, LoadClose, CloseTun, ResetTun
<1>7. CASE TornDown(t)
  BY <1>7 DEF TornDown
<1> QED
  BY <1>1, <1>2, <1>3, <1>4, <1>5, <1>6, <1>7 DEF Advance

(* What is known of a thread in the middle of a call: it is the only one, and   *)
(* it works on the current controller.                                          *)
LEMMA OnlyOneBusy ==
  ASSUME GuiIInv, NEW t \in Threads, Busy(t)
  PROVE  /\ job[t] = "running"
         /\ \A u \in Threads : job[u] \in Working => u = t
         /\ \A u \in Threads : u # t => pc[u] \in {"free", "done"}
         /\ self[t] = current /\ current \in created
         /\ op[t] = "connect" => state[current] = "connecting"
<1> USE DEF GuiIInv, GuiTypeOK, TypeOK, WorkerInv, CurrentInv, Busy, Waiting, Working, Connecting,
            TearingDown
<1>1. job[t] = "running"
  OBVIOUS
<1>2. ASSUME NEW u \in Threads, pc[u] \notin {"free", "done"} PROVE job[u] = "running"
  BY <1>2
<1> QED
  BY <1>1, <1>2

(* The page calls a controller only as ConnectionController lets it be called:  *)
(* connect() on one that is new, disconnect() on one that is not.               *)
LEMMA StepIsControllerStep == GuiIInv /\ [GuiNext]_allVars => [Next]_ctrlVars
<1> SUFFICES ASSUME GuiIInv, [GuiNext]_allVars PROVE [Next]_ctrlVars
  OBVIOUS
<1> USE DEF GuiIInv, GuiTypeOK, CurrentInv, Job
<1>1. CASE Click \/ UNCHANGED allVars
  BY <1>1 DEF Click, allVars
<1>2. ASSUME NEW t \in Threads, OnButtonClick(t) \/ NewController(t) \/ OnResult(t)
      PROVE UNCHANGED ctrlVars
  BY <1>2 DEF OnButtonClick, NewController, OnResult
<1>3. ASSUME NEW t \in Threads, WorkerConnect(t) PROVE Next
  <2>1. current \in Controllers /\ Unused(current) /\ CallConnect(t, current)
    BY <1>3 DEF WorkerConnect
  <2> QED
    BY <2>1 DEF Next
<1>4. ASSUME NEW t \in Threads, WorkerDisconnect(t) PROVE Next
  <2>1. current \in Controllers /\ ~Unused(current) /\ CallDisconnect(t, current)
    BY <1>4 DEF WorkerDisconnect, Active
  <2> QED
    BY <2>1 DEF Next
<1>5. ASSUME NEW t \in Threads, Advance(t) \/ Background(t) PROVE Next
  BY <1>5 DEF Next
<1> QED
  BY <1>1, <1>2, <1>3, <1>4, <1>5 DEF GuiNext, Worker

LEMMA StepWorkerInv ==
  OneClickAtATime /\ GuiIInv /\ [GuiNext]_allVars => WorkerInv'
<1> SUFFICES ASSUME OneClickAtATime, GuiIInv, [GuiNext]_allVars PROVE WorkerInv'
  OBVIOUS
<1> USE DEF OneClickAtATime, GuiIInv, GuiTypeOK, TypeOK, WorkerInv, Waiting, Working, Job
<1>1. CASE Click
  BY <1>1 DEF Click, ctrlVars
<1>2. ASSUME NEW t \in Threads, OnButtonClick(t) PROVE WorkerInv'
  BY <1>2 DEF OnButtonClick, ctrlVars
<1>3. ASSUME NEW t \in Threads, NewController(t) PROVE WorkerInv'
  BY <1>3 DEF NewController, ctrlVars
<1>4. ASSUME NEW t \in Threads, WorkerConnect(t) \/ WorkerDisconnect(t) PROVE WorkerInv'
  BY <1>4 DEF WorkerConnect, WorkerDisconnect, CallConnect, CallDisconnect
<1>5. ASSUME NEW t \in Threads, OnResult(t) PROVE WorkerInv'
  BY <1>5 DEF OnResult, ctrlVars
<1>6. ASSUME NEW t \in Threads, Advance(t), UNCHANGED guiVars PROVE WorkerInv'
  <2>1. Busy(t) /\ \E to \in Connecting \cup TearingDown \cup {"done"} : pc' = [pc EXCEPT ![t] = to]
    BY <1>6, AdvanceMovesPc
  <2> QED
    BY <1>6, <2>1 DEF guiVars, Busy, Connecting, TearingDown
<1>7. ASSUME NEW t \in Threads, Background(t), UNCHANGED guiVars PROVE WorkerInv'
  BY <1>7 DEF Background, ChildrenComeAndGo, XrayDies, guiVars
<1>8. CASE UNCHANGED allVars
  BY <1>8 DEF allVars, ctrlVars, guiVars
<1> QED
  BY <1>1, <1>2, <1>3, <1>4, <1>5, <1>6, <1>7, <1>8 DEF GuiNext, Worker

LEMMA StepCurrentInv == GuiIInv /\ [GuiNext]_allVars => CurrentInv'
<1> SUFFICES ASSUME GuiIInv, [GuiNext]_allVars PROVE CurrentInv'
  OBVIOUS
<1> USE DEF GuiIInv, GuiTypeOK, TypeOK, WorkerInv, CurrentInv, Waiting, Working, Job, Busy,
            Connecting, TearingDown, Active, Unused
<1>1. CASE Click
  <2>1. UNCHANGED <<state, pc, self, op, current, created, job>>
    BY <1>1 DEF Click, ctrlVars, object
  <2> QED
    BY <2>1
<1>2. ASSUME NEW t \in Threads, OnButtonClick(t) PROVE CurrentInv'
  <2>1. UNCHANGED <<state, pc, self, op, current, created>>
    BY <1>2 DEF OnButtonClick, ctrlVars, object
  <2>2. \/ job' = [job EXCEPT ![t] = "disconnect"] /\ Active(current)
        \/ job' = [job EXCEPT ![t] = "connect"] /\ ~Active(current)
    BY <1>2 DEF OnButtonClick
  <2> QED
    BY <2>1, <2>2
<1>3. ASSUME NEW t \in Threads, NewController(t) PROVE CurrentInv'
  <2>1. PICK c \in Controllers \ created : current' = c /\ created' = created \cup {c}
    BY <1>3 DEF NewController
  <2>2. Unused(c) /\ state[c] = "idle" /\ c # None
    BY <2>1, NoneAssumption DEF IInv, CallInv
  <2>3. \A u \in Threads : ~Busy(u)
    BY <1>3 DEF NewController
  <2> QED
    BY <1>3, <2>1, <2>2, <2>3 DEF NewController, ctrlVars, object
<1>4. ASSUME NEW t \in Threads, WorkerConnect(t) PROVE CurrentInv'
  <2>1. /\ pc[t] = "free" /\ pc' = [pc EXCEPT ![t] = "check_binary"]
        /\ self' = [self EXCEPT ![t] = current] /\ op' = [op EXCEPT ![t] = "connect"]
        /\ state' = [state EXCEPT ![current] = "connecting"]
        /\ job[t] = "call_connect" /\ job' = [job EXCEPT ![t] = "running"]
        /\ current' = current /\ created' = created
    BY <1>4 DEF WorkerConnect, CallConnect
  <2>2. \A u \in Threads : u # t => job[u] \notin Working /\ ~Busy(u)
    BY <2>1
  <2>3. current \in created /\ op[t] = None
    BY <2>1 DEF IInv, CallInv
  <2> QED
    BY <2>1, <2>2, <2>3
<1>5. ASSUME NEW t \in Threads, WorkerDisconnect(t) PROVE CurrentInv'
  <2>1. /\ pc[t] = "free" /\ pc' = [pc EXCEPT ![t] = "check_mgr"]
        /\ self' = [self EXCEPT ![t] = current] /\ op' = [op EXCEPT ![t] = "disconnect"]
        /\ job[t] = "disconnect" /\ job' = [job EXCEPT ![t] = "running"]
        /\ state' = state /\ current' = current /\ created' = created
    BY <1>5 DEF WorkerDisconnect, CallDisconnect, object
  <2>2. \A u \in Threads : u # t => job[u] \notin Working /\ ~Busy(u)
    BY <2>1
  <2>3. current \in created /\ op[t] = None
    BY <2>1 DEF IInv, CallInv
  <2> QED
    BY <2>1, <2>2, <2>3
<1>6. ASSUME NEW t \in Threads, OnResult(t) PROVE CurrentInv'
  <2>1. UNCHANGED <<state, pc, self, op, current, created>> /\ job' = [job EXCEPT ![t] = "shown"]
    BY <1>6 DEF OnResult, ctrlVars, object
  <2> QED
    BY <2>1
<1>7. ASSUME NEW t \in Threads, Advance(t), UNCHANGED guiVars PROVE CurrentInv'
  <2>1. Busy(t) /\ \E to \in Connecting \cup TearingDown \cup {"done"} : pc' = [pc EXCEPT ![t] = to]
    BY <1>7, AdvanceMovesPc
  <2>2. UNCHANGED <<self, op>>
    BY <1>7, AdvanceMovesPc
  <2>3. \/ state' = state /\ (pc'[t] = "done" => op[t] = "connect")
        \/ /\ pc'[t] = "done"
           /\ \E s \in {"idle", "connected", "error"} :
                /\ state' = [state EXCEPT ![self[t]] = s]
                /\ op[t] = "disconnect" => s = "idle"
    BY <1>7, AdvanceSetsState DEF IInv
  <2>4. UNCHANGED <<current, created, job>>
    BY <1>7 DEF guiVars
  <2>5. /\ job[t] = "running" /\ \A u \in Threads : job[u] \in Working => u = t
        /\ \A u \in Threads : u # t => pc[u] \in {"free", "done"}
        /\ self[t] = current /\ current \in created
    BY <2>1, OnlyOneBusy
  <2>6. ~Unused(current)
    BY <2>5 DEF IInv, CallInv
  <2>7. CASE state' = state /\ (pc'[t] = "done" => op[t] = "connect")
    BY <2>1, <2>2, <2>4, <2>5, <2>7
  <2>8. CASE /\ pc'[t] = "done"
             /\ \E s \in {"idle", "connected", "error"} :
                  /\ state' = [state EXCEPT ![self[t]] = s]
                  /\ op[t] = "disconnect" => s = "idle"
    <3>1. \A u \in Threads : ~Busy(u)'
      BY <2>1, <2>5, <2>8
    <3>2. \A c \in Controllers : Unused(c)' => state'[c] = "idle"
      BY <2>2, <2>5, <2>6, <2>8
    <3>3. \A u \in Threads : job'[u] \notin Waiting
      BY <2>4, <2>5
    <3>4. op[t] # "connect" => op[t] = "disconnect"
      BY <2>1 DEF IInv, CallInv
    <3>5. ASSUME NEW u \in Threads, op[u] = "disconnect", pc'[u] = "done"
          PROVE  state'[self[u]] = "idle"
      <4>1. CASE self[u] # current
        BY <2>1, <2>5, <2>8, <3>5, <4>1
      <4>2. CASE self[u] = current
        BY <2>1, <2>5, <2>8, <3>4, <3>5, <4>2
      <4> QED
        BY <4>1, <4>2
    <3> QED
      BY <2>1, <2>2, <2>4, <2>5, <3>1, <3>2, <3>3, <3>5
  <2> QED
    BY <2>3, <2>7, <2>8
<1>8. ASSUME NEW t \in Threads, Background(t), UNCHANGED guiVars PROVE CurrentInv'
  BY <1>8 DEF Background, ChildrenComeAndGo, XrayDies, guiVars, object
<1>9. CASE UNCHANGED allVars
  BY <1>9 DEF allVars, ctrlVars, guiVars, object
<1> QED
  BY <1>1, <1>2, <1>3, <1>4, <1>5, <1>6, <1>7, <1>8, <1>9 DEF GuiNext, Worker

(* One step of a call, under what OnlyOneBusy says of the thread that takes it. *)
LEMMA AdvanceTunnelInv ==
  ASSUME GuiIInv, NEW t \in Threads, Advance(t), UNCHANGED guiVars
  PROVE  TunnelInv'
<1>1. Busy(t) /\ UNCHANGED <<self, op>>
  BY AdvanceMovesPc DEF GuiIInv, GuiTypeOK
<1>2. /\ job[t] = "running"
      /\ \A u \in Threads : u # t => pc[u] \in {"free", "done"}
      /\ self[t] = current /\ current \in Controllers /\ current # None
      /\ op[t] = "connect" => state[current] = "connecting"
  BY <1>1, OnlyOneBusy, NoneAssumption DEF GuiIInv, GuiTypeOK
<1>3. UNCHANGED <<current, job>>
  BY DEF guiVars
<1>4. \A u \in Tracked : u # t => pc[u] = "done" /\ xray_mgr[current] = u
  BY <1>2 DEF GuiIInv, IInv, CallInv, MgrInv, Owning, Published, TunnelInv, ReplacedOwnNothing,
              Tracked, GuiTypeOK, TypeOK
<1>5. pc[t] \in Connecting =>
        /\ state[current] = "connecting"
        /\ Tracked \cup tunfd \subseteq {t}
        /\ pc[t] \notin Owning \cup Published => Tracked = {}
  BY <1>2 DEF GuiIInv, IInv, CallInv, MgrInv, TunnelInv, ReplacedOwnNothing, Tracked, GuiTypeOK,
              TypeOK
<1> USE DEF GuiIInv, GuiTypeOK, TypeOK, TunnelInv, ReplacedOwnNothing, Tracked, Active, Busy,
            Connecting, TearingDown, BeforeTun, MgrStopped, Owning, Published, Goto, object, os
<1>6. CASE CheckBinary(t) \/ WriteConfig(t) \/ SmokeTest(t)
  <2>1. /\ pc[t] \in {"check_binary", "write_config", "smoke_test"}
        /\ pc'[t] \in {"write_config", "smoke_test", "new_tun", "start_xray", "done"}
        /\ \A u \in Threads : u # t => pc'[u] = pc[u]
        /\ UNCHANGED <<xray_mgr, tun, held, xray, tunfd, abandoned>>
    BY <1>6 DEF CheckBinary, WriteConfig, SmokeTest, Phase
  <2>2. Tracked = {} /\ tunfd = {}
    BY <1>5, <2>1
  <2> QED
    BY <1>1, <1>2, <1>3, <2>1, <2>2
<1>7. CASE NewTun(t) \/ LoadTun(t) \/ OpenTun(t)
  <2>1. Tracked = {} /\ pc[t] \in BeforeTun
    BY <1>5, <1>7 DEF NewTun, LoadTun, OpenTun
  <2>2. CASE NewTun(t)
    BY <1>1, <1>2, <1>3, <2>1, <2>2 DEF NewTun
  <2>3. CASE LoadTun(t)
    BY <1>1, <1>2, <1>3, <2>1, <2>3 DEF LoadTun
  <2>4. CASE OpenTun(t)
    <3>1. tunfd' \subseteq {t} /\ tun[current] = t /\ op[t] = "connect"
      BY <2>1, <2>4 DEF OpenTun, IInv, CallInv
    <3> QED
      BY <1>1, <1>2, <1>3, <2>1, <2>4, <3>1 DEF OpenTun
  <2> QED
    BY <1>7, <2>2, <2>3, <2>4
<1>8. CASE StartXray(t) \/ Publish(t) \/ SetConnected(t)
  BY <1>1, <1>2, <1>3, <1>5, <1>8 DEF StartXray, Publish, SetConnected, Return, SetState
<1>9. CASE StartedXray(t)
  <2>1. /\ UNCHANGED <<object, held, tunfd>> /\ pc[t] = "starting"
        /\ pc' = [pc EXCEPT ![t] = "publish"] \/ pc' = [pc EXCEPT ![t] = "check_mgr"]
             \/ pc' = [pc EXCEPT ![t] = "done"]
        /\ Tracked' \subseteq Tracked \cup {t}
    BY <1>9, StartedXrayEffect
  <2> QED
    BY <1>1, <1>2, <1>3, <1>5, <2>1
<1>10. CASE CheckMgr(t)
  BY <1>1, <1>2, <1>3, <1>4, <1>10 DEF CheckMgr, IInv, MgrInv
<1>11. CASE LoadMgr(t) \/ ResetMgr(t)
  BY <1>1, <1>2, <1>3, <1>4, <1>11, NoneAssumption DEF LoadMgr, ResetMgr, IInv, MgrInv
<1>12. CASE StopMgr(t)
  BY <1>1, <1>2, <1>3, <1>4, <1>12, StopMgrEffect DEF IInv, MgrInv
<1>13. CASE CheckTun(t) \/ LoadClose(t)
  BY <1>1, <1>2, <1>3, <1>13, NoneAssumption DEF CheckTun, LoadClose
<1>14. CASE CloseTun(t) \/ ResetTun(t)
  BY <1>1, <1>2, <1>3, <1>14 DEF CloseTun, ResetTun
<1>15. CASE TornDown(t)
  BY <1>1, <1>2, <1>3, <1>15 DEF TornDown, Return, SetState
<1> QED
  BY <1>6, <1>7, <1>8, <1>9, <1>10, <1>11, <1>12, <1>13, <1>14, <1>15 DEF Advance

LEMMA StepTunnelInv == GuiIInv /\ [GuiNext]_allVars => TunnelInv'
<1> SUFFICES ASSUME GuiIInv, [GuiNext]_allVars PROVE TunnelInv'
  OBVIOUS
<1> USE DEF GuiIInv, GuiTypeOK, TypeOK, TunnelInv, ReplacedOwnNothing, Tracked, Active, Busy,
            Connecting, TearingDown, BeforeTun, MgrStopped, Job
<1>1. ASSUME UNCHANGED <<ctrlVars, current>> PROVE TunnelInv'
  BY <1>1 DEF ctrlVars, object, os
<1>2. CASE Click \/ UNCHANGED allVars
  BY <1>1, <1>2 DEF Click, allVars, guiVars
<1>3. ASSUME NEW t \in Threads, OnButtonClick(t) \/ OnResult(t) PROVE TunnelInv'
  BY <1>1, <1>3 DEF OnButtonClick, OnResult
<1>4. ASSUME NEW t \in Threads, job[t] \in Waiting, ~Active(current)
      PROVE Tracked = {} /\ tunfd = {} /\ \A u \in Threads : ~Busy(u)
  BY <1>4 DEF WorkerInv, Waiting, Working
<1>5. ASSUME NEW t \in Threads, NewController(t) PROVE TunnelInv'
  <2>1. /\ job[t] = "connect" /\ UNCHANGED <<state, xray, tunfd, abandoned, pc, tun, self>>
        /\ \E c \in Controllers \ created : current' = c
    BY <1>5 DEF NewController, ctrlVars, object, os
  <2>2. Tracked = {} /\ tunfd = {} /\ \A u \in Threads : ~Busy(u)
    BY <1>4, <2>1 DEF CurrentInv, Waiting
  <2> QED
    BY <2>1, <2>2
<1>6. ASSUME NEW t \in Threads, WorkerConnect(t) PROVE TunnelInv'
  <2>1. Tracked = {} /\ tunfd = {} /\ \A u \in Threads : ~Busy(u)
    BY <1>4, <1>6 DEF WorkerConnect, CurrentInv, Waiting
  <2> QED
    BY <1>6, <2>1 DEF WorkerConnect, CallConnect, os
<1>7. ASSUME NEW t \in Threads, WorkerDisconnect(t) PROVE TunnelInv'
  <2>1. /\ pc[t] = "free" /\ pc' = [pc EXCEPT ![t] = "check_mgr"]
        /\ self' = [self EXCEPT ![t] = current] /\ op' = [op EXCEPT ![t] = "disconnect"]
        /\ UNCHANGED <<state, xray_mgr, tun, held, xray, tunfd, abandoned, current>>
    BY <1>7 DEF WorkerDisconnect, CallDisconnect, object, os
  <2>2. t \notin xray \cup tunfd
    BY <2>1 DEF IInv, CallInv, MgrInv
  <2>3. \A u \in Threads : ~Busy(u)
    BY <1>7 DEF WorkerDisconnect, WorkerInv, Waiting, Working
  <2> QED
    BY <2>1, <2>2, <2>3
<1>8. ASSUME NEW t \in Threads, Advance(t), UNCHANGED guiVars PROVE TunnelInv'
  BY <1>8, AdvanceTunnelInv
<1>9. ASSUME NEW t \in Threads, Background(t), UNCHANGED guiVars PROVE TunnelInv'
  <2>1. UNCHANGED <<state, pc, self, op, xray_mgr, tun, held, tunfd, abandoned, current>>
    BY <1>9 DEF Background, ChildrenComeAndGo, XrayDies, guiVars, object
  <2>2. CASE xray' \subseteq xray
    BY <2>1, <2>2
  <2>3. CASE pc[t] = "starting" /\ xray' = xray \cup {t}
    <3>1. self[t] = current /\ \A u \in Threads : u # t => pc[u] \in {"free", "done"}
      BY <2>3, OnlyOneBusy
    <3> QED
      BY <2>1, <2>3, <3>1
  <2> QED
    BY <1>9, <2>2, <2>3 DEF Background, ChildrenComeAndGo, XrayDies
<1> QED
  BY <1>2, <1>3, <1>5, <1>6, <1>7, <1>8, <1>9 DEF GuiNext, Worker

LEMMA StepButtonInv == GuiIInv /\ [GuiNext]_allVars => ButtonInv'
<1> SUFFICES ASSUME GuiIInv, [GuiNext]_allVars PROVE ButtonInv'
  OBVIOUS
<1> USE DEF GuiIInv, GuiTypeOK, TypeOK, ButtonInv, WorkerInv, Waiting, Working, Job
<1>1. CASE Click \/ UNCHANGED allVars
  BY <1>1 DEF Click, allVars, guiVars, ctrlVars, object
<1>2. ASSUME NEW t \in Threads, OnButtonClick(t) PROVE ButtonInv'
  BY <1>2 DEF OnButtonClick, ctrlVars, object
<1>3. ASSUME NEW t \in Threads, NewController(t) PROVE ButtonInv'
  BY <1>3 DEF NewController, ctrlVars, object, CurrentInv, IInv, CallInv, Unused
<1>4. ASSUME NEW t \in Threads, WorkerConnect(t) \/ WorkerDisconnect(t) PROVE ButtonInv'
  BY <1>4 DEF WorkerConnect, WorkerDisconnect, CallConnect, CallDisconnect, object
<1>5. ASSUME NEW t \in Threads, OnResult(t) PROVE ButtonInv'
  BY <1>5 DEF OnResult, ctrlVars, object
<1>6. ASSUME NEW t \in Threads, Advance(t), UNCHANGED guiVars PROVE ButtonInv'
  <2>1. Busy(t) /\ UNCHANGED <<self, op>>
    BY <1>6, AdvanceMovesPc
  <2>2. \E to \in Connecting \cup TearingDown \cup {"done"} : pc' = [pc EXCEPT ![t] = to]
    BY <1>6, AdvanceMovesPc
  <2>3. UNCHANGED <<current, label, job>>
    BY <1>6 DEF guiVars
  <2>4. /\ job[t] = "running" /\ \A u \in Threads : job[u] = "running" => u = t
        /\ self[t] = current /\ current \in created
        /\ op[t] = "connect" => state[current] = "connecting"
    BY <2>1, OnlyOneBusy
  <2>5. CASE state' = state /\ (pc'[t] = "done" => op[t] = "connect")
    BY <2>1, <2>2, <2>3, <2>4, <2>5 DEF Busy, Connecting, TearingDown
  <2>6. CASE /\ pc'[t] = "done"
             /\ \E s \in {"idle", "connected", "error"} :
                  /\ state' = [state EXCEPT ![self[t]] = s]
                  /\ s = "connected" => result'[t] = "ok"
    <3>1. current \in Controllers /\ (state'[current] = "connected" => result'[t] = "ok")
      BY <2>4, <2>6
    <3>2. \A u \in Threads : job'[u] = "running" => u = t
      BY <2>3, <2>4
    <3> QED
      BY <2>2, <2>3, <2>4, <2>6, <3>1, <3>2
  <2> QED
    BY <1>6, <2>5, <2>6, AdvanceSetsState DEF IInv
<1>7. ASSUME NEW t \in Threads, Background(t), UNCHANGED guiVars PROVE ButtonInv'
  BY <1>7 DEF Background, ChildrenComeAndGo, XrayDies, guiVars, object
<1> QED
  BY <1>1, <1>2, <1>3, <1>4, <1>5, <1>6, <1>7 DEF GuiNext, Worker

LEMMA StepGuiIInv == OneClickAtATime /\ GuiIInv /\ [GuiNext]_allVars => GuiIInv'
<1> SUFFICES ASSUME OneClickAtATime, GuiIInv, [GuiNext]_allVars PROVE GuiIInv'
  OBVIOUS
<1>1. IInv'
  BY StepIsControllerStep, StepIInv DEF GuiIInv
<1>2. CallsAnObject
  BY NoneAssumption DEF GuiIInv, CurrentInv, CallsAnObject, Active, IInv, CallInv
<1>3. GuiTypeOK'
  BY <1>2, StepGuiTypeOK DEF GuiIInv
<1> QED
  BY <1>1, <1>3, StepWorkerInv, StepCurrentInv, StepTunnelInv, StepButtonInv DEF GuiIInv

(* The inductive invariant holds of every behaviour. *)
THEOREM GuiInvariance == OneClickAtATime => (GuiSpec => []GuiIInv)
<1> SUFFICES ASSUME OneClickAtATime PROVE GuiSpec => []GuiIInv
  OBVIOUS
<1>1. GuiIInv /\ [GuiNext]_allVars => GuiIInv'
  BY StepGuiIInv
<1> QED
  BY <1>1, InitGuiIInv, PTL DEF GuiSpec

(* Whenever the page is quiet and the next click would make a new controller,   *)
(* no attempt so far has left an xray or a TUN.                                 *)
THEOREM NothingLeftBehindHolds == OneClickAtATime => (GuiSpec => []NothingLeftBehind)
<1> SUFFICES ASSUME OneClickAtATime PROVE GuiSpec => []NothingLeftBehind
  OBVIOUS
<1>1. GuiIInv => NothingLeftBehind
  BY DEF GuiIInv, GuiTypeOK, TypeOK, WorkerInv, TunnelInv, NothingLeftBehind, Quiet, Busy, Waiting,
         Connecting, TearingDown
<1> QED
  BY <1>1, GuiInvariance, PTL

(* No controller that has been replaced owns an xray or a TUN. *)
THEOREM ReplacedOwnNothingHolds == OneClickAtATime => (GuiSpec => []ReplacedOwnNothing)
<1> SUFFICES ASSUME OneClickAtATime PROVE GuiSpec => []ReplacedOwnNothing
  OBVIOUS
<1>1. GuiIInv => ReplacedOwnNothing
  BY DEF GuiIInv, TunnelInv
<1> QED
  BY <1>1, GuiInvariance, PTL

(* A quiet page offers "Disconnect" whenever its controller is connected. *)
THEOREM ConnectedOffersDisconnectHolds ==
  OneClickAtATime => (GuiSpec => []ConnectedOffersDisconnect)
<1> SUFFICES ASSUME OneClickAtATime PROVE GuiSpec => []ConnectedOffersDisconnect
  OBVIOUS
<1>1. GuiIInv => ConnectedOffersDisconnect
  BY DEF GuiIInv, ButtonInv, ConnectedOffersDisconnect, Quiet
<1> QED
  BY <1>1, GuiInvariance, PTL

(* The page is a user that ConnectionController allows for: every behaviour of  *)
(* it is one of the controllers and threads there, so that all that is proved   *)
(* of the safety of those is true behind the page.                              *)
THEOREM PageUsesControllersAsIntended ==
  OneClickAtATime => (GuiSpec => Init /\ [][Next]_ctrlVars)
<1> SUFFICES ASSUME OneClickAtATime PROVE GuiSpec => Init /\ [][Next]_ctrlVars
  OBVIOUS
<1>1. GuiInit => Init
  BY DEF GuiInit
<1>2. GuiIInv /\ [GuiNext]_allVars => [Next]_ctrlVars
  BY StepIsControllerStep
<1> QED
  BY <1>1, <1>2, GuiInvariance, PTL DEF GuiSpec

(* So behind the page, too, no teardown overwrites the only reference to a live *)
(* xray, and a connect() that failed has left nothing.                          *)
COROLLARY ControllersBehindThePage ==
  OneClickAtATime => (GuiSpec => []XrayReachable /\ []FailedConnectLeavesNothing)
  BY PageUsesControllersAsIntended, XrayReachableOfCalls, FailedConnectOfCalls, PTL

(* What disconnect() means when there is one click at a time: it has taken down *)
(* everything of its controller it could reach, and no later step makes that    *)
(* controller own anything again.                                               *)
DisconnectLeavesNothing ==
  \A t \in Threads :
    op[t] = "disconnect" /\ pc[t] = "done"
      /\ (\A u \in Threads : self[u] = self[t] => ~Busy(u))
      => state[self[t]] # "connected" /\ \A u \in Tracked \cup tunfd : self[u] # self[t]

LEMMA DisconnectOfThePage == GuiIInv => DisconnectLeavesNothing
<1> SUFFICES ASSUME GuiIInv, NEW t \in Threads, op[t] = "disconnect", pc[t] = "done",
                    \A u \in Threads : self[u] = self[t] => ~Busy(u)
             PROVE  state[self[t]] # "connected" /\ \A u \in Tracked \cup tunfd : self[u] # self[t]
  BY DEF DisconnectLeavesNothing
<1> USE DEF GuiIInv, CurrentInv
<1>1. state[self[t]] = "idle"
  OBVIOUS
<1>2. ASSUME NEW u \in Tracked \cup tunfd, self[u] = self[t] PROVE FALSE
  <2>1. self[t] = current
    BY <1>2 DEF TunnelInv, ReplacedOwnNothing
  <2>2. (\A v \in Threads : ~Busy(v)) /\ ~Active(current)
    BY <1>1, <2>1 DEF Active
  <2> QED
    BY <1>2, <2>2 DEF TunnelInv
<1> QED
  BY <1>1, <1>2

(* "Tear down everything." (backend.py 99) is true of one click at a time.  The *)
(* run double_click shows that a second click breaks it.                        *)
THEOREM DisconnectTearsDownHolds ==
  OneClickAtATime => (GuiSpec => []DisconnectTearsDown /\ []DisconnectLeavesNothing)
<1> SUFFICES ASSUME OneClickAtATime
             PROVE  GuiSpec => []DisconnectTearsDown /\ []DisconnectLeavesNothing
  OBVIOUS
<1>1. DisconnectLeavesNothing => DisconnectTearsDown
  BY DEF DisconnectLeavesNothing, DisconnectTearsDown, Up
<1> QED
  BY <1>1, DisconnectOfThePage, GuiInvariance, PTL
=============================================================================
