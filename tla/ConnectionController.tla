--------------------------- MODULE ConnectionController --------------------------
(* gui/backend.py: ConnectionController objects, and threads each of which runs *)
(* one connect() or one disconnect() on one of them.  The objects lock single   *)
(* reads and writes of `_state` and nothing else, so that the calls of two      *)
(* threads interleave between any two accesses to the object.  The XrayManager  *)
(* a connect() creates is seen through XrayContract.                            *)
(* _stop_event is left out: it is set and cleared, and nothing waits on it.     *)
EXTENDS XrayContract

CONSTANTS
  Controllers,  \* the ConnectionController objects
  Threads,      \* the threads; the XrayManager and the TunDevice that connect()
                \* creates are named by the thread that runs it
  None,         \* Python's None
  Linux         \* _is_linux()

ASSUME NoneAssumption ==
  None \notin Threads \cup Controllers \cup {"connect", "disconnect", "ok", "error", "raised"}
ASSUME LinuxAssumption == Linux \in BOOLEAN

VARIABLES
  state,      \* the controllers' _state
  xray_mgr,   \* their _xray_mgr: None or a manager
  tun,        \* their _tun: None or a TunDevice
  pc,         \* where each thread is
  self,       \* the controller it works on
  op,         \* the method it runs
  result,     \* what the method returned or raised
  held,       \* the manager or TunDevice it has loaded for the call it is in
  xray,       \* the managers that have a live xray child
  tunfd,      \* the TunDevices that hold an open file descriptor
  abandoned   \* history: managers whose start() or stop() raised beside a live child

object == <<state, xray_mgr, tun>>
os == <<xray, tunfd>>
ctrlVars == <<object, pc, self, op, result, held, os, abandoned>>

Connecting == {"check_binary", "write_config", "smoke_test", "new_tun", "load_tun", "open_tun",
               "start_xray", "starting", "publish", "set_connected"}
TearingDown == {"check_mgr", "load_mgr", "stop_mgr", "reset_mgr",
                "check_tun", "load_close", "close_tun", "reset_tun", "set_state"}
Busy(t) == pc[t] \in Connecting \cup TearingDown

TypeOK ==
  /\ state \in [Controllers -> {"idle", "connecting", "connected", "error"}]
  /\ xray_mgr \in [Controllers -> Threads \cup {None}]
  /\ tun \in [Controllers -> Threads \cup {None}]
  /\ pc \in [Threads -> Connecting \cup TearingDown \cup {"free", "done"}]
  /\ self \in [Threads -> Controllers \cup {None}]
  /\ op \in [Threads -> {"connect", "disconnect", None}]
  /\ result \in [Threads -> {"ok", "error", "raised", None}]
  /\ held \in [Threads -> Threads \cup {None}]
  /\ xray \in SUBSET Threads
  /\ tunfd \in SUBSET Threads
  /\ abandoned \in SUBSET Threads

Init ==
  /\ state = [c \in Controllers |-> "idle"]
  /\ xray_mgr = [c \in Controllers |-> None]
  /\ tun = [c \in Controllers |-> None]
  /\ pc = [t \in Threads |-> "free"]
  /\ self = [t \in Threads |-> None]
  /\ op = [t \in Threads |-> None]
  /\ result = [t \in Threads |-> None]
  /\ held = [t \in Threads |-> None]
  /\ xray = {} /\ tunfd = {} /\ abandoned = {}

Goto(t, from, to) ==
  /\ pc[t] = from
  /\ pc' = [pc EXCEPT ![t] = to]
  /\ UNCHANGED <<self, op>>

SetState(t, s) == state' = [state EXCEPT ![self[t]] = s]

(* `self._set_state(s); return answer` *)
Return(t, s, answer) ==
  /\ SetState(t, s)
  /\ result' = [result EXCEPT ![t] = answer]

-----------------------------------------------------------------------------
(* connect()                                                                    *)

CallConnect(t, c) ==
  /\ pc[t] = "free"
  /\ pc' = [pc EXCEPT ![t] = "check_binary"]
  /\ self' = [self EXCEPT ![t] = c]
  /\ op' = [op EXCEPT ![t] = "connect"]
  /\ state' = [state EXCEPT ![c] = "connecting"]
  /\ UNCHANGED <<xray_mgr, tun, result, held, os, abandoned>>

(* Phases 1 to 3: the binary, the config and its smoke test each may fail the   *)
(* call with nothing to undo.                                                   *)
Phase(t, from, to) ==
  /\ \/ Goto(t, from, to) /\ UNCHANGED <<state, result>>
     \/ Goto(t, from, "done") /\ Return(t, "error", "error")
  /\ UNCHANGED <<xray_mgr, tun, held, os, abandoned>>

CheckBinary(t) == Phase(t, "check_binary", "write_config")
WriteConfig(t) == Phase(t, "write_config", "smoke_test")
SmokeTest(t) == Phase(t, "smoke_test", IF Linux THEN "new_tun" ELSE "start_xray")

(* Phase 4: `self._tun = TunDevice(...)`, then `self._tun.open()`, which loads  *)
(* the attribute again.  A TUN that does not open is only warned about.         *)
NewTun(t) ==
  /\ Goto(t, "new_tun", "load_tun")
  /\ tun' = [tun EXCEPT ![self[t]] = t]
  /\ UNCHANGED <<state, xray_mgr, result, held, os, abandoned>>

LoadTun(t) ==
  /\ Goto(t, "load_tun", IF tun[self[t]] = None THEN "start_xray" ELSE "open_tun")
  /\ UNCHANGED <<object, result, held, os, abandoned>>

(* os.open() fails, or the descriptor is kept - also when the ioctl or the      *)
(* `ip` commands after it fail.                                                 *)
OpenTun(t) ==
  /\ Goto(t, "open_tun", "start_xray")
  /\ tunfd' \in {tunfd, tunfd \cup {t}}
  /\ UNCHANGED <<object, result, held, xray, abandoned>>

(* Phase 5: the manager is a local variable until start() has answered ok.      *)
StartXray(t) ==
  /\ Goto(t, "start_xray", "starting")
  /\ UNCHANGED <<object, result, held, os, abandoned>>

ChildrenComeAndGo(t) ==
  /\ pc[t] = "starting"
  /\ xray' \in {xray \ {t}, xray \cup {t}}
  /\ UNCHANGED <<object, pc, self, op, result, held, tunfd, abandoned>>

StartXrayUntidily(t) ==
  /\ \E o \in StartOutcomes :
       /\ xray' = IF o.live THEN xray \cup {t} ELSE xray \ {t}
       /\ abandoned' = abandoned \cup {u \in {t} : o.answer = "raised" /\ o.live}
       /\ IF o.answer = "ok"
            THEN Goto(t, "starting", "publish") /\ UNCHANGED <<state, result>>
            ELSE Goto(t, "starting", "done") /\ Return(t, "error", "error")
  /\ UNCHANGED <<xray_mgr, tun, held, tunfd>>

(* An exception of start() leaves connect() with its local manager.             *)
StartedXray(t) ==
  /\ \E o \in StartOutcomes :
       /\ xray' = IF o.live THEN xray \cup {t} ELSE xray \ {t}
       /\ abandoned' = abandoned \cup {u \in {t} : o.answer = "raised" /\ o.live}
       /\ \/ o.answer = "ok" /\ Goto(t, "starting", "publish") /\ UNCHANGED result
          \/ o.answer = "failed" /\ Goto(t, "starting", "check_mgr") /\ UNCHANGED result
          \/ /\ o.answer = "raised" /\ Goto(t, "starting", "done")
             /\ result' = [result EXCEPT ![t] = "raised"]
  /\ UNCHANGED <<object, held, tunfd>>

(* `self._xray_mgr = mgr` *)
Publish(t) ==
  /\ Goto(t, "publish", "set_connected")
  /\ xray_mgr' = [xray_mgr EXCEPT ![self[t]] = t]
  /\ UNCHANGED <<state, tun, result, held, os, abandoned>>

SetConnected(t) ==
  /\ Goto(t, "set_connected", "done")
  /\ Return(t, "connected", "ok")
  /\ UNCHANGED <<xray_mgr, tun, held, os, abandoned>>

-----------------------------------------------------------------------------
(* disconnect(), and _teardown() on the way out of either method                *)

CallDisconnect(t, c) ==
  /\ pc[t] = "free"
  /\ pc' = [pc EXCEPT ![t] = "check_mgr"]
  /\ self' = [self EXCEPT ![t] = c]
  /\ op' = [op EXCEPT ![t] = "disconnect"]
  /\ UNCHANGED <<object, result, held, os, abandoned>>

CheckMgrOrLeave(t) ==
  /\ Goto(t, "check_mgr", IF xray_mgr[self[t]] = None THEN "set_state" ELSE "load_mgr")
  /\ UNCHANGED <<object, result, held, os, abandoned>>

(* `if self._xray_mgr:` *)
CheckMgr(t) ==
  /\ Goto(t, "check_mgr", IF xray_mgr[self[t]] = None THEN "check_tun" ELSE "load_mgr")
  /\ UNCHANGED <<object, result, held, os, abandoned>>

(* `self._xray_mgr.stop()` loads the attribute again; None has no stop(), and   *)
(* that exception is caught as one of stop() is.                                *)
LoadMgr(t) ==
  /\ Goto(t, "load_mgr", IF xray_mgr[self[t]] = None THEN "reset_mgr" ELSE "stop_mgr")
  /\ held' = [held EXCEPT ![t] = xray_mgr[self[t]]]
  /\ UNCHANGED <<object, result, os, abandoned>>

ForgetMgr(t) ==
  /\ Goto(t, "stop_mgr", "reset_mgr")
  /\ held' = [held EXCEPT ![t] = None]
  /\ UNCHANGED <<object, result, os, abandoned>>

(* The moment at which stop(), which may block for ten seconds, has its effect  *)
(* on the child of the manager it was called on, or raises.                     *)
StopMgr(t) ==
  /\ Goto(t, "stop_mgr", "reset_mgr")
  /\ \E o \in StopOutcomes(held[t] \in xray) :
       IF o.live THEN abandoned' = abandoned \cup {held[t]} /\ UNCHANGED xray
                 ELSE xray' = xray \ {held[t]} /\ UNCHANGED abandoned
  /\ held' = [held EXCEPT ![t] = None]
  /\ UNCHANGED <<object, result, tunfd>>

(* `self._xray_mgr = None`, after an exception too. *)
ResetMgr(t) ==
  /\ Goto(t, "reset_mgr", "check_tun")
  /\ xray_mgr' = [xray_mgr EXCEPT ![self[t]] = None]
  /\ UNCHANGED <<state, tun, result, held, os, abandoned>>

(* The same steps for _tun. *)
CheckTun(t) ==
  /\ Goto(t, "check_tun", IF tun[self[t]] = None THEN "set_state" ELSE "load_close")
  /\ UNCHANGED <<object, result, held, os, abandoned>>

LoadClose(t) ==
  /\ Goto(t, "load_close", IF tun[self[t]] = None THEN "reset_tun" ELSE "close_tun")
  /\ held' = [held EXCEPT ![t] = tun[self[t]]]
  /\ UNCHANGED <<object, result, os, abandoned>>

CloseTun(t) ==
  /\ Goto(t, "close_tun", "reset_tun")
  /\ tunfd' = tunfd \ {held[t]}
  /\ held' = [held EXCEPT ![t] = None]
  /\ UNCHANGED <<object, result, xray, abandoned>>

ResetTun(t) ==
  /\ Goto(t, "reset_tun", "set_state")
  /\ tun' = [tun EXCEPT ![self[t]] = None]
  /\ UNCHANGED <<state, xray_mgr, result, held, os, abandoned>>

TornDownUndocumented(t) ==
  /\ Goto(t, "set_state", "done")
  /\ IF op[t] = "connect" THEN Return(t, "failed", "error") ELSE Return(t, "idle", "ok")
  /\ UNCHANGED <<xray_mgr, tun, held, os, abandoned>>

TornDown(t) ==
  /\ Goto(t, "set_state", "done")
  /\ IF op[t] = "connect" THEN Return(t, "error", "error") ELSE Return(t, "idle", "ok")
  /\ UNCHANGED <<xray_mgr, tun, held, os, abandoned>>

-----------------------------------------------------------------------------
(* The child of a manager that is not in start() dies; nothing watches it.      *)
XrayDies(t) ==
  /\ t \in xray
  /\ xray' = xray \ {t}
  /\ UNCHANGED <<object, pc, self, op, result, held, tunfd, abandoned>>

Advance(t) ==
  \/ CheckBinary(t) \/ WriteConfig(t) \/ SmokeTest(t)
  \/ NewTun(t) \/ LoadTun(t) \/ OpenTun(t)
  \/ StartXray(t) \/ StartedXray(t) \/ Publish(t) \/ SetConnected(t)
  \/ CheckMgr(t) \/ LoadMgr(t) \/ StopMgr(t) \/ ResetMgr(t)
  \/ CheckTun(t) \/ LoadClose(t) \/ CloseTun(t) \/ ResetTun(t) \/ TornDown(t)

Background(t) == ChildrenComeAndGo(t) \/ XrayDies(t)

(* "Owns the xray + TUN lifecycle for a single connection attempt".             *)
Unused(c) == \A t \in Threads : ~(op[t] = "connect" /\ self[t] = c)

Next ==
  \E t \in Threads :
    \/ Advance(t) \/ Background(t)
    \/ \E c \in Controllers : \/ Unused(c) /\ CallConnect(t, c)
                              \/ ~Unused(c) /\ CallDisconnect(t, c)

(* Threads are scheduled, and start() answers (CallReturns of XrayManager).     *)
Spec == Init /\ [][Next]_ctrlVars /\ \A t \in Threads : WF_ctrlVars(Advance(t))

-----------------------------------------------------------------------------
(* Properties *)

(* The live xrays but for those whose own start() or stop() raised beside them. *)
Tracked == xray \ abandoned

(* However disconnect() calls overlap with the connect() of a controller and    *)
(* with each other, an xray that is live once connect() has returned is still   *)
(* the controller's _xray_mgr, so that a later disconnect() finds it: between   *)
(* the unlocked check, load, stop and reset of one _teardown and those of       *)
(* another, the only reference to a live xray is never overwritten - unless     *)
(* start() or stop() itself raised beside it, which drops the reference without *)
(* any other thread (backend.py 157-160, 175-180).                              *)
XrayReachable ==
  \A t \in Tracked : pc[t] = "done" => xray_mgr[self[t]] = t

(* A connect() that returned {"ok": False} has undone whatever it had done: the *)
(* children of its start() and the TUN it had opened before it - unless a       *)
(* disconnect() has been working on the same controller (backend.py 84-93).     *)
FailedConnectLeavesNothing ==
  \A t \in Threads :
    op[t] = "connect" /\ result[t] = "error"
      /\ (\A u \in Threads : u # t => self[u] # self[t])
      => t \notin xray \cup tunfd

(* The tunnel of a controller is up: xray, the TUN, and the state says so.      *)
Up(c) == state[c] = "connected" /\ \E t \in xray \cap tunfd : self[t] = c

(* "Tear down everything." (backend.py 99): once a disconnect() has returned,   *)
(* and no call is under way on its controller - which has one connect() in its  *)
(* life - the tunnel of that controller is not up.                              *)
DisconnectTearsDown ==
  \A t \in Threads :
    op[t] = "disconnect" /\ pc[t] = "done"
      /\ (\A u \in Threads : self[u] = self[t] => ~Busy(u))
      => ~Up(self[t])
=============================================================================
