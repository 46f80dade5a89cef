------------------------------- MODULE AndroidVpn -------------------------------
(* The Android app: the page (assets/index.html) and its bridge into            *)
(* MainActivity, the service VpnTunService on the main looper, its pump threads *)
(* and xray children, and what they use of the platform: the activity manager,  *)
(* which queues the service's callbacks, keeps a service the system is bound to *)
(* (as it is to a VpnService from establish() until the TUN is closed) and      *)
(* restarts a started one after its process has died.                           *)
EXTENDS Naturals, Sequences

CONSTANTS
  MaxTaps,   \* bound of the model: taps on the button
  MaxKills   \* bound of the model: deaths of the process

ASSUME BoundsAssumption == MaxTaps \in Nat \ {0} /\ MaxKills \in Nat

VARIABLES
  state,    \* the page's `state`
  text,     \* what its status line says
  tap,      \* a tap the page has not handled yet
  bridge,   \* where the call of the bridge is that the page waits for
  dialogs,  \* permission dialogs without a result
  posts,    \* what notifyUi() has posted to the page
  started,  \* activity manager: the service is started
  bound,    \* ... and the system is bound to it
  up,       \* ... and it has been created and not destroyed
  queue,    \* the service callbacks on their way to the main looper
  alive,    \* the process has a VpnTunService
  main,     \* where the main thread is in startVpn()
  running,  \* the fields of the service; iface and xrayProcess are numbers of
  iface,    \* startVpn() calls, 0 for null
  xrayProcess,
  attempt,  \* startVpn() calls so far that found the service not running
  pumps,    \* pump threads that have not run yet
  tuns,     \* TUN descriptors that are open
  xrays,    \* xray processes that live and have not been told to go
  taps, kills

ui == <<state, text, tap, bridge, dialogs, posts>>
manager == <<started, bound, up, queue>>
service == <<alive, main, running, iface, xrayProcess, attempt>>
os == <<pumps, tuns, xrays>>
bounds == <<taps, kills>>
vars == <<ui, manager, service, os, bounds>>

States == {"connected", "disconnected", "permission-denied"}
Attempts == 1..(MaxTaps + MaxKills)

TypeOK ==
  /\ state \in States \cup {"idle"}
  /\ text \in States \cup {"idle", "connecting", "disconnecting"}
  /\ tap \in BOOLEAN
  /\ bridge \in {"none", "prepare", "start", "notify_on", "stop", "notify_off"}
  /\ dialogs \in 0..MaxTaps
  /\ posts \in Seq(States)
  /\ started \in BOOLEAN /\ bound \in BOOLEAN /\ up \in BOOLEAN
  /\ queue \in Seq({"create", "start", "destroy"})
  /\ alive \in BOOLEAN
  /\ main \in {"looper", "establish", "exec", "stop"}
  /\ running \in BOOLEAN
  /\ iface \in Attempts \cup {0}
  /\ xrayProcess \in Attempts \cup {0}
  /\ attempt \in Attempts \cup {0}
  /\ pumps \in SUBSET Attempts
  /\ tuns \in SUBSET Attempts
  /\ xrays \in SUBSET Attempts
  /\ taps \in 0..MaxTaps
  /\ kills \in 0..MaxKills

\* a permission dialog may stay open, and gives its result to the new activity
FreshPage ==
  /\ state' = "idle" /\ text' = "idle" /\ tap' = FALSE
  /\ bridge' = "none" /\ dialogs' \in {0, dialogs} /\ posts' = <<>>

Init ==
  /\ state = "idle" /\ text = "idle" /\ tap = FALSE
  /\ bridge = "none" /\ dialogs = 0 /\ posts = <<>>
  /\ started = FALSE /\ bound = FALSE /\ up = FALSE /\ queue = <<>>
  /\ alive = FALSE /\ main = "looper" /\ running = FALSE
  /\ iface = 0 /\ xrayProcess = 0 /\ attempt = 0
  /\ pumps = {} /\ tuns = {} /\ xrays = {}
  /\ taps = 0 /\ kills = 0

-----------------------------------------------------------------------------
(* The activity manager *)

StartForegroundService ==
  /\ started' = TRUE /\ up' = TRUE
  /\ queue' = queue \o (IF up THEN <<"start">> ELSE <<"create", "start">>)
  /\ UNCHANGED bound

(* A service that is neither started nor bound is destroyed. *)
Release(isBound) ==
  /\ started' = FALSE /\ bound' = isBound
  /\ IF up /\ ~isBound
       THEN up' = FALSE /\ queue' = Append(queue, "destroy")
       ELSE UNCHANGED <<up, queue>>

(* The system unbinds once the TUN is closed. *)
SystemUnbinds ==
  /\ bound /\ tuns = {}
  /\ IF started THEN bound' = FALSE /\ UNCHANGED <<started, up, queue>>
                ELSE Release(FALSE)
  /\ UNCHANGED <<ui, service, os, bounds>>

-----------------------------------------------------------------------------
(* The page and the bridge *)

(* A dialog covers the page. *)
Tap ==
  /\ ~tap /\ dialogs = 0 /\ taps < MaxTaps
  /\ tap' = TRUE /\ taps' = taps + 1
  /\ UNCHANGED <<state, text, bridge, dialogs, posts, manager, service, os, kills>>

ToggleMarked ==
  /\ tap /\ bridge = "none"
  /\ tap' = FALSE
  /\ bridge' = IF state = "connected" THEN "stop" ELSE "prepare"
  /\ state' = IF state = "connected" THEN state ELSE "connecting"
  /\ UNCHANGED <<text, dialogs, posts, manager, service, os, bounds>>

(* toggle() calls the bridge and waits for it; `state` is never "connecting".   *)
Toggle ==
  /\ tap /\ bridge = "none"
  /\ tap' = FALSE
  /\ bridge' = IF state = "connected" THEN "stop" ELSE "prepare"
  /\ UNCHANGED <<state, text, dialogs, posts, manager, service, os, bounds>>

(* VpnService.prepare(): null, or the intent of a dialog. *)
Prepare ==
  /\ bridge = "prepare"
  /\ \/ bridge' = "start" /\ UNCHANGED <<text, dialogs>>
     \/ bridge' = "none" /\ dialogs' = dialogs + 1 /\ text' = "connecting"
  /\ UNCHANGED <<state, tap, posts, manager, service, os, bounds>>

BridgeStart ==
  /\ bridge = "start"
  /\ bridge' = "notify_on"
  /\ StartForegroundService
  /\ UNCHANGED <<state, text, tap, dialogs, posts, service, os, bounds>>

BridgeStop ==
  /\ bridge = "stop"
  /\ bridge' = "notify_off"
  /\ Release(bound)
  /\ UNCHANGED <<state, text, tap, dialogs, posts, service, os, bounds>>

NotifyInStep ==
  /\ \/ /\ bridge = "notify_on"
        /\ state' = "connected" /\ text' = "connecting"
     \/ /\ bridge = "notify_off"
        /\ state' = "disconnected" /\ text' = "disconnecting"
  /\ bridge' = "none"
  /\ UNCHANGED <<posts, tap, dialogs, manager, service, os, bounds>>

(* notifyUi(), the end of the call and toggle()'s setStatus(). *)
Notify ==
  /\ \/ /\ bridge = "notify_on"
        /\ posts' = Append(posts, "connected") /\ text' = "connecting"
     \/ /\ bridge = "notify_off"
        /\ posts' = Append(posts, "disconnected") /\ text' = "disconnecting"
  /\ bridge' = "none"
  /\ UNCHANGED <<state, tap, dialogs, manager, service, os, bounds>>

(* onVpnState() *)
OnVpnState ==
  /\ bridge = "none" /\ posts # <<>>
  /\ posts' = Tail(posts)
  /\ state' = Head(posts)
  /\ text' = IF Head(posts) = "disconnected" THEN "idle" ELSE Head(posts)
  /\ UNCHANGED <<tap, bridge, dialogs, manager, service, os, bounds>>

OnActivityResult ==
  /\ dialogs > 0 /\ main = "looper"
  /\ dialogs' = dialogs - 1
  /\ \/ StartForegroundService /\ posts' = Append(posts, "connected")
     \/ UNCHANGED manager /\ posts' = Append(posts, "permission-denied")
  /\ UNCHANGED <<state, text, tap, bridge, service, os, bounds>>

(* The activity is destroyed and opened again while the process lives on. *)
Reopen ==
  /\ bridge = "none"
  /\ FreshPage
  /\ UNCHANGED <<manager, service, os, bounds>>

-----------------------------------------------------------------------------
(* VpnTunService, on the main thread *)

Callback(c) ==
  /\ main = "looper" /\ queue # <<>> /\ Head(queue) = c

OnCreate ==
  /\ Callback("create")
  /\ queue' = Tail(queue)
  /\ alive' = TRUE
  /\ running' = FALSE /\ iface' = 0 /\ xrayProcess' = 0
  /\ UNCHANGED <<ui, started, bound, up, main, attempt, os, bounds>>

OnStartCommandAgain ==
  /\ Callback("start")
  /\ queue' = Tail(queue)
  /\ main' = "establish" /\ attempt' = attempt + 1
  /\ UNCHANGED <<ui, started, bound, up, alive, running, iface, xrayProcess, os, bounds>>

OnStartCommand ==
  /\ Callback("start")
  /\ queue' = Tail(queue)
  /\ IF running THEN UNCHANGED <<main, attempt>>
                ELSE main' = "establish" /\ attempt' = attempt + 1
  /\ UNCHANGED <<ui, started, bound, up, alive, running, iface, xrayProcess, os, bounds>>

(* The builder or establish() may raise; establish() returns null when the user *)
(* has withdrawn the permission, which startVpn() does not look at.             *)
Establish ==
  /\ main = "establish"
  /\ \/ main' = "stop" /\ UNCHANGED <<running, iface, tuns, bound>>
     \/ /\ main' = "exec" /\ running' = TRUE
        /\ \/ iface' = attempt /\ tuns' = tuns \cup {attempt} /\ bound' = TRUE
           \/ iface' = 0 /\ UNCHANGED <<tuns, bound>>
  /\ UNCHANGED <<ui, started, up, queue, alive, xrayProcess, attempt, pumps, xrays, bounds>>

(* The assets are copied and xray is run; any of it may raise. *)
Exec ==
  /\ main = "exec"
  /\ \/ main' = "stop" /\ UNCHANGED <<xrayProcess, xrays, pumps>>
     \/ /\ main' = "looper"
        /\ xrayProcess' = attempt
        /\ xrays' = xrays \cup {attempt}
        /\ pumps' = pumps \cup {attempt}
  /\ UNCHANGED <<ui, manager, alive, running, iface, attempt, tuns, bounds>>

CleanUp ==
  /\ xrays' = xrays \ {xrayProcess} /\ xrayProcess' = 0
  /\ tuns' = tuns \ {iface} /\ iface' = 0
  /\ running' = FALSE
  /\ UNCHANGED pumps

StopVpnOnly ==
  /\ main = "stop"
  /\ main' = "looper"
  /\ CleanUp
  /\ UNCHANGED <<ui, manager, alive, attempt, bounds>>

(* stopVpn() of startVpn()'s handler, with its stopSelf(), which is void when   *)
(* the service is to be destroyed already.                                      *)
StopVpn ==
  /\ main = "stop"
  /\ main' = "looper"
  /\ CleanUp
  /\ IF \E i \in DOMAIN queue : queue[i] = "destroy"
       THEN UNCHANGED manager
       ELSE Release(bound)
  /\ UNCHANGED <<ui, alive, attempt, bounds>>

OnDestroyOnly ==
  /\ Callback("destroy")
  /\ queue' = Tail(queue)
  /\ alive' = FALSE
  /\ UNCHANGED <<ui, started, bound, up, main, running, iface, xrayProcess, attempt, os, bounds>>

OnDestroy ==
  /\ Callback("destroy")
  /\ queue' = Tail(queue)
  /\ alive' = FALSE
  /\ CleanUp
  /\ UNCHANGED <<ui, started, bound, up, main, attempt, bounds>>

-----------------------------------------------------------------------------
(* The other threads and processes *)

XrayDies ==
  /\ \E n \in xrays : xrays' = xrays \ {n}
  /\ UNCHANGED <<ui, manager, service, pumps, tuns, bounds>>

(* The process ends with its children and descriptors; the page and the service *)
(* begin anew, the service only if it was started (START_STICKY).               *)
ProcessEnds ==
  /\ kills < MaxKills /\ kills' = kills + 1
  /\ FreshPage
  /\ bound' = FALSE /\ up' = started
  /\ queue' = IF started THEN <<"create", "start">> ELSE <<>>
  /\ alive' = FALSE /\ main' = "looper" /\ running' = FALSE
  /\ iface' = 0 /\ xrayProcess' = 0
  /\ pumps' = {} /\ tuns' = {} /\ xrays' = {}
  /\ UNCHANGED <<started, attempt, taps>>

(* `xrayProcess!!` of a pump thread that runs after the field has been reset    *)
(* ends the process; otherwise the thread closes xray's stderr.                 *)
Pump ==
  \E n \in pumps :
    IF xrayProcess = 0
      THEN ProcessEnds
      ELSE pumps' = pumps \ {n} /\ UNCHANGED <<ui, manager, service, tuns, xrays, bounds>>

Killed == ProcessEnds

Page == Toggle \/ Prepare \/ BridgeStart \/ BridgeStop \/ Notify \/ OnVpnState
Main == OnCreate \/ OnStartCommand \/ Establish \/ Exec \/ StopVpn \/ OnDestroy

Next ==
  \/ Tap \/ OnActivityResult \/ Reopen \/ Page
  \/ Main \/ SystemUnbinds
  \/ XrayDies \/ Pump \/ Killed

(* The page, the main thread and the system run; users need not do anything.    *)
Spec ==
  Init /\ [][Next]_vars /\ WF_vars(Page) /\ WF_vars(Main) /\ WF_vars(SystemUnbinds)

-----------------------------------------------------------------------------
(* Properties *)

(* When the service has been destroyed nothing of it is left: no TUN that takes *)
(* the device's traffic, and no xray - however starts, failed starts, stops and *)
(* deaths of the process follow one another (VpnTunService.kt 46-107, 153-156). *)
NoVpnLeftBehind == ~alive => tuns = {} /\ xrays = {}

(* At no time are there two TUNs or two xray processes: repeated starts, also   *)
(* after failed ones, do not pile up (VpnTunService.kt 54, 69-70, 98-103).      *)
OneTunnel ==
  \A m, n \in Attempts : {m, n} \subseteq tuns \/ {m, n} \subseteq xrays => m = n

Serving == running /\ main = "looper" /\ xrayProcess # 0

(* A service does not linger half started: once it is created, it ends, or a    *)
(* start gets to its end and leaves a running service with a handle on its xray *)
(* - whichever steps of the starts before it have raised (91-106).  That is not *)
(* to say it has a TUN: after an establish() that returned null the start goes  *)
(* on, and the service stays (VpnTunService.kt 69-73).                          *)
ServiceSettles == alive ~> (~alive \/ Serving)

Quiet ==
  /\ ~tap /\ bridge = "none" /\ dialogs = 0 /\ posts = <<>>
  /\ main = "looper" /\ queue = <<>> /\ ~(bound /\ tuns = {})

(* The page settles: when all is quiet its status line is the one of its state, *)
(* and no "Connecting" or "Disconnecting" has been left behind by an answer that *)
(* came first, by a dialog that was refused or by a new page.                   *)
PageSettles == Quiet => text = IF state = "disconnected" THEN "idle" ELSE state

(* "Disconnect tears everything down cleanly." (README.md 220): when all is     *)
(* quiet after the page was told so, no TUN and no xray is left.                *)
DisconnectTearsDown == Quiet /\ state = "disconnected" => tuns = {} /\ xrays = {}
=============================================================================
