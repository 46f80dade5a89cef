------------------------------- MODULE GuiSession -------------------------------
(* gui/main.py around the ConnectionController: one button whose click handler  *)
(* reads the state of the current controller, disables the button and starts a  *)
(* worker thread; the worker runs connect() on a new controller or disconnect() *)
(* on the current one, and on_result() then repaints and enables the button.    *)
(* Clicks reach the handler as events of the page's client, which goes on       *)
(* sending them until the update that disables the button has arrived there.    *)
EXTENDS ConnectionController, Naturals, FiniteSets

CONSTANT MaxClicks  \* click events the client can have sent ahead of that update

ASSUME MaxClicksAssumption == MaxClicks \in Nat \ {0}

VARIABLES
  current,   \* the variable `controller` the nested functions share
  created,   \* the controllers made so far
  clicks,    \* click events sent and not handled yet
  enabled,   \* not connect_btn.disabled
  label,     \* connect_btn.text
  job        \* what each thread does as a worker

guiVars == <<current, created, clicks, enabled, label, job>>
allVars == <<ctrlVars, guiVars>>

GuiTypeOK ==
  /\ TypeOK
  /\ current \in created \cup {None}
  /\ created \in SUBSET Controllers
  /\ clicks \in 0..MaxClicks
  /\ enabled \in BOOLEAN
  /\ label \in {"Connect", "Disconnect"}
  /\ job \in [Threads -> {"none", "connect", "call_connect", "disconnect", "running", "shown"}]

GuiInit ==
  /\ Init
  /\ current = None /\ created = {}
  /\ clicks = 0 /\ enabled = TRUE /\ label = "Connect"
  /\ job = [t \in Threads |-> "none"]

Job(t, from, to) == job[t] = from /\ job' = [job EXCEPT ![t] = to]

ActiveOnceConnected(c) == c # None /\ state[c] = "connected"

Active(c) == c # None /\ state[c] \in {"connecting", "connected"}

-----------------------------------------------------------------------------
Click ==
  /\ enabled
  /\ clicks < MaxClicks
  /\ clicks' = clicks + 1
  /\ UNCHANGED <<ctrlVars, current, created, enabled, label, job>>

OnButtonClickRepeated(t) ==
  /\ enabled \/ clicks > 0
  /\ clicks' = clicks - 1
  /\ Job(t, "none", IF Active(current) THEN "disconnect" ELSE "connect")
  /\ enabled' = FALSE
  /\ UNCHANGED <<ctrlVars, current, created, label>>

(* on_button_click: the worker is a new thread. *)
OnButtonClick(t) ==
  /\ clicks > 0
  /\ clicks' = clicks - 1
  /\ Job(t, "none", IF Active(current) THEN "disconnect" ELSE "connect")
  /\ enabled' = FALSE
  /\ UNCHANGED <<ctrlVars, current, created, label>>

(* worker_connect: `controller = ConnectionController(...)`, and then           *)
(* `controller.connect()` on what the variable holds by then.                   *)
NewController(t) ==
  /\ Job(t, "connect", "call_connect")
  /\ \E c \in Controllers \ created :
       /\ current' = c
       /\ created' = created \cup {c}
  /\ UNCHANGED <<ctrlVars, clicks, enabled, label>>

WorkerConnect(t) ==
  /\ Job(t, "call_connect", "running")
  /\ CallConnect(t, current)
  /\ UNCHANGED <<current, created, clicks, enabled, label>>

(* Its `controller is None` branch is dead: the handler has seen a controller.  *)
WorkerDisconnect(t) ==
  /\ Job(t, "disconnect", "running")
  /\ CallDisconnect(t, current)
  /\ UNCHANGED <<current, created, clicks, enabled, label>>

(* on_result, run through page.run_thread; an exception of connect() has become *)
(* a result that is not ok.                                                     *)
OnResultWhenOk(t) ==
  /\ pc[t] = "done" /\ result[t] = "ok"
  /\ Job(t, "running", "shown")
  /\ enabled' = TRUE
  /\ label' = "Disconnect"
  /\ UNCHANGED <<ctrlVars, current, created, clicks>>

OnResultToggled(t) ==
  /\ pc[t] = "done"
  /\ Job(t, "running", "shown")
  /\ enabled' = TRUE
  /\ label' = IF label = "Connect" THEN "Disconnect" ELSE "Connect"
  /\ UNCHANGED <<ctrlVars, current, created, clicks>>

OnResult(t) ==
  /\ pc[t] = "done"
  /\ Job(t, "running", "shown")
  /\ enabled' = TRUE
  /\ label' = IF result[t] = "ok" THEN "Disconnect" ELSE "Connect"
  /\ UNCHANGED <<ctrlVars, current, created, clicks>>

Worker(t) ==
  \/ NewController(t) \/ WorkerConnect(t) \/ WorkerDisconnect(t) \/ OnResult(t)
  \/ Advance(t) /\ UNCHANGED guiVars

GuiNext ==
  \/ Click
  \/ \E t \in Threads : \/ OnButtonClick(t) \/ Worker(t)
                        \/ Background(t) /\ UNCHANGED guiVars

(* The page handles its events and the workers are scheduled; the user need not *)
(* click.                                                                       *)
GuiFairness ==
  /\ WF_allVars(\E t \in Threads : OnButtonClick(t))
  /\ \A t \in Threads : WF_allVars(Worker(t))

GuiSpec == GuiInit /\ [][GuiNext]_allVars /\ GuiFairness

-----------------------------------------------------------------------------
(* Properties *)

Quiet == clicks = 0 /\ \A t \in Threads : job[t] \in {"none", "shown"}

(* Whatever the outcome of every attempt so far, once the page is quiet and the *)
(* current controller is neither connecting nor connected - so that the next    *)
(* click replaces it - no xray and no TUN of any attempt is left, but for the   *)
(* xray whose own start() or stop() raised beside it.                           *)
NothingLeftBehind ==
  Quiet /\ ~Active(current) => Tracked = {} /\ tunfd = {}

(* At no moment does a controller that has been replaced own a live xray or an  *)
(* open TUN (with the same exception): nothing could reach them any more        *)
(* (main.py 110, 129).                                                          *)
ReplacedOwnNothing ==
  \A t \in Tracked \cup tunfd : self[t] = current

(* The button comes back: every click is handled and on_result() enables the    *)
(* button in the end, also when connect() raises.                               *)
ButtonComesBack == (~enabled) ~> enabled

(* On a quiet page a tunnel that is up is never under a button that says        *)
(* "Connect", whatever the order in which the results came.                     *)
ConnectedOffersDisconnect ==
  Quiet /\ current # None /\ state[current] = "connected" => label = "Disconnect"
=============================================================================
