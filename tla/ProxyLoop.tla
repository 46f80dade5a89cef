-------------------------------- MODULE ProxyLoop --------------------------------
(* The command `proxy` of app/cli.py: it writes the configuration, starts xray, *)
(* tries the tunnel with a request, and then looks after xray until Ctrl+C,     *)
(* with a new XrayManager for every restart.  The managers are seen through     *)
(* XrayContract and numbered in the order the command creates them.             *)
(* Ctrl+C reaches the command at any point; that a terminal sends it to xray as *)
(* well is one of the ways XrayExits.                                           *)
EXTENDS Naturals, XrayContract

CONSTANTS
  MaxManagers,  \* bound of the model: managers created, one and the restarts
  SmokeTries    \* tries of the smoke test (15 in the code)

ASSUME MaxManagersAssumption == MaxManagers \in Nat \ {0}
ASSUME SmokeTriesAssumption == SmokeTries \in Nat \ {0}

VARIABLES
  pc,        \* where the command is
  mgr,       \* the manager in `manager`, 0 before there is one
  answer,    \* the answer of its start()
  live,      \* the managers with a live child
  tries,     \* _tries of the smoke test
  exit,      \* how the command ended
  abandoned  \* history: managers whose start() or stop() raised beside a live child

vars == <<pc, mgr, answer, live, tries, exit, abandoned>>

Managers == 1..MaxManagers

(* Where an exception is Ctrl+C's handler's, and where it is not. *)
Serving == {"look", "stop_old", "renew", "restarting", "usage_again", "sleep"}
Preparing == {"configure", "check_binary", "starting", "smoke", "usage"}
NoAnswer == "none"

TypeOK ==
  /\ pc \in Preparing \cup Serving \cup {"shutdown", "exited"}
  /\ mgr \in 0..MaxManagers
  /\ answer \in Answers \cup {NoAnswer}
  /\ live \in SUBSET Managers
  /\ tries \in 0..SmokeTries
  /\ exit \in {"running", "error", "aborted", "stopped"}
  /\ abandoned \in SUBSET Managers

Init ==
  /\ pc = "configure" /\ mgr = 0 /\ answer = NoAnswer
  /\ live = {} /\ tries = 0 /\ exit = "running" /\ abandoned = {}

Leave(how) == pc' = "exited" /\ exit' = how

(* A manager.start() that runs at pc = from; then answers.                      *)
Work(from) ==
  /\ pc = from
  /\ live' \in {live \ {mgr}, live \cup {mgr}}
  /\ UNCHANGED <<pc, mgr, answer, tries, exit, abandoned>>

Answer(o) ==
  /\ answer' = o.answer
  /\ live' = IF o.live THEN live \cup {mgr} ELSE live \ {mgr}
  /\ abandoned' = abandoned \cup {m \in {mgr} : o.answer = "raised" /\ o.live}

-----------------------------------------------------------------------------
(* Up to the usage text *)

(* load_config, generate_xray_config and the write of the overridden file. *)
Configure ==
  /\ pc = "configure"
  /\ \/ pc' = "check_binary" /\ UNCHANGED exit
     \/ Leave("error")
  /\ UNCHANGED <<mgr, answer, live, tries, abandoned>>

CheckBinary ==
  /\ pc = "check_binary"
  /\ \/ pc' = "starting" /\ mgr' = 1 /\ UNCHANGED exit
     \/ Leave("error") /\ UNCHANGED mgr
  /\ UNCHANGED <<answer, live, tries, abandoned>>

(* A start() that is not ok becomes an AppError; --no-check skips the smoke test. *)
Started ==
  /\ pc = "starting"
  /\ \E o \in StartOutcomes :
       /\ Answer(o)
       /\ IF o.answer = "ok"
            THEN pc' \in {"smoke", "usage"} /\ UNCHANGED exit
            ELSE Leave("error")
  /\ UNCHANGED <<mgr, tries>>

SmokeUnbounded ==
  /\ pc = "smoke"
  /\ tries' = tries + 1
  /\ pc' \in {"usage", "smoke"}
  /\ UNCHANGED <<mgr, answer, live, exit, abandoned>>

(* A request through the tunnel succeeds or not; every way curl or the raw      *)
(* SOCKS handshake can fail comes back as a value, never as an exception.       *)
ProbeThroughProxy == BOOLEAN

(* A try of the smoke test; running out of tries is only reported. *)
Smoke ==
  /\ pc = "smoke"
  /\ tries' = tries + 1
  /\ \E ok \in ProbeThroughProxy :
       pc' = IF ok \/ tries' = SmokeTries THEN "usage" ELSE "smoke"
  /\ UNCHANGED <<mgr, answer, live, exit, abandoned>>

(* "Proxy is listening." *)
Usage ==
  /\ pc \in {"usage", "usage_again"}
  /\ pc' = IF pc = "usage" THEN "look" ELSE "sleep"
  /\ UNCHANGED <<mgr, answer, live, tries, exit, abandoned>>

-----------------------------------------------------------------------------
(* The loop that keeps xray alive *)

LookOnce ==
  /\ pc = "look"
  /\ pc' = IF mgr \in live \/ mgr > 1 THEN "sleep" ELSE "stop_old"
  /\ UNCHANGED <<mgr, answer, live, tries, exit, abandoned>>

LookAtThePort ==
  /\ pc = "look"
  /\ pc' \in {"sleep", "renew"}
  /\ UNCHANGED <<mgr, answer, live, tries, exit, abandoned>>

Look ==
  /\ pc = "look"
  /\ pc' = IF mgr \in live THEN "sleep" ELSE "stop_old"
  /\ UNCHANGED <<mgr, answer, live, tries, exit, abandoned>>

(* The old child has exited, so stop() finds nothing to signal. *)
StopOld ==
  /\ pc = "stop_old"
  /\ pc' = "renew"
  /\ live' = live \ {mgr}
  /\ UNCHANGED <<mgr, answer, tries, exit, abandoned>>

Renew ==
  /\ pc = "renew" /\ mgr < MaxManagers
  /\ pc' = "restarting"
  /\ mgr' = mgr + 1
  /\ answer' = NoAnswer
  /\ UNCHANGED <<live, tries, exit, abandoned>>

(* What the start() of a restart answers is not looked at; an exception of it   *)
(* is not a KeyboardInterrupt and ends the command.                             *)
Restarted ==
  /\ pc = "restarting"
  /\ \E o \in StartOutcomes :
       /\ Answer(o)
       /\ IF o.answer = "raised" THEN Leave("error") ELSE pc' = "usage_again" /\ UNCHANGED exit
  /\ UNCHANGED <<mgr, tries>>

Sleep ==
  /\ pc = "sleep"
  /\ pc' = "look"
  /\ UNCHANGED <<mgr, answer, live, tries, exit, abandoned>>

-----------------------------------------------------------------------------
(* Ctrl+C and the child                                                         *)

Interrupt ==
  /\ \/ pc \in Preparing \cup {"shutdown"} /\ Leave("aborted")
     \/ pc \in Serving /\ pc' = "shutdown" /\ UNCHANGED exit
  /\ UNCHANGED <<mgr, answer, live, tries, abandoned>>

LeaveXrayRunning ==
  /\ pc = "shutdown"
  /\ Leave("stopped")
  /\ UNCHANGED <<mgr, answer, live, tries, abandoned>>

(* The handler: manager.stop() on the manager of the moment; an exception of it *)
(* ends the command as an error.                                                *)
Shutdown ==
  /\ pc = "shutdown"
  /\ \E o \in StopOutcomes(mgr \in live) :
       /\ live' = IF o.live THEN live ELSE live \ {mgr}
       /\ abandoned' = abandoned \cup {m \in {mgr} : o.live}
       /\ Leave(IF o.answer = "raised" THEN "error" ELSE "stopped")
  /\ UNCHANGED <<mgr, answer, tries>>

XrayExits ==
  /\ \E m \in live : live' = live \ {m}
  /\ UNCHANGED <<pc, mgr, answer, tries, exit, abandoned>>

Command ==
  \/ Configure \/ CheckBinary \/ Started \/ Smoke \/ Usage
  \/ Look \/ StopOld \/ Renew \/ Restarted \/ Sleep \/ Shutdown

Next ==
  \/ Command \/ Interrupt \/ XrayExits
  \/ Work("starting") \/ Work("restarting")

(* The command runs, and start() answers (CallReturns of XrayManager). *)
Spec == Init /\ [][Next]_vars /\ WF_vars(Command)

-----------------------------------------------------------------------------
(* Properties *)

(* When the command ends by Ctrl+C during service, or by an error of any of its *)
(* starts and restarts, it leaves no xray behind (cli.py 385-391, 419-421,      *)
(* 424-427).  Not so when Ctrl+C lands before the loop, or lands twice: nothing *)
(* catches it there; nor when the error is an exception that a start() or the   *)
(* last stop() has raised beside a live xray: nothing stops that one either.    *)
NoXrayLeft ==
  exit \in {"error", "stopped"} => live \subseteq abandoned

(* At any time at most one xray is live, the one of `manager`: a restart never  *)
(* competes for the port with what it replaces (cli.py 417-421).                *)
OneXray == live \subseteq {mgr}

(* An xray that dies at any time after its start - in the smoke test, in        *)
(* service, or because a restart failed - is replaced, unless the command ends. *)
Supervised ==
  \A m \in 1..(MaxManagers - 1) :
    (mgr = m /\ m \notin live /\ pc \in {"smoke", "usage"} \cup (Serving \ {"restarting"}))
      ~> (mgr # m \/ pc = "exited")
=============================================================================
