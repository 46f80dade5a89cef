------------------------------ MODULE XrayManager -------------------------------
(* app/xray/process.py with the health check both of its callers pass to it     *)
(* (check_port_open of app/xray/health.py): one XrayManager, the xray children  *)
(* its start() spawns one after the other, the reader threads that drain their  *)
(* stderr, the TCP port they all want, and possibly a foreign process on it.    *)
EXTENDS Naturals, XrayContract

CONSTANTS
  MaxRestarts,      \* XrayManager.max_restarts: the attempts start() makes
  PollRounds,       \* iterations of the loop of wait_ready, timeout / interval
  ForeignListener,  \* TRUE: another program may listen on the port
  Interruptible     \* TRUE: start() runs on the main thread, Ctrl+C unwinds it

ASSUME MaxRestartsAssumption == MaxRestarts \in Nat \ {0}
ASSUME PollRoundsAssumption == PollRounds \in Nat \ {0}
ASSUME FlagsAssumption == ForeignListener \in BOOLEAN /\ Interruptible \in BOOLEAN

VARIABLES
  pc,          \* where the thread that calls start() or stop() is
  caller,      \* whether XrayProcess.stop() runs for "start" or for "stop"
  attempt,     \* the attempt start() is at; `_process` is its XrayProcess
  rounds,      \* elapsed / interval of the current wait_ready
  child,       \* the operating system's view of the child of each attempt
  returncode,  \* attempts whose Popen has collected the exit code
  stderr,      \* where the last words of each child are
  listener,    \* who accepts connections on the port
  diag,        \* the last result of diagnose_failure
  restarts     \* the counter xray_restarts of app/metrics.py

thread == <<pc, caller, attempt, rounds>>
os == <<child, stderr, listener>>
report == <<returncode, diag, restarts>>
vars == <<thread, os, report>>

Attempts == 1..MaxRestarts
Nobody == 0
Foreign == MaxRestarts + 1

(* Waiting for an exit that SIGTERM or SIGKILL asked for is "terminating" or    *)
(* "killed": xray may take its time over the first, never over the second.      *)
ChildStates == {"absent", "running", "terminating", "killed", "exited"}
Live(a) == child[a] \in {"running", "terminating"}

InStart == {"spawn", "poll", "probe", "sleep", "diagnose", "terminate", "join", "backoff"}
Back == Answers \cup {"interrupted", "stopped"}

TypeOK ==
  /\ pc \in InStart \cup Back \cup {"new"}
  /\ caller \in {"start", "stop"}
  /\ attempt \in Attempts
  /\ rounds \in 0..PollRounds
  /\ child \in [Attempts -> ChildStates]
  /\ returncode \in SUBSET Attempts
  /\ stderr \in [Attempts -> {"none", "pipe", "captured"}]
  /\ listener \in 0..(MaxRestarts + 1)
  /\ diag \in [exit_code : BOOLEAN, stderr : BOOLEAN]
  /\ restarts \in 0..MaxRestarts

Init ==
  /\ pc = "new" /\ caller = "start" /\ attempt = 1 /\ rounds = 0
  /\ child = [a \in Attempts |-> "absent"]
  /\ returncode = {}
  /\ stderr = [a \in Attempts |-> "none"]
  /\ listener \in IF ForeignListener THEN {Nobody, Foreign} ELSE {Nobody}
  /\ diag = [exit_code |-> FALSE, stderr |-> FALSE]
  /\ restarts = 0

-----------------------------------------------------------------------------
(* XrayManager.start()                                                          *)

Start ==
  /\ pc = "new"
  /\ pc' = "spawn"
  /\ UNCHANGED <<caller, attempt, rounds, os, report>>

(* A new XrayProcess becomes `_process`; spawn() starts the child and its       *)
(* stderr reader.                                                               *)
Spawn ==
  /\ pc = "spawn"
  /\ pc' = "poll"
  /\ rounds' = 0
  /\ child' = [child EXCEPT ![attempt] = "running"]
  /\ UNCHANGED <<caller, attempt, stderr, listener, report>>

(* safe_subprocess_args() or Popen() raises, or, with the child already there,  *)
(* Thread.start() does: nothing catches it here, and nothing stops that child.  *)
SpawnRaises ==
  /\ pc = "spawn"
  /\ pc' = "raised"
  /\ child' \in {child, [child EXCEPT ![attempt] = "running"]}
  /\ UNCHANGED <<caller, attempt, rounds, stderr, listener, report>>

(* The head of the loop of wait_ready: out of time, or poll() the child.        *)
Poll ==
  /\ pc = "poll"
  /\ \/ rounds = PollRounds /\ pc' = "diagnose" /\ UNCHANGED returncode
     \/ /\ rounds < PollRounds /\ child[attempt] = "exited"
        /\ pc' = "diagnose"
        /\ returncode' = returncode \cup {attempt}
     \/ /\ rounds < PollRounds /\ child[attempt] # "exited"
        /\ pc' = "probe"
        /\ UNCHANGED returncode
  /\ UNCHANGED <<caller, attempt, rounds, os, diag, restarts>>

(* health_check(): any listener on the port will do. *)
Probe ==
  /\ pc = "probe"
  /\ pc' = IF listener # Nobody THEN "ok" ELSE "sleep"
  /\ UNCHANGED <<caller, attempt, rounds, os, report>>

SleepWithoutElapsed ==
  /\ pc = "sleep"
  /\ pc' = "poll"
  /\ UNCHANGED <<caller, attempt, rounds, os, report>>

Sleep ==
  /\ pc = "sleep"
  /\ pc' = "poll"
  /\ rounds' = rounds + 1
  /\ UNCHANGED <<caller, attempt, os, report>>

Diagnosis(codes) == [exit_code |-> attempt \in codes, stderr |-> stderr[attempt] = "captured"]

DiagnoseWithoutStop ==
  /\ pc = "diagnose"
  /\ diag' = Diagnosis(returncode)
  /\ restarts' = restarts + 1
  /\ pc' = "backoff"
  /\ UNCHANGED <<caller, attempt, rounds, os, returncode>>

Diagnose ==
  /\ pc = "diagnose"
  /\ diag' = Diagnosis(returncode)
  /\ restarts' = restarts + 1
  /\ pc' = "terminate"
  /\ UNCHANGED <<caller, attempt, rounds, os, returncode>>

BackoffOneTooMany ==
  /\ pc = "backoff"
  /\ attempt' = attempt + 1 /\ pc' = "spawn"
  /\ UNCHANGED <<caller, rounds, os, report>>

(* After proc.stop(): sleep and try again, or give up with a last diagnosis.    *)
Backoff ==
  /\ pc = "backoff"
  /\ IF attempt < MaxRestarts
       THEN attempt' = attempt + 1 /\ pc' = "spawn" /\ UNCHANGED diag
       ELSE pc' = "failed" /\ diag' = Diagnosis(returncode) /\ UNCHANGED attempt
  /\ UNCHANGED <<caller, rounds, os, returncode, restarts>>

(* KeyboardInterrupt anywhere inside start(). *)
Interrupt ==
  /\ Interruptible
  /\ caller = "start" /\ pc \in InStart
  /\ pc' = "interrupted"
  /\ UNCHANGED <<caller, attempt, rounds, os, report>>

-----------------------------------------------------------------------------
(* XrayProcess.stop(), called by start() on a failed attempt and by             *)
(* XrayManager.stop() on `_process`                                             *)

AfterStop == IF caller = "start" THEN "backoff" ELSE "stopped"

CallStop ==
  /\ pc \in Back
  /\ caller' = "stop"
  /\ pc' = "terminate"
  /\ UNCHANGED <<attempt, rounds, os, report>>

Signalled == IF child[attempt] = "running"
               THEN [child EXCEPT ![attempt] = "terminating"] ELSE child

TerminateWithoutWait ==
  /\ pc = "terminate"
  /\ pc' = AfterStop
  /\ child' = Signalled
  /\ UNCHANGED <<caller, attempt, rounds, stderr, listener, report>>

TerminateWithoutPoll ==
  /\ pc = "terminate"
  /\ IF child[attempt] \in {"absent", "exited"}
       THEN pc' = AfterStop /\ UNCHANGED child
       ELSE pc' = "join" /\ child' = Signalled
  /\ UNCHANGED <<caller, attempt, rounds, stderr, listener, report>>

(* `if self.proc and self.proc.poll() is None: self.proc.terminate()`           *)
Terminate ==
  /\ pc = "terminate"
  /\ IF child[attempt] \in {"absent", "exited"}
       THEN /\ pc' = AfterStop
            /\ returncode' = returncode \cup {a \in {attempt} : child[a] = "exited"}
            /\ UNCHANGED child
       ELSE /\ pc' = "join"
            /\ child' = Signalled
            /\ UNCHANGED returncode
  /\ UNCHANGED <<caller, attempt, rounds, stderr, listener, diag, restarts>>

(* The operating system refuses the SIGTERM: stop(), and a start() that called  *)
(* it, end in the exception.  (A child that took SIGTERM also takes SIGKILL.)   *)
TerminateRaises ==
  /\ pc = "terminate" /\ child[attempt] = "running"
  /\ pc' = "raised"
  /\ UNCHANGED <<caller, attempt, rounds, os, report>>

(* proc.wait(timeout=10) *)
Join ==
  /\ pc = "join" /\ child[attempt] = "exited"
  /\ pc' = AfterStop
  /\ returncode' = returncode \cup {attempt}
  /\ UNCHANGED <<caller, attempt, rounds, os, diag, restarts>>

JoinGivesUp ==
  /\ pc = "join" /\ child[attempt] # "exited"
  /\ pc' = AfterStop
  /\ UNCHANGED <<caller, attempt, rounds, os, report>>

(* TimeoutExpired: kill() and no second wait. *)
JoinTimesOut ==
  /\ pc = "join" /\ child[attempt] # "exited"
  /\ pc' = AfterStop
  /\ child' = [child EXCEPT ![attempt] = "killed"]
  /\ UNCHANGED <<caller, attempt, rounds, stderr, listener, report>>

-----------------------------------------------------------------------------
(* The children, their stderr and the port                                      *)

(* xray opens its inbound; if the port is taken it exits (Crash). *)
Bind(a) ==
  /\ child[a] \in {"running", "terminating"} /\ listener = Nobody
  /\ listener' = a
  /\ UNCHANGED <<thread, child, stderr, report>>

Exit(a) ==
  /\ child' = [child EXCEPT ![a] = "exited"]
  /\ listener' = IF listener = a THEN Nobody ELSE listener
  /\ UNCHANGED <<thread, report>>

Crash(a) ==
  /\ child[a] = "running"
  /\ stderr' = [stderr EXCEPT ![a] = "pipe"]
  /\ Exit(a)

ObeySignal(a) ==
  /\ child[a] \in {"terminating", "killed"}
  /\ UNCHANGED stderr
  /\ Exit(a)

(* The daemon thread _read_stderr.  (A child whose spawn() raised has none, and *)
(* nothing diagnoses it.)                                                       *)
ReadStderr(a) ==
  /\ stderr[a] = "pipe"
  /\ stderr' = [stderr EXCEPT ![a] = "captured"]
  /\ UNCHANGED <<thread, child, listener, report>>

ForeignProgram ==
  /\ ForeignListener
  /\ listener \in {Nobody, Foreign}
  /\ listener' \in {Nobody, Foreign}
  /\ UNCHANGED <<thread, child, stderr, report>>

-----------------------------------------------------------------------------
Manager ==
  \/ Start \/ Spawn \/ SpawnRaises \/ Poll \/ Probe \/ Sleep
  \/ Diagnose \/ Backoff \/ Terminate \/ TerminateRaises \/ Join \/ JoinTimesOut

Environment ==
  \/ ForeignProgram
  \/ \E a \in Attempts : Bind(a) \/ Crash(a) \/ ObeySignal(a) \/ ReadStderr(a)

Next == Manager \/ Interrupt \/ CallStop \/ Environment

(* The calling thread is scheduled; so are SIGKILL and the reader threads.      *)
Fairness ==
  /\ WF_vars(Manager)
  /\ \A a \in Attempts : /\ WF_vars(child[a] = "killed" /\ ObeySignal(a))
                         /\ WF_vars(ReadStderr(a))

Spec == Init /\ [][Next]_vars /\ Fairness

-----------------------------------------------------------------------------
(* Properties *)

(* No orphan: when start() has answered that it failed, and whenever stop() has *)
(* come back - after a success, a failure, an exception, or a Ctrl+C at any     *)
(* point of start() - no child of any attempt is left live (process.py 84-92,   *)
(* 118, 123-125).  An exception itself may leave the child of the last attempt: *)
(* `_process` is that attempt's, and only a stop() of this manager reaches it.  *)
NoOrphan ==
  pc \in {"failed", "stopped"} => \A a \in Attempts : ~Live(a)

(* The attempts do not pile up: a new child is spawned only once the previous   *)
(* one is gone or has been sent SIGKILL, however the stop() in between and the  *)
(* crashes interleave (process.py 107-120).                                     *)
OneLiveChild ==
  \A a, b \in Attempts : Live(a) /\ Live(b) => a = b

(* A start() that fails on a child that died by itself reports its exit code,   *)
(* also when it died after the last poll() of wait_ready and only stop() saw it *)
(* (process.py 57, 77, 85, 121).                                                *)
CrashHasExitCode ==
  pc = "failed" /\ stderr[attempt] # "none" => diag.exit_code

(* Every start() and every stop() returns: wait_ready runs out of rounds, the   *)
(* loop out of attempts, and stop() does not depend on xray obeying SIGTERM.    *)
CallReturns == (pc \in InStart) ~> (pc \in Back)

(* XrayManager keeps the promise its callers rely on, XrayContract.             *)
Call == IF pc \notin InStart THEN pc
        ELSE IF caller = "start" THEN "starting" ELSE "stopping"

AnyLive == \E a \in Attempts : Live(a)

MX == INSTANCE ManagedXray WITH call <- Call, live <- AnyLive

ImplementsManagedXray == MX!Spec

(* "Verifies that the xray process is alive and its inbound proxy port accepts  *)
(* connections" (health.py 3): when start() answers ok, the port that answered  *)
(* the probe is the one of the child it started.                                *)
ReadyPortIsOurs ==
  [][pc = "probe" /\ pc' = "ok" => listener = attempt]_vars
=============================================================================
