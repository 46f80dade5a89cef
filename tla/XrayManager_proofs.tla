--------------------------- MODULE XrayManager_proofs ---------------------------
(* Proofs about XrayManager for every number of attempts and of rounds, with or *)
(* without a foreign program on the port, with or without Ctrl+C.               *)
EXTENDS XrayManager, TLAPS

USE MaxRestartsAssumption, PollRoundsAssumption, FlagsAssumption

(* The states of pc in which start() itself runs, as opposed to stop().         *)
Loop == {"new", "spawn", "poll", "probe", "sleep", "diagnose"}

(* Only the child of the current attempt may be live, and not where the code    *)
(* has not spawned it yet or has come out of stop().                            *)
ChildInv ==
  /\ \A a \in Attempts : a # attempt => ~Live(a)
  /\ \A a \in Attempts : a > attempt => child[a] = "absent"
  /\ pc \in {"new", "spawn"} => child[attempt] = "absent"
  /\ pc \in {"backoff", "failed", "stopped"} => ~Live(attempt)

(* What start() has counted and collected on its way. *)
ReportInv ==
  /\ pc \in Loop \cup {"backoff"} => caller = "start"
  /\ pc \in {"probe", "sleep"} => rounds < PollRounds
  /\ pc \in Loop => restarts < attempt
  /\ restarts <= attempt
  /\ \A a \in Attempts : stderr[a] # "none" => child[a] = "exited"
  /\ pc = "backoff" /\ stderr[attempt] # "none" => attempt \in returncode
  /\ CrashHasExitCode

IInv == TypeOK /\ ChildInv /\ ReportInv

-----------------------------------------------------------------------------
LEMMA InitIInv == Init => IInv
  BY DEF Init, IInv, TypeOK, ChildInv, ReportInv, CrashHasExitCode, Live, Attempts,
         Nobody, Foreign, InStart, Back, Answers, ChildStates, Loop

LEMMA StepTypeOK == IInv /\ [Next]_vars => TypeOK'
<1> SUFFICES ASSUME IInv, [Next]_vars PROVE TypeOK'
  OBVIOUS
<1> USE DEF IInv, TypeOK, InStart, Back, Answers, Attempts, thread, os, report
<1>1. CASE Start
  BY <1>1 DEF Start
<1>2. CASE Spawn
  BY <1>2 DEF Spawn, ChildStates
<1>3. CASE SpawnRaises
  BY <1>3 DEF SpawnRaises, ChildStates
<1>4. CASE Poll
  BY <1>4 DEF Poll
<1>5. CASE Probe
  BY <1>5 DEF Probe
<1>6. CASE Sleep
  BY <1>6 DEF Sleep, ReportInv
<1>7. CASE Diagnose
  <2>1. restarts' \in 0..MaxRestarts
    BY <1>7 DEF Diagnose, ReportInv, Loop
  <2> QED
    BY <1>7, <2>1 DEF Diagnose, Diagnosis
<1>8. CASE Backoff
  <2>1. Diagnosis(returncode) \in [exit_code : BOOLEAN, stderr : BOOLEAN]
    BY DEF Diagnosis
  <2> QED
    BY <1>8, <2>1 DEF Backoff
<1>9. CASE Terminate
  <2>1. child' \in [Attempts -> ChildStates]
    BY <1>9 DEF Terminate, Signalled, ChildStates
  <2> QED
    BY <1>9, <2>1 DEF Terminate, AfterStop
<1>10. CASE Join
  BY <1>10 DEF Join, AfterStop
<1>11. CASE JoinTimesOut
  BY <1>11 DEF JoinTimesOut, AfterStop, ChildStates
<1>12. CASE Interrupt
  BY <1>12 DEF Interrupt
<1>13. CASE CallStop
  BY <1>13 DEF CallStop
<1>14. CASE ForeignProgram
  BY <1>14 DEF ForeignProgram, Nobody, Foreign
<1>15. ASSUME NEW a \in Attempts, Bind(a) PROVE TypeOK'
  BY <1>15 DEF Bind
<1>16. ASSUME NEW a \in Attempts, Crash(a) PROVE TypeOK'
  BY <1>16 DEF Crash, Exit, ChildStates, Nobody
<1>17. ASSUME NEW a \in Attempts, ObeySignal(a) PROVE TypeOK'
  BY <1>17 DEF ObeySignal, Exit, ChildStates, Nobody
<1>18. ASSUME NEW a \in Attempts, ReadStderr(a) PROVE TypeOK'
  BY <1>18 DEF ReadStderr
<1>19. CASE UNCHANGED vars
  BY <1>19 DEF vars
<1>20. CASE TerminateRaises
  BY <1>20 DEF TerminateRaises
<1> QED
  BY <1>1, <1>2, <1>3, <1>4, <1>5, <1>6, <1>7, <1>8, <1>9, <1>10, <1>11, <1>12, <1>13,
     <1>14, <1>15, <1>16, <1>17, <1>18, <1>19, <1>20 DEF Next, Manager, Environment

-----------------------------------------------------------------------------
(* ChildInv is disturbed by the steps that spawn, signal or lose a child, and   *)
(* by those that move the attempt or leave stop().                              *)
LEMMA StepChildInv == IInv /\ [Next]_vars => ChildInv'
<1> SUFFICES ASSUME IInv, [Next]_vars PROVE ChildInv'
  OBVIOUS
<1> USE DEF IInv, TypeOK, ChildInv, InStart, Back, Answers, Attempts, thread, os, report, Live
<1>1. CASE Start
  BY <1>1 DEF Start
<1>2. CASE Spawn
  BY <1>2 DEF Spawn
<1>3. CASE SpawnRaises
  BY <1>3 DEF SpawnRaises, ChildStates
<1>4. CASE Poll
  BY <1>4 DEF Poll
<1>5. CASE Probe
  BY <1>5 DEF Probe
<1>6. CASE Sleep
  BY <1>6 DEF Sleep
<1>7. CASE Diagnose
  BY <1>7 DEF Diagnose
<1>8. CASE Backoff
  BY <1>8 DEF Backoff
<1>9. CASE Terminate
  BY <1>9 DEF Terminate, AfterStop, Signalled
<1>10. CASE Join
  BY <1>10 DEF Join, AfterStop
<1>11. CASE JoinTimesOut
  BY <1>11 DEF JoinTimesOut, AfterStop
<1>12. CASE Interrupt
  BY <1>12 DEF Interrupt
<1>13. CASE CallStop
  BY <1>13 DEF CallStop
<1>14. CASE ForeignProgram
  BY <1>14 DEF ForeignProgram
<1>15. ASSUME NEW a \in Attempts, Bind(a) PROVE ChildInv'
  BY <1>15 DEF Bind
<1>16. ASSUME NEW a \in Attempts, Crash(a) PROVE ChildInv'
  BY <1>16 DEF Crash, Exit
<1>17. ASSUME NEW a \in Attempts, ObeySignal(a) PROVE ChildInv'
  BY <1>17 DEF ObeySignal, Exit
<1>18. ASSUME NEW a \in Attempts, ReadStderr(a) PROVE ChildInv'
  BY <1>18 DEF ReadStderr
<1>19. CASE UNCHANGED vars
  BY <1>19 DEF vars
<1>20. CASE TerminateRaises
  BY <1>20 DEF TerminateRaises
<1> QED
  BY <1>1, <1>2, <1>3, <1>4, <1>5, <1>6, <1>7, <1>8, <1>9, <1>10, <1>11, <1>12, <1>13,
     <1>14, <1>15, <1>16, <1>17, <1>18, <1>19, <1>20 DEF Next, Manager, Environment

-----------------------------------------------------------------------------
(* ReportInv is disturbed by the steps that poll, diagnose, crash a child or    *)
(* read its stderr.                                                             *)
LEMMA StepReportInv == IInv /\ [Next]_vars => ReportInv'
<1> SUFFICES ASSUME IInv, [Next]_vars PROVE ReportInv'
  OBVIOUS
<1> USE DEF IInv, TypeOK, ChildInv, ReportInv, CrashHasExitCode, Loop,
           InStart, Back, Answers, Attempts, thread, os, report, Live
<1>1. CASE Start
  BY <1>1 DEF Start
<1>2. CASE Spawn
  BY <1>2 DEF Spawn
<1>3. CASE SpawnRaises
  BY <1>3 DEF SpawnRaises, ChildStates
<1>4. CASE Poll
  BY <1>4 DEF Poll
<1>5. CASE Probe
  BY <1>5 DEF Probe
<1>6. CASE Sleep
  BY <1>6 DEF Sleep
<1>7. CASE Diagnose
  BY <1>7 DEF Diagnose, Diagnosis
<1>8. CASE Backoff
  <2>1. CASE attempt < MaxRestarts
    BY <1>8, <2>1 DEF Backoff
  <2>2. CASE ~(attempt < MaxRestarts)
    <3>1. pc' = "failed" /\ diag' = Diagnosis(returncode)
      BY <1>8, <2>2 DEF Backoff
    <3>2. diag'.exit_code <=> attempt \in returncode
      BY <3>1, Zenon DEF Diagnosis
    <3>3. CrashHasExitCode'
      BY <1>8, <2>2, <3>2 DEF Backoff
    <3> QED
      BY <1>8, <2>2, <3>3 DEF Backoff
  <2> QED
    BY <2>1, <2>2
<1>9. CASE Terminate
  BY <1>9 DEF Terminate, AfterStop, Signalled
<1>10. CASE Join
  BY <1>10 DEF Join, AfterStop
<1>11. CASE JoinTimesOut
  BY <1>11 DEF JoinTimesOut, AfterStop
<1>12. CASE Interrupt
  BY <1>12 DEF Interrupt
<1>13. CASE CallStop
  BY <1>13 DEF CallStop
<1>14. CASE ForeignProgram
  BY <1>14 DEF ForeignProgram
<1>15. ASSUME NEW a \in Attempts, Bind(a) PROVE ReportInv'
  BY <1>15 DEF Bind
<1>16. ASSUME NEW a \in Attempts, Crash(a) PROVE ReportInv'
  BY <1>16 DEF Crash, Exit
<1>17. ASSUME NEW a \in Attempts, ObeySignal(a) PROVE ReportInv'
  BY <1>17 DEF ObeySignal, Exit
<1>18. ASSUME NEW a \in Attempts, ReadStderr(a) PROVE ReportInv'
  BY <1>18 DEF ReadStderr
<1>19. CASE UNCHANGED vars
  BY <1>19 DEF vars
<1>20. CASE TerminateRaises
  BY <1>20 DEF TerminateRaises
<1> QED
  BY <1>1, <1>2, <1>3, <1>4, <1>5, <1>6, <1>7, <1>8, <1>9, <1>10, <1>11, <1>12, <1>13,
     <1>14, <1>15, <1>16, <1>17, <1>18, <1>19, <1>20 DEF Next, Manager, Environment

LEMMA StepIInv == IInv /\ [Next]_vars => IInv'
  BY StepTypeOK, StepChildInv, StepReportInv DEF IInv

(* Every reachable state satisfies the inductive invariant. *)
THEOREM Invariance == Spec => []IInv
<1> QED
  BY InitIInv, StepIInv, PTL DEF Spec

-----------------------------------------------------------------------------
(* Type correctness: in particular the counter of restarts never exceeds the    *)
(* number of attempts.                                                          *)
THEOREM TypeCorrect == Spec => []TypeOK
<1>1. IInv => TypeOK
  BY DEF IInv
<1> QED
  BY <1>1, Invariance, PTL

(* No start() that answered "failed" and no stop() that came back leaves a live *)
(* xray child behind, exceptions before that stop() included.                   *)
THEOREM NoOrphanHolds == Spec => []NoOrphan
<1>1. IInv => NoOrphan
  BY DEF IInv, TypeOK, ChildInv, NoOrphan, Live
<1> QED
  BY <1>1, Invariance, PTL

(* The attempts of a start() never pile up. *)
THEOREM OneLiveChildHolds == Spec => []OneLiveChild
<1>1. IInv => OneLiveChild
  BY DEF IInv, ChildInv, OneLiveChild
<1> QED
  BY <1>1, Invariance, PTL

(* A failed start() whose last child died by itself reports its exit code.      *)
THEOREM CrashHasExitCodeHolds == Spec => []CrashHasExitCode
<1>1. IInv => CrashHasExitCode
  BY DEF IInv, ReportInv
<1> QED
  BY <1>1, Invariance, PTL

-----------------------------------------------------------------------------
(* XrayManager implements ManagedXray: start() and stop() end in an outcome of  *)
(* XrayContract.                                                                *)

LEMMA InitRefines == Init => MX!Init
<1> SUFFICES ASSUME Init PROVE MX!Init
  OBVIOUS
<1>1. Call = "new"
  BY DEF Init, Call, InStart
<1>2. ~AnyLive
  BY DEF Init, AnyLive, Live
<1> QED
  BY <1>1, <1>2 DEF MX!Init

LEMMA StepRefines == IInv /\ IInv' /\ [Next]_vars => [MX!Next]_(MX!vars)
<1> SUFFICES ASSUME IInv, IInv', [Next]_vars PROVE [MX!Next]_(MX!vars)
  OBVIOUS
<1> USE DEF thread, os, report, MX!vars
<1> DEFINE PcTyped == /\ pc \in InStart \cup Back \cup {"new"}
                      /\ caller \in {"start", "stop"}
                      /\ pc \in Loop \cup {"backoff"} => caller = "start"
<1>0. PcTyped /\ PcTyped'
  BY DEF IInv, TypeOK, ReportInv
<1> HIDE DEF PcTyped
<1>b. AnyLive \in BOOLEAN /\ AnyLive' \in BOOLEAN
  BY DEF AnyLive
(* Until start() answers, whatever happens to its children is Work. *)
<1>1. ASSUME Call = "starting", Call' = "starting" PROVE MX!Next
  BY <1>1 DEF MX!Next, MX!Work, AnyLive
(* A step of no call, in which no child is born, is a death or invisible. *)
<1>2. ASSUME Call' = Call, AnyLive' => AnyLive PROVE [MX!Next]_(MX!vars)
  <2>1. CASE AnyLive /\ ~AnyLive'
    BY <1>2, <2>1, <1>b DEF MX!Next, MX!ChildDies
  <2>2. CASE AnyLive' = AnyLive
    BY <1>2, <2>2
  <2> QED
    BY <1>2, <2>1, <2>2 DEF AnyLive
(* stop() comes back to its caller once no child is live, or raises beside one. *)
<1>3. ASSUME Call = "stopping", Call' = "stopped", ~AnyLive' PROVE MX!Next
  BY <1>3, <1>b DEF MX!Next, MX!ReturnStop, MX!StopOutcomes
<1>17. ASSUME Call = "stopping", Call' = "raised", AnyLive, AnyLive' PROVE MX!Next
  BY <1>17, <1>b DEF MX!Next, MX!ReturnStop, MX!StopOutcomes
<1>4. ASSUME Call = "starting", Call' = "failed", ~AnyLive' PROVE MX!Next
  BY <1>4, <1>b DEF MX!Next, MX!ReturnStart, MX!StartOutcomes, MX!InterruptOutcomes
<1>5. ASSUME Call = "starting", Call' \in {"ok", "raised", "interrupted"} PROVE MX!Next
  BY <1>5 DEF MX!Next, MX!ReturnStart, MX!StartOutcomes, MX!InterruptOutcomes, AnyLive
(* Where stop() has come out of a child that start() or stop() had on hand.     *)
<1>6. pc' \in {"backoff", "failed", "stopped"} => ~AnyLive'
  BY DEF IInv, TypeOK, ChildInv, AnyLive, Live
<1>7. CASE Start
  <2>1. Call = "new" /\ Call' = "starting" /\ AnyLive' = AnyLive
    BY <1>7, <1>0 DEF Start, Call, InStart, Back, Answers, PcTyped, Loop, AnyLive, Live
  <2> QED
    BY <2>1 DEF MX!Next, MX!CallStart
<1>8. CASE Spawn \/ Sleep \/ Diagnose \/ Poll
  <2>1. Call = "starting" /\ Call' = "starting"
    BY <1>8, <1>0 DEF Spawn, Sleep, Diagnose, Poll, Call, InStart, Back, Answers, PcTyped, Loop
  <2> QED
    BY <2>1, <1>1
<1>9. CASE SpawnRaises
  <2>1. Call = "starting" /\ Call' = "raised"
    BY <1>9, <1>0 DEF SpawnRaises, Call, InStart, Back, Answers, PcTyped, Loop
  <2> QED
    BY <2>1, <1>5
<1>10. CASE Probe
  <2>1. Call = "starting" /\ Call' \in {"ok", "starting"}
    BY <1>10, <1>0 DEF Probe, Call, InStart, Back, Answers, PcTyped, Loop
  <2> QED
    BY <2>1, <1>1, <1>5
<1>11. CASE Backoff
  <2>1. Call = "starting" /\ (Call' = "starting" \/ (Call' = "failed" /\ pc' = "failed"))
    BY <1>11, <1>0 DEF Backoff, Call, InStart, Back, Answers, PcTyped, Loop
  <2> QED
    BY <2>1, <1>1, <1>4, <1>6
<1>12. CASE Terminate \/ Join \/ JoinTimesOut
  <2>1. CASE caller = "start"
    <3>1. Call = "starting" /\ Call' = "starting"
      BY <1>12, <2>1 DEF Terminate, Join, JoinTimesOut, AfterStop, Call, InStart, Back, Answers
    <3> QED
      BY <3>1, <1>1
  <2>2. CASE caller = "stop"
    <3>1. Call = "stopping"
      BY <1>12, <2>2 DEF Terminate, Join, JoinTimesOut, Call, InStart, Back, Answers
    <3>2. CASE pc' = "stopped"
      BY <3>1, <3>2, <1>3, <1>6 DEF Call, InStart
    <3>3. CASE pc' # "stopped"
      <4>1. Terminate /\ pc' = "join" /\ caller' = "stop"
        BY <1>12, <2>2, <3>3 DEF Terminate, Join, JoinTimesOut, AfterStop
      <4>2. Call' = Call
        BY <4>1, <3>1 DEF Call, InStart, Back, Answers
      <4>3. AnyLive' => AnyLive
        BY <4>1 DEF Terminate, Signalled, AnyLive, Live, IInv, TypeOK
      <4> QED
        BY <4>2, <4>3, <1>2
    <3> QED
      BY <3>2, <3>3
  <2> QED
    BY <2>1, <2>2, <1>0 DEF PcTyped
<1>13. CASE Interrupt
  <2>1. Call = "starting" /\ Call' = "interrupted"
    BY <1>13 DEF Interrupt, Call, InStart, Back, Answers
  <2> QED
    BY <2>1, <1>5
<1>14. CASE CallStop
  <2>1. Call \in Back /\ Call' = "stopping" /\ AnyLive' = AnyLive
    BY <1>14 DEF CallStop, Call, InStart, Back, Answers, AnyLive, Live
  <2> QED
    BY <2>1 DEF MX!Next, MX!CallStop, MX!Returned, Back, MX!Answers, Answers
<1>16. CASE TerminateRaises
  <2>1. Call' = "raised" /\ Call \in {"starting", "stopping"}
    BY <1>16, <1>0 DEF TerminateRaises, Call, InStart, Back, Answers
  <2>2. AnyLive /\ AnyLive'
    BY <1>16 DEF TerminateRaises, AnyLive, Live, IInv, TypeOK
  <2> QED
    BY <2>1, <2>2, <1>5, <1>17
(* No step of the environment changes the call or brings a child to life.       *)
<1>15. CASE Environment \/ UNCHANGED vars
  <2>1. Call' = Call
    BY <1>15 DEF Environment, ForeignProgram, Bind, Crash, ObeySignal, Exit, ReadStderr, vars, Call
  <2>2. AnyLive' => AnyLive
    BY <1>15 DEF Environment, ForeignProgram, Bind, Crash, ObeySignal, Exit, ReadStderr, vars,
                 AnyLive, Live, IInv, TypeOK
  <2> QED
    BY <2>1, <2>2, <1>2
<1> QED
  BY <1>7, <1>8, <1>9, <1>10, <1>11, <1>12, <1>13, <1>14, <1>15, <1>16
  DEF Next, Manager

(* Whatever the interleaving of the retries with crashes, late binds and        *)
(* signals, the manager is a ManagedXray to the component that calls it.        *)
THEOREM Refinement == Spec => ImplementsManagedXray
<1> QED
  BY InitRefines, StepRefines, Invariance, PTL DEF Spec, MX!Spec, ImplementsManagedXray
=============================================================================
