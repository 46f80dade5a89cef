---------------------------- MODULE ProxyLoop_proofs -----------------------------
(* Proofs about ProxyLoop for any number of restarts and of smoke-test tries.   *)
EXTENDS ProxyLoop, TLAPS

USE MaxManagersAssumption, SmokeTriesAssumption

(* The command starts a manager only once the one before is stopped, and runs   *)
(* no command that could leave a child behind on its way to an error.           *)
XrayInv ==
  /\ OneXray
  /\ NoXrayLeft
  /\ pc \in {"configure", "check_binary", "renew"} => live = {}
  /\ pc \notin {"configure", "check_binary", "exited"} => mgr \in Managers
  /\ pc # "exited" => exit = "running"
  /\ pc \in {"configure", "check_binary", "starting"} => tries = 0
  /\ pc = "smoke" => tries < SmokeTries

IInv == TypeOK /\ XrayInv

LEMMA InitIInv == Init => IInv
  BY DEF Init, IInv, TypeOK, XrayInv, OneXray, NoXrayLeft, Preparing, NoAnswer, Managers

(* The children a start() leaves are at most the one of `manager`.              *)
LEMMA AnswerEffect ==
  ASSUME NEW o \in StartOutcomes, Answer(o)
  PROVE  /\ answer' \in Answers
         /\ live' \in {live \cup {mgr}, live \ {mgr}}
         /\ abandoned' \in {abandoned, abandoned \cup {mgr}}
         /\ answer' # "ok" => live' = live \ {mgr} \/ mgr \in abandoned'
<1>1. o.answer \in Answers /\ o.live \in BOOLEAN /\ (o.answer = "failed" => o.live = FALSE)
  BY DEF StartOutcomes, Answers
<1>2. o.answer # "ok" => o.answer = "raised" \/ o.live = FALSE
  BY <1>1 DEF Answers
<1> QED
  BY <1>1, <1>2 DEF Answer

LEMMA StepIInv == IInv /\ [Next]_vars => IInv'
<1> SUFFICES ASSUME IInv, [Next]_vars PROVE IInv'
  OBVIOUS
<1> USE DEF IInv, TypeOK, XrayInv, OneXray, NoXrayLeft, Preparing, Serving, Managers, Leave
<1>1. CASE Configure
  BY <1>1 DEF Configure
<1>2. CASE CheckBinary
  BY <1>2 DEF CheckBinary
<1>3. CASE Started
  <2>1. PICK o \in StartOutcomes :
          /\ Answer(o)
          /\ IF o.answer = "ok" THEN pc' \in {"smoke", "usage"} /\ UNCHANGED exit
                                ELSE Leave("error")
    BY <1>3 DEF Started
  <2>2. answer' = o.answer /\ answer' \in Answers
    BY <2>1, AnswerEffect DEF Answer
  <2>3. UNCHANGED <<mgr, tries>> /\ tries = 0 /\ mgr \in Managers /\ live \subseteq {mgr}
    BY <1>3 DEF Started
  <2>4. abandoned \subseteq abandoned' /\ abandoned' \in SUBSET Managers
    BY <2>1, <2>3, AnswerEffect
  <2>5. CASE answer' = "ok"
    <3>1. live' \subseteq {mgr}
      BY <2>1, <2>3, AnswerEffect
    <3> QED
      BY <1>3, <2>1, <2>2, <2>3, <2>5, <2>4, <3>1 DEF Started
  <2>6. CASE answer' # "ok"
    <3>1. live' \subseteq {mgr} /\ live' \subseteq abandoned'
      BY <2>1, <2>3, <2>6, AnswerEffect
    <3> QED
      BY <1>3, <2>1, <2>2, <2>3, <2>6, <2>4, <3>1 DEF Started
  <2> QED
    BY <2>5, <2>6
<1>4. CASE Smoke
  BY <1>4 DEF Smoke, ProbeThroughProxy
<1>5. CASE Usage
  BY <1>5 DEF Usage
<1>6. CASE Look
  BY <1>6 DEF Look
<1>7. CASE StopOld
  BY <1>7 DEF StopOld
<1>8. CASE Renew
  BY <1>8 DEF Renew, NoAnswer
<1>9. CASE Restarted
  <2>1. PICK o \in StartOutcomes :
          /\ Answer(o)
          /\ IF o.answer = "raised" THEN Leave("error") ELSE pc' = "usage_again" /\ UNCHANGED exit
    BY <1>9 DEF Restarted
  <2>2. answer' = o.answer
    BY <2>1 DEF Answer
  <2> QED
    BY <1>9, <2>1, <2>2, AnswerEffect DEF Restarted
<1>10. CASE Sleep
  BY <1>10 DEF Sleep
<1>11. CASE Shutdown
  <2>1. PICK o \in StopOutcomes(mgr \in live) :
          /\ live' = IF o.live THEN live ELSE live \ {mgr}
          /\ abandoned' = abandoned \cup {m \in {mgr} : o.live}
          /\ Leave(IF o.answer = "raised" THEN "error" ELSE "stopped")
    BY <1>11 DEF Shutdown
  <2>2. o.live \in BOOLEAN
    BY <2>1 DEF StopOutcomes
  <2>3. CASE o.live
    BY <1>11, <2>1, <2>3 DEF Shutdown
  <2>4. CASE ~o.live
    BY <1>11, <2>1, <2>4 DEF Shutdown
  <2> QED
    BY <2>3, <2>4
<1>12. CASE Interrupt
  BY <1>12 DEF Interrupt
<1>13. CASE XrayExits
  BY <1>13 DEF XrayExits
<1>14. CASE Work("starting") \/ Work("restarting")
  BY <1>14 DEF Work
<1>15. CASE UNCHANGED vars
  BY <1>15 DEF vars
<1> QED
  BY <1>1, <1>2, <1>3, <1>4, <1>5, <1>6, <1>7, <1>8, <1>9, <1>10, <1>11, <1>12, <1>13,
     <1>14, <1>15 DEF Next, Command

(* Every reachable state satisfies the inductive invariant. *)
THEOREM Invariance == Spec => []IInv
<1> QED
  BY InitIInv, StepIInv, PTL DEF Spec

(* Type correctness of the command's state. *)
THEOREM TypeCorrect == Spec => []TypeOK
<1>1. IInv => TypeOK
  BY DEF IInv
<1> QED
  BY <1>1, Invariance, PTL

(* Neither a failing restart nor a Ctrl+C in the loop leaves an xray behind,    *)
(* unless a call raised beside it.                                              *)
THEOREM NoXrayLeftHolds == Spec => []NoXrayLeft
<1>1. IInv => NoXrayLeft
  BY DEF IInv, XrayInv
<1> QED
  BY <1>1, Invariance, PTL

(* Two managers never have a live xray at the same time. *)
THEOREM OneXrayHolds == Spec => []OneXray
<1>1. IInv => OneXray
  BY DEF IInv, XrayInv
<1> QED
  BY <1>1, Invariance, PTL
=============================================================================
