---------------------------- MODULE AndroidVpn_proofs ----------------------------
(* Proofs about AndroidVpn for any number of taps and of deaths of the process. *)
EXTENDS AndroidVpn, FiniteSetTheorems, SequenceTheorems, TLAPS

USE BoundsAssumption

Callbacks == {"create", "start", "destroy"}

(* The service exists after the first i callbacks of q, if it does before as a. *)
ExistsAfter(q, a, i) == IF i = 0 THEN a ELSE q[i] # "destroy"

(* The activity manager's queue q leads from a service that exists as a to one  *)
(* that exists as u, and creates only what does not exist.                      *)
Leads(q, a, u) ==
  /\ \A i \in 1..Len(q) : q[i] = "create" <=> ~ExistsAfter(q, a, i - 1)
  /\ u <=> ExistsAfter(q, a, Len(q))

Starts(q) == {i \in 1..Len(q) : q[i] = "start"}

One(b) == IF b THEN 1 ELSE 0

(* Every dialog, and every start the service is given, goes back to a tap or to *)
(* the death of a process that had been started.                                *)
Asked == dialogs + One(tap) + One(bridge \in {"prepare", "start"})

CountInv ==
  /\ Asked <= taps
  /\ attempt + Cardinality(Starts(queue)) + Asked <= taps + kills

(* A service that does not exist has no fields, and one that is not running has *)
(* neither a TUN nor an xray; what is open or lives is what the fields name.    *)
FieldsInv ==
  /\ ~alive => ~running /\ main = "looper"
  /\ ~running => iface = 0 /\ xrayProcess = 0
  /\ main = "establish" => ~running
  /\ main = "exec" => running /\ xrayProcess = 0
  /\ main # "looper" => attempt # 0
  /\ tuns \subseteq {iface} /\ xrays \subseteq {xrayProcess}

ServiceInv == Leads(queue, alive, up) /\ FieldsInv

(* What the status line says is the page's state, or something is on its way.   *)
PageInv ==
  text = (IF state = "disconnected" THEN "idle" ELSE state) \/ posts # <<>> \/ dialogs > 0

IInv == TypeOK /\ CountInv /\ ServiceInv /\ PageInv

-----------------------------------------------------------------------------
(* Queues of callbacks *)

LEMMA AppendLeads ==
  ASSUME NEW q \in Seq(Callbacks), NEW a \in BOOLEAN, NEW u \in BOOLEAN, Leads(q, a, u),
         NEW c \in Callbacks, c = "create" <=> ~u, NEW v \in BOOLEAN, v <=> c # "destroy"
  PROVE  Leads(Append(q, c), a, v)
<1> DEFINE r == Append(q, c)
<1>1. Len(r) = Len(q) + 1 /\ r[Len(q) + 1] = c /\ \A i \in 1..Len(q) : r[i] = q[i]
  BY AppendProperties
<1>2. Len(q) \in Nat
  BY LenProperties
<1>3. \A i \in 0..Len(q) : ExistsAfter(r, a, i) <=> ExistsAfter(q, a, i)
  BY <1>1, <1>2 DEF ExistsAfter
<1>4. ASSUME NEW i \in 1..Len(r) PROVE r[i] = "create" <=> ~ExistsAfter(r, a, i - 1)
  <2>1. CASE i \in 1..Len(q)
    BY <1>1, <1>2, <1>3, <2>1 DEF Leads
  <2>2. CASE i = Len(q) + 1
    <3>1. ExistsAfter(r, a, i - 1) <=> u
      BY <1>2, <1>3, <2>2 DEF Leads
    <3> QED
      BY <1>1, <2>2, <3>1
  <2> QED
    BY <1>1, <1>2, <2>1, <2>2
<1>5. v <=> ExistsAfter(r, a, Len(r))
  BY <1>1, <1>2 DEF ExistsAfter
<1> QED
  BY <1>4, <1>5 DEF Leads

LEMMA TailLeads ==
  ASSUME NEW q \in Seq(Callbacks), q # <<>>, NEW a \in BOOLEAN, NEW u \in BOOLEAN, Leads(q, a, u)
  PROVE  /\ Head(q) = "create" <=> ~a
         /\ Leads(Tail(q), Head(q) # "destroy", u)
<1> DEFINE r == Tail(q)
           b == Head(q) # "destroy"
<1>1. Len(q) \in Nat \ {0} /\ Head(q) = q[1]
  BY EmptySeq
<1>2. Len(r) = Len(q) - 1 /\ \A i \in 1..Len(r) : r[i] = q[i + 1]
  BY HeadTailProperties
<1>3. \A i \in 0..Len(r) : ExistsAfter(r, b, i) <=> ExistsAfter(q, a, i + 1)
  BY <1>1, <1>2 DEF ExistsAfter
<1>4. Head(q) = "create" <=> ~a
  BY <1>1 DEF Leads, ExistsAfter
<1>5. ASSUME NEW i \in 1..Len(r) PROVE r[i] = "create" <=> ~ExistsAfter(r, b, i - 1)
  <2>1. r[i] = q[i + 1] /\ i + 1 \in 1..Len(q) /\ i - 1 \in 0..Len(r) /\ (i - 1) + 1 = (i + 1) - 1
    BY <1>1, <1>2
  <2>2. q[i + 1] = "create" <=> ~ExistsAfter(q, a, (i + 1) - 1)
    BY <2>1 DEF Leads
  <2> QED
    BY <1>3, <2>1, <2>2
<1>6. u <=> ExistsAfter(r, b, Len(r))
  <2>1. Len(r) \in 0..Len(r) /\ Len(r) + 1 = Len(q)
    BY <1>1, <1>2
  <2> QED
    BY <1>3, <2>1 DEF Leads
<1> QED
  BY <1>4, <1>5, <1>6 DEF Leads

(* How many start commands a queue holds. *)
LEMMA CountStarts ==
  ASSUME NEW q \in Seq(Callbacks)
  PROVE  IsFiniteSet(Starts(q)) /\ Cardinality(Starts(q)) \in Nat
<1>1. IsFiniteSet(1..Len(q)) /\ Starts(q) \in SUBSET (1..Len(q))
  BY FS_Interval, LenProperties DEF Starts
<1> QED
  BY <1>1, FS_Subset, FS_CardinalityType

LEMMA AppendStarts ==
  ASSUME NEW q \in Seq(Callbacks), NEW c \in Callbacks
  PROVE  Cardinality(Starts(Append(q, c))) = Cardinality(Starts(q)) + One(c = "start")
<1>1. /\ Len(q) \in Nat /\ Len(Append(q, c)) = Len(q) + 1 /\ Append(q, c)[Len(q) + 1] = c
      /\ \A i \in 1..Len(q) : Append(q, c)[i] = q[i]
  BY AppendProperties, LenProperties
<1>2. Starts(Append(q, c)) = IF c = "start" THEN Starts(q) \cup {Len(q) + 1} ELSE Starts(q)
  BY <1>1 DEF Starts
<1>3. Len(q) + 1 \notin Starts(q)
  BY <1>1 DEF Starts
<1>4. Cardinality(Starts(q) \cup {Len(q) + 1}) = Cardinality(Starts(q)) + 1
  BY <1>3, CountStarts, FS_AddElement
<1> QED
  BY <1>2, <1>4, CountStarts DEF One

LEMMA TailStarts ==
  ASSUME NEW q \in Seq(Callbacks), q # <<>>
  PROVE  Cardinality(Starts(Tail(q))) + One(Head(q) = "start") <= Cardinality(Starts(q))
<1> DEFINE S == Starts(Tail(q))
           T == Starts(q) \ {1}
           f == [i \in S |-> i + 1]
<1>1. /\ Len(q) \in Nat \ {0} /\ Head(q) = q[1] /\ Len(Tail(q)) = Len(q) - 1
      /\ \A i \in 1..Len(Tail(q)) : Tail(q)[i] = q[i + 1]
  BY EmptySeq, HeadTailProperties
<1>2. IsFiniteSet(Starts(q)) /\ Cardinality(Starts(q)) \in Nat
  BY CountStarts
<1>3. 1 \in Starts(q) <=> Head(q) = "start"
  BY <1>1 DEF Starts
<1>4. IsFiniteSet(T) /\ Cardinality(T) = Cardinality(Starts(q)) - One(Head(q) = "start")
  BY <1>2, <1>3, FS_RemoveElement DEF One
<1>5. f \in Injection(S, T)
  <2>1. \A i \in S : i \in Nat /\ i + 1 \in T
    BY <1>1 DEF Starts
  <2>2. f \in [S -> T] /\ \A i, j \in S : f[i] = f[j] => i = j
    BY <2>1
  <2> QED
    BY <2>2 DEF Injection, IsInjective
<1>6. IsFiniteSet(S) /\ Cardinality(S) <= Cardinality(T)
  <2> HIDE DEF f, S, T
  <2> QED
    BY <1>4, <1>5, FS_Injection
<1>7. Cardinality(S) \in Nat
  BY <1>6, FS_CardinalityType
<1> QED
  BY <1>2, <1>4, <1>6, <1>7 DEF One

-----------------------------------------------------------------------------
(* What the activity manager's operations do to its queue *)

LEMMA Starting ==
  ASSUME TypeOK, Leads(queue, alive, up), StartForegroundService
  PROVE  /\ started' = TRUE /\ up' = TRUE /\ bound' = bound
         /\ queue' \in Seq(Callbacks) /\ Leads(queue', alive, TRUE)
         /\ Cardinality(Starts(queue')) = Cardinality(Starts(queue)) + 1
<1> DEFINE created == IF up THEN queue ELSE Append(queue, "create")
<1>1. queue \in Seq(Callbacks) /\ alive \in BOOLEAN /\ up \in BOOLEAN
  BY DEF TypeOK, Callbacks
<1>2. queue' = Append(created, "start") /\ started' = TRUE /\ up' = TRUE /\ bound' = bound
  BY <1>1 DEF StartForegroundService, Callbacks
<1>3. created \in Seq(Callbacks) /\ Leads(created, alive, TRUE)
  <2>1. CASE up
    BY <1>1, <2>1
  <2>2. CASE ~up
    <3>1. Leads(Append(queue, "create"), alive, TRUE)
      BY <1>1, <2>2, AppendLeads DEF Callbacks
    <3>2. Append(queue, "create") \in Seq(Callbacks)
      BY <1>1 DEF Callbacks
    <3>3. created = Append(queue, "create")
      BY <2>2
    <3> QED
      BY <3>1, <3>2, <3>3
  <2> QED
    BY <1>1, <2>1, <2>2
<1>4. Cardinality(Starts(created)) = Cardinality(Starts(queue))
  <2>1. Cardinality(Starts(Append(queue, "create"))) = Cardinality(Starts(queue)) + 0
    BY <1>1, AppendStarts DEF Callbacks, One
  <2> QED
    BY <1>1, <2>1, CountStarts
<1> HIDE DEF created
<1>5. Leads(Append(created, "start"), alive, TRUE)
  BY <1>1, <1>3, AppendLeads DEF Callbacks
<1>6. Cardinality(Starts(Append(created, "start"))) = Cardinality(Starts(queue)) + 1
  BY <1>3, <1>4, AppendStarts DEF Callbacks, One
<1>7. Append(created, "start") \in Seq(Callbacks)
  BY <1>3 DEF Callbacks
<1> QED
  BY <1>2, <1>5, <1>6, <1>7

LEMMA Releasing ==
  ASSUME TypeOK, Leads(queue, alive, up), NEW b \in BOOLEAN, Release(b)
  PROVE  /\ started' = FALSE /\ bound' = b /\ up' \in BOOLEAN
         /\ queue' \in Seq(Callbacks) /\ Leads(queue', alive, up')
         /\ Cardinality(Starts(queue')) = Cardinality(Starts(queue))
<1>1. queue \in Seq(Callbacks) /\ alive \in BOOLEAN /\ up \in BOOLEAN
  BY DEF TypeOK, Callbacks
<1>2. CASE up /\ ~b
  <2>1. up' = FALSE /\ queue' = Append(queue, "destroy")
    BY <1>2 DEF Release
  <2>2. Leads(Append(queue, "destroy"), alive, FALSE)
    BY <1>1, <1>2, AppendLeads DEF Callbacks
  <2>3. Cardinality(Starts(Append(queue, "destroy"))) = Cardinality(Starts(queue)) + 0
    BY <1>1, AppendStarts DEF Callbacks, One
  <2>4. Append(queue, "destroy") \in Seq(Callbacks)
    BY <1>1 DEF Callbacks
  <2>5. started' = FALSE /\ bound' = b
    BY DEF Release
  <2>6. Cardinality(Starts(queue')) = Cardinality(Starts(queue))
    BY <1>1, <2>1, <2>3, CountStarts
  <2>7. Leads(queue', alive, up') /\ queue' \in Seq(Callbacks) /\ up' \in BOOLEAN
    BY <2>1, <2>2, <2>4
  <2> QED
    BY <2>5, <2>6, <2>7
<1>3. CASE ~(up /\ ~b)
  BY <1>1, <1>3 DEF Release
<1> QED
  BY <1>2, <1>3

(* The process and with it the service begin anew. *)
LEMMA Ending ==
  ASSUME TypeOK, ProcessEnds
  PROVE  /\ queue' \in Seq(Callbacks) /\ up' \in BOOLEAN
         /\ Leads(queue', FALSE, up')
         /\ Cardinality(Starts(queue')) <= 1
<1>1. up' = started /\ started \in BOOLEAN /\ up' \in BOOLEAN
  BY DEF ProcessEnds, TypeOK
<1>2. CASE started
  <2>1. queue' = <<"create", "start">>
    BY <1>2 DEF ProcessEnds, TypeOK
  <2>2. Len(queue') = 2 /\ queue'[1] = "create" /\ queue'[2] = "start"
    BY <2>1
  <2>3. Starts(queue') = {2}
    BY <2>2 DEF Starts
  <2>4. \A i \in 1..2 : queue'[i] = "create" <=> ~ExistsAfter(queue', FALSE, i - 1)
    BY <2>2 DEF ExistsAfter
  <2>5. up' <=> ExistsAfter(queue', FALSE, 2)
    BY <1>1, <1>2, <2>2 DEF ExistsAfter
  <2>6. Leads(queue', FALSE, up')
    BY <2>2, <2>4, <2>5 DEF Leads
  <2>7. queue' \in Seq(Callbacks)
    BY <2>1 DEF Callbacks
  <2>8. Cardinality(Starts(queue')) = 1
    BY <2>3, FS_Singleton
  <2>9. Cardinality(Starts(queue')) <= 1
    BY <2>8
  <2> QED
    BY <1>1, <2>6, <2>7, <2>9
<1>3. CASE ~started
  <2>1. queue' = <<>> /\ Len(queue') = 0
    BY <1>3 DEF ProcessEnds, TypeOK
  <2>2. Starts(queue') = {}
    BY <2>1 DEF Starts
  <2>3. up' <=> ExistsAfter(queue', FALSE, 0)
    BY <1>1, <1>3 DEF ExistsAfter
  <2>4. \A i \in 1..0 : queue'[i] = "create" <=> ~ExistsAfter(queue', FALSE, i - 1)
    OBVIOUS
  <2>5. Leads(queue', FALSE, up')
    BY <2>1, <2>3, <2>4 DEF Leads
  <2>6. Cardinality(Starts(queue')) <= 1
    BY <2>2, FS_EmptySet
  <2>7. queue' \in Seq(Callbacks)
    BY <2>1
  <2> QED
    BY <1>1, <2>5, <2>6, <2>7
<1> QED
  BY <1>1, <1>2, <1>3

-----------------------------------------------------------------------------
(* The type invariant by the parts of the state that actions leave alone. *)
UiOK ==
  /\ state \in States \cup {"idle"}
  /\ text \in States \cup {"idle", "connecting", "disconnecting"}
  /\ tap \in BOOLEAN
  /\ bridge \in {"none", "prepare", "start", "notify_on", "stop", "notify_off"}
  /\ dialogs \in 0..MaxTaps
  /\ posts \in Seq(States)

ManagerOK ==
  /\ started \in BOOLEAN /\ bound \in BOOLEAN /\ up \in BOOLEAN
  /\ queue \in Seq(Callbacks)

ServiceOK ==
  /\ alive \in BOOLEAN
  /\ main \in {"looper", "establish", "exec", "stop"}
  /\ running \in BOOLEAN
  /\ iface \in Attempts \cup {0}
  /\ xrayProcess \in Attempts \cup {0}
  /\ attempt \in Attempts \cup {0}

OsOK == pumps \in SUBSET Attempts /\ tuns \in SUBSET Attempts /\ xrays \in SUBSET Attempts

BoundsOK == taps \in 0..MaxTaps /\ kills \in 0..MaxKills

(* The type invariant in parts, one for each actor. *)
LEMMA TypeParts == TypeOK <=> UiOK /\ ManagerOK /\ ServiceOK /\ OsOK /\ BoundsOK
  BY DEF TypeOK, UiOK, ManagerOK, ServiceOK, OsOK, BoundsOK, Callbacks

LEMMA TypeFrames ==
  /\ UiOK /\ UNCHANGED ui => UiOK'
  /\ ManagerOK /\ UNCHANGED manager => ManagerOK'
  /\ ServiceOK /\ UNCHANGED service => ServiceOK'
  /\ OsOK /\ UNCHANGED os => OsOK'
  /\ BoundsOK /\ UNCHANGED bounds => BoundsOK'
<1>1. UiOK /\ UNCHANGED ui => UiOK'
  BY DEF UiOK, ui
<1>2. ManagerOK /\ UNCHANGED manager => ManagerOK'
  BY DEF ManagerOK, manager
<1>3. ServiceOK /\ UNCHANGED service => ServiceOK'
  BY DEF ServiceOK, service
<1>4. OsOK /\ UNCHANGED os => OsOK'
  BY DEF OsOK, os
<1>5. BoundsOK /\ UNCHANGED bounds => BoundsOK'
  BY DEF BoundsOK, bounds
<1> QED
  BY <1>1, <1>2, <1>3, <1>4, <1>5

(* A page that is loaded again has the types of a new one. *)
LEMMA FreshPageOK == TypeOK /\ FreshPage => UiOK'
<1>1. <<>> \in Seq(States)
  BY EmptySeq
<1>2. FreshPage => posts' \in Seq(States)
  BY <1>1 DEF FreshPage
<1>3. FreshPage => /\ state' \in States \cup {"idle"}
                   /\ text' \in States \cup {"idle", "connecting", "disconnecting"}
                   /\ bridge' \in {"none", "prepare", "start", "notify_on", "stop", "notify_off"}
  BY DEF FreshPage
<1>4. FreshPage => tap' \in BOOLEAN
  BY DEF FreshPage
<1>5. TypeOK /\ FreshPage => dialogs' \in 0..MaxTaps
  <2>1. TypeOK => dialogs \in 0..MaxTaps /\ 0 \in 0..MaxTaps
    BY BoundsAssumption DEF TypeOK
  <2> QED
    BY <2>1 DEF FreshPage
<1> QED
  BY <1>2, <1>3, <1>4, <1>5 DEF UiOK

LEMMA InitIInv == Init => IInv
<1> SUFFICES ASSUME Init PROVE IInv
  OBVIOUS
<1> USE DEF Init
<1>1. TypeOK
  <2>1. <<>> \in Seq(States) /\ <<>> \in Seq(Callbacks)
    BY EmptySeq
  <2>2. UiOK
    <3>1. posts \in Seq(States)
      BY <2>1
    <3>2. tap \in BOOLEAN
      OBVIOUS
    <3>3. dialogs \in 0..MaxTaps
      OBVIOUS
    <3> QED
      BY <3>1, <3>2, <3>3 DEF UiOK
  <2>3. ManagerOK
    BY <2>1 DEF ManagerOK
  <2>4. ServiceOK
    BY DEF ServiceOK
  <2>5. OsOK /\ BoundsOK
    BY DEF OsOK, BoundsOK
  <2> QED
    BY <2>2, <2>3, <2>4, <2>5, TypeParts
<1>2. CountInv
  <2>1. Starts(queue) = {}
    BY DEF Starts
  <2>2. Cardinality(Starts(queue)) = 0
    BY <2>1, FS_EmptySet
  <2> QED
    BY <2>2 DEF CountInv, Asked, One
<1>3. Leads(queue, alive, up)
  <2>1. Len(queue) = 0 /\ ~alive /\ ~up
    OBVIOUS
  <2>2. \A i \in 1..Len(queue) : FALSE
    BY <2>1
  <2> QED
    BY <2>1, <2>2 DEF Leads, ExistsAfter
<1>4. ServiceInv /\ PageInv
  BY <1>3 DEF ServiceInv, FieldsInv, PageInv
<1> QED
  BY <1>1, <1>2, <1>4 DEF IInv

(* A callback is the first of the queue, and the rest leads on from it. *)
LEMMA Calling ==
  ASSUME IInv, NEW c \in Callbacks, Callback(c), queue' = Tail(queue)
  PROVE  /\ c = "create" <=> ~alive
         /\ queue' \in Seq(Callbacks)
         /\ \A b \in BOOLEAN : (b <=> c # "destroy") => Leads(queue', b, up)
         /\ Cardinality(Starts(queue')) + One(c = "start") <= Cardinality(Starts(queue))
         /\ Cardinality(Starts(queue)) \in Nat /\ Cardinality(Starts(queue')) \in Nat
<1>1. queue \in Seq(Callbacks) /\ queue # <<>> /\ Head(queue) = c
  BY DEF IInv, TypeOK, Callback, Callbacks
<1>2. alive \in BOOLEAN /\ up \in BOOLEAN /\ Leads(queue, alive, up)
  BY DEF IInv, TypeOK, ServiceInv
<1>3. (c = "create" <=> ~alive) /\ Leads(queue', c # "destroy", up)
  BY <1>1, <1>2, TailLeads
<1>4. queue' \in Seq(Callbacks)
  BY <1>1, HeadTailProperties
<1>5. \A b \in BOOLEAN : (b <=> c # "destroy") => Leads(queue', b, up)
  BY <1>3 DEF Leads, ExistsAfter
<1>6. Cardinality(Starts(queue')) + One(c = "start") <= Cardinality(Starts(queue))
  BY <1>1, TailStarts
<1> QED
  BY <1>1, <1>3, <1>4, <1>5, <1>6, CountStarts

(* A start that is called is one of those counted. *)
LEMMA StartIsCounted ==
  ASSUME IInv, Callback("start"), queue' = Tail(queue)
  PROVE  attempt + 1 \in Attempts
<1>1. Cardinality(Starts(queue)) \in Nat /\ Cardinality(Starts(queue')) \in Nat
      /\ Cardinality(Starts(queue')) + One("start" = "start") <= Cardinality(Starts(queue))
  BY Calling DEF Callbacks
<1>2. attempt \in Nat /\ dialogs \in Nat /\ taps \in 0..MaxTaps /\ kills \in 0..MaxKills
  BY DEF IInv, TypeOK, Attempts
<1> QED
  BY <1>1, <1>2 DEF IInv, CountInv, Asked, One, Attempts

LEMMA StepTypeOK == IInv /\ [Next]_vars => TypeOK'
<1> SUFFICES ASSUME IInv, [Next]_vars PROVE TypeOK'
  OBVIOUS
<1>1. TypeOK /\ Leads(queue, alive, up)
  BY DEF IInv, ServiceInv
<1>2. UiOK /\ ManagerOK /\ ServiceOK /\ OsOK /\ BoundsOK
  BY <1>1, TypeParts
<1>3. dialogs + One(bridge = "prepare") <= MaxTaps
  BY <1>1 DEF IInv, CountInv, Asked, TypeOK, One
<1>4. bound \in BOOLEAN
  BY <1>2 DEF ManagerOK
<1> SUFFICES UiOK' /\ ManagerOK' /\ ServiceOK' /\ OsOK' /\ BoundsOK'
  BY DEF TypeOK, UiOK, ManagerOK, ServiceOK, OsOK, BoundsOK, Callbacks
<1>5. ASSUME StartForegroundService PROVE ManagerOK'
  BY <1>1, <1>4, <1>5, Starting DEF ManagerOK
<1>6. ASSUME NEW b \in BOOLEAN, Release(b) PROVE ManagerOK'
  BY <1>1, <1>6, Releasing DEF ManagerOK
<1>7. CASE Tap
  BY <1>2, <1>7, TypeFrames DEF Tap, UiOK, BoundsOK
<1>8. CASE Toggle
  BY <1>2, <1>8, TypeFrames DEF Toggle, UiOK
<1>9. CASE Prepare
  BY <1>2, <1>3, <1>9, TypeFrames DEF Prepare, UiOK, One
<1>10. CASE BridgeStart
  BY <1>2, <1>5, <1>10, TypeFrames DEF BridgeStart, UiOK
<1>11. CASE BridgeStop
  BY <1>2, <1>4, <1>6, <1>11, TypeFrames DEF BridgeStop, UiOK
<1>12. CASE Notify
  BY <1>2, <1>12, TypeFrames DEF Notify, UiOK, States
<1>13. CASE OnVpnState
  BY <1>2, <1>13, TypeFrames, HeadTailProperties DEF OnVpnState, UiOK
<1>14. CASE OnActivityResult
  BY <1>2, <1>5, <1>14, TypeFrames DEF OnActivityResult, UiOK, States
<1>15. CASE Reopen
  BY <1>1, <1>2, <1>15, TypeFrames, FreshPageOK DEF Reopen
<1>16. CASE OnCreate
  BY <1>2, <1>16, TypeFrames, HeadTailProperties DEF OnCreate, Callback, ManagerOK, ServiceOK
<1>17. CASE OnStartCommand
  BY <1>2, <1>17, TypeFrames, HeadTailProperties, StartIsCounted
     DEF OnStartCommand, Callback, ManagerOK, ServiceOK
<1>18. CASE Establish
  BY <1>2, <1>18, TypeFrames DEF Establish, ManagerOK, ServiceOK, OsOK, IInv, ServiceInv, FieldsInv
<1>19. CASE Exec
  BY <1>2, <1>19, TypeFrames DEF Exec, ServiceOK, OsOK, IInv, ServiceInv, FieldsInv
<1>20. CASE StopVpn
  BY <1>2, <1>4, <1>6, <1>20, TypeFrames DEF StopVpn, CleanUp, ServiceOK, OsOK
<1>21. CASE OnDestroy
  BY <1>2, <1>21, TypeFrames, HeadTailProperties
     DEF OnDestroy, Callback, CleanUp, ManagerOK, ServiceOK, OsOK
<1>22. CASE SystemUnbinds
  BY <1>2, <1>6, <1>22, TypeFrames DEF SystemUnbinds, ManagerOK
<1>23. CASE XrayDies
  BY <1>2, <1>23, TypeFrames DEF XrayDies, OsOK
<1>24. CASE ProcessEnds
  <2>1. UiOK'
    BY <1>1, <1>24, FreshPageOK DEF ProcessEnds
  <2>2. ManagerOK'
    <3>1. queue' \in Seq(Callbacks) /\ up' \in BOOLEAN
      BY <1>1, <1>24, Ending
    <3>2. started' \in BOOLEAN /\ bound' \in BOOLEAN
      BY <1>2, <1>24 DEF ProcessEnds, ManagerOK
    <3> QED
      BY <3>1, <3>2 DEF ManagerOK
  <2>3. ServiceOK'
    BY <1>2, <1>24 DEF ProcessEnds, ServiceOK
  <2>4. OsOK' /\ BoundsOK'
    BY <1>2, <1>24 DEF ProcessEnds, OsOK, BoundsOK
  <2> QED
    BY <2>1, <2>2, <2>3, <2>4
<1>25. CASE Pump
  BY <1>2, <1>24, <1>25, TypeFrames DEF Pump, OsOK
<1>26. CASE UNCHANGED vars
  BY <1>2, <1>26, TypeFrames DEF vars
<1> QED
  BY <1>7, <1>8, <1>9, <1>10, <1>11, <1>12, <1>13, <1>14, <1>15, <1>16, <1>17, <1>18, <1>19,
     <1>20, <1>21, <1>22, <1>23, <1>24, <1>25, <1>26 DEF Next, Page, Main, Killed

LEMMA StepCountInv == IInv /\ [Next]_vars => CountInv'
<1> SUFFICES ASSUME IInv, [Next]_vars PROVE CountInv'
  OBVIOUS
<1> DEFINE C == Cardinality(Starts(queue))
<1>1. TypeOK /\ Leads(queue, alive, up) /\ CountInv
  BY DEF IInv, ServiceInv
<1>2. queue \in Seq(Callbacks) /\ queue' \in Seq(Callbacks)
  BY <1>1, StepTypeOK DEF TypeOK, Callbacks
<1>3. C \in Nat /\ C' \in Nat
  BY <1>2, CountStarts
<1>4. dialogs \in Nat /\ attempt \in Nat /\ taps \in Nat /\ kills \in Nat /\ bound \in BOOLEAN
  BY <1>1 DEF TypeOK, Attempts
<1>5. One(tap) \in 0..1 /\ One(bridge \in {"prepare", "start"}) \in 0..1
  BY DEF One
<1>6. Asked <= taps /\ attempt + C + Asked <= taps + kills /\ Asked \in Nat
  BY <1>1, <1>4, <1>5 DEF CountInv, Asked
<1>7. SUFFICES Asked' <= taps' /\ attempt' + C' + Asked' <= taps' + kills'
  BY DEF CountInv
<1>8. ASSUME Asked' \in Nat, C' <= C, Asked' <= Asked, UNCHANGED <<attempt, taps, kills>>
      PROVE  Asked' <= taps' /\ attempt' + C' + Asked' <= taps' + kills'
  BY <1>3, <1>4, <1>6, <1>8
<1>9. UNCHANGED <<tap, bridge, dialogs>> => Asked' = Asked
  BY DEF Asked
<1>10. UNCHANGED queue => C' = C
  OBVIOUS
<1>11. ASSUME NEW b \in BOOLEAN, Release(b) PROVE C' = C
  BY <1>1, <1>11, Releasing
<1>12. StartForegroundService => C' = C + 1
  BY <1>1, Starting
<1>13. ASSUME NEW c \in Callbacks, Callback(c), queue' = Tail(queue)
       PROVE  C' + One(c = "start") <= C
  BY <1>13, Calling
<1>14. CASE Tap
  <2>1. Asked' = Asked + 1
    BY <1>1, <1>4, <1>5, <1>14 DEF Tap, Asked, One, TypeOK
  <2> QED
    BY <1>3, <1>4, <1>6, <1>10, <1>14, <2>1 DEF Tap, manager, service
<1>15. CASE Toggle
  <2>1. Asked' \in Nat /\ Asked' <= Asked
    BY <1>1, <1>4, <1>15 DEF Toggle, Asked, One
  <2> QED
    BY <1>3, <1>8, <1>10, <1>15, <2>1 DEF Toggle, manager, service, bounds
<1>16. CASE Prepare
  <2>1. Asked' = Asked
    BY <1>1, <1>4, <1>5, <1>16 DEF Prepare, Asked, One
  <2> QED
    BY <1>3, <1>6, <1>8, <1>10, <1>16, <2>1 DEF Prepare, manager, service, bounds
<1>17. CASE BridgeStart
  <2>1. Asked' = Asked - 1
    BY <1>1, <1>4, <1>5, <1>17 DEF BridgeStart, Asked, One
  <2>2. C' = C + 1
    BY <1>12, <1>17 DEF BridgeStart
  <2> QED
    BY <1>3, <1>4, <1>6, <1>17, <2>1, <2>2 DEF BridgeStart, service, bounds
<1>18. CASE BridgeStop
  <2>1. Asked' = Asked
    BY <1>1, <1>4, <1>5, <1>18 DEF BridgeStop, Asked, One
  <2>2. C' = C
    BY <1>4, <1>11, <1>18 DEF BridgeStop
  <2> QED
    BY <1>3, <1>6, <1>8, <1>18, <2>1, <2>2 DEF BridgeStop, service, bounds
<1>19. CASE Notify
  <2>1. Asked' = Asked
    BY <1>1, <1>4, <1>5, <1>19 DEF Notify, Asked, One
  <2> QED
    BY <1>3, <1>6, <1>8, <1>10, <1>19, <2>1 DEF Notify, manager, service, bounds
<1>20. CASE OnVpnState
  BY <1>3, <1>6, <1>8, <1>9, <1>10, <1>20 DEF OnVpnState, manager, service, bounds
<1>21. CASE OnActivityResult
  <2>1. Asked' = Asked - 1
    BY <1>4, <1>5, <1>21 DEF OnActivityResult, Asked
  <2>2. C' <= C + 1
    BY <1>3, <1>10, <1>12, <1>21 DEF OnActivityResult, manager
  <2> QED
    BY <1>3, <1>4, <1>6, <1>21, <2>1, <2>2 DEF OnActivityResult, service, bounds
<1>22. FreshPage => Asked' \in Nat /\ Asked' <= Asked
  <2> SUFFICES ASSUME FreshPage PROVE Asked' \in Nat /\ Asked' <= Asked
    OBVIOUS
  <2>1. Asked' = dialogs' /\ dialogs' \in {0, dialogs}
    <3>1. One(tap)' = 0 /\ One(bridge \in {"prepare", "start"})' = 0
      BY DEF FreshPage, One
    <3> QED
      BY <1>4, <3>1 DEF FreshPage, Asked
  <2>2. Asked >= dialogs
    BY <1>4, <1>5 DEF Asked
  <2> QED
    BY <1>4, <1>6, <2>1, <2>2
<1>23. CASE Reopen
  BY <1>3, <1>6, <1>8, <1>10, <1>22, <1>23 DEF Reopen, manager, service, bounds
<1>24. CASE OnCreate
  <2>1. C' + One("create" = "start") <= C
    BY <1>13, <1>24 DEF OnCreate, Callbacks
  <2>2. C' <= C
    BY <1>3, <2>1 DEF One
  <2> QED
    BY <1>6, <1>8, <1>9, <1>24, <2>2 DEF OnCreate, ui, bounds
<1>25. CASE OnStartCommand
  <2>1. C' + One("start" = "start") <= C
    BY <1>13, <1>25 DEF OnStartCommand, Callbacks
  <2>2. C' + 1 <= C
    BY <1>3, <2>1 DEF One
  <2>3. attempt' = attempt \/ attempt' = attempt + 1
    BY <1>25 DEF OnStartCommand
  <2> QED
    BY <1>3, <1>4, <1>6, <1>9, <1>25, <2>2, <2>3 DEF OnStartCommand, ui, bounds
<1>26. CASE OnDestroy
  <2>1. C' + One("destroy" = "start") <= C
    BY <1>13, <1>26 DEF OnDestroy, Callbacks
  <2>2. C' <= C
    BY <1>3, <2>1 DEF One
  <2> QED
    BY <1>6, <1>8, <1>9, <1>26, <2>2 DEF OnDestroy, ui, bounds
<1>27. CASE Establish
  BY <1>3, <1>6, <1>8, <1>9, <1>10, <1>27 DEF Establish, ui, bounds
<1>28. CASE Exec
  BY <1>3, <1>6, <1>8, <1>9, <1>10, <1>28 DEF Exec, ui, manager, bounds
<1>29. CASE StopVpn
  <2>1. C' = C
    BY <1>4, <1>10, <1>11, <1>29 DEF StopVpn, manager
  <2> QED
    BY <1>3, <1>6, <1>8, <1>9, <1>29, <2>1 DEF StopVpn, ui, bounds
<1>30. CASE SystemUnbinds
  <2>1. C' = C
    BY <1>10, <1>11, <1>30 DEF SystemUnbinds
  <2> QED
    BY <1>3, <1>6, <1>8, <1>9, <1>30, <2>1 DEF SystemUnbinds, ui, service, bounds
<1>31. CASE XrayDies
  BY <1>3, <1>6, <1>8, <1>9, <1>10, <1>31 DEF XrayDies, ui, manager, service, bounds
<1>32. CASE ProcessEnds
  <2>1. C' <= 1
    BY <1>1, <1>32, Ending
  <2>2. Asked' \in Nat /\ Asked' <= Asked
    BY <1>22, <1>32 DEF ProcessEnds
  <2> QED
    BY <1>3, <1>4, <1>6, <1>32, <2>1, <2>2 DEF ProcessEnds
<1>33. CASE Pump
  BY <1>3, <1>6, <1>8, <1>9, <1>10, <1>32, <1>33 DEF Pump, ui, manager, service, bounds
<1>34. CASE UNCHANGED vars
  BY <1>3, <1>6, <1>8, <1>9, <1>10, <1>34 DEF vars, ui, manager, service, bounds
<1> QED
  BY <1>14, <1>15, <1>16, <1>17, <1>18, <1>19, <1>20, <1>21, <1>23, <1>24, <1>25, <1>26, <1>27,
     <1>28, <1>29, <1>30, <1>31, <1>32, <1>33, <1>34 DEF Next, Page, Main, Killed

LEMMA StepLeads == IInv /\ [Next]_vars => Leads(queue, alive, up)'
<1> SUFFICES ASSUME IInv, [Next]_vars PROVE Leads(queue', alive', up')
  OBVIOUS
<1>1. TypeOK /\ Leads(queue, alive, up) /\ bound \in BOOLEAN
  BY DEF IInv, ServiceInv, TypeOK
<1>2. ASSUME queue' = queue, alive' = alive, up' = up PROVE Leads(queue', alive', up')
  BY <1>1, <1>2
<1>3. ASSUME StartForegroundService, alive' = alive PROVE Leads(queue', alive', up')
  <2>1. Leads(queue', alive, TRUE) /\ up' = TRUE
    BY <1>1, <1>3, Starting
  <2> QED
    BY <1>3, <2>1
<1>4. ASSUME NEW b \in BOOLEAN, Release(b), alive' = alive PROVE Leads(queue', alive', up')
  <2>1. Leads(queue', alive, up')
    BY <1>1, <1>4, Releasing
  <2> QED
    BY <1>4, <2>1
<1>5. ASSUME NEW c \in Callbacks, Callback(c), queue' = Tail(queue), up' = up,
             NEW b \in BOOLEAN, alive' = b, b <=> c # "destroy"
      PROVE  Leads(queue', alive', up')
  <2>1. Leads(queue', b, up)
    BY <1>5, Calling
  <2> QED
    BY <1>5, <2>1
<1>6. CASE BridgeStart
  BY <1>3, <1>6 DEF BridgeStart, service
<1>7. CASE OnActivityResult
  BY <1>2, <1>3, <1>7 DEF OnActivityResult, manager, service
<1>8. CASE BridgeStop
  BY <1>1, <1>4, <1>8 DEF BridgeStop, service
<1>9. CASE StopVpn
  BY <1>1, <1>2, <1>4, <1>9 DEF StopVpn, manager
<1>10. CASE SystemUnbinds
  BY <1>2, <1>4, <1>10 DEF SystemUnbinds, service
<1>11. CASE OnCreate
  BY <1>5, <1>11 DEF OnCreate, Callbacks
<1>12. CASE OnStartCommand
  <2>1. alive' = TRUE
    <3>1. "start" = "create" <=> ~alive
      BY <1>12, Calling DEF OnStartCommand, Callbacks
    <3>2. alive \in BOOLEAN /\ alive' = alive
      BY <1>1, <1>12 DEF OnStartCommand, TypeOK
    <3> QED
      BY <3>1, <3>2
  <2> QED
    BY <1>5, <1>12, <2>1 DEF OnStartCommand, Callbacks
<1>13. CASE OnDestroy
  BY <1>5, <1>13 DEF OnDestroy, Callbacks
<1>14. CASE ProcessEnds
  <2>1. Leads(queue', FALSE, up') /\ alive' = FALSE
    BY <1>1, <1>14, Ending DEF ProcessEnds
  <2> QED
    BY <2>1
<1>15. CASE Pump
  BY <1>2, <1>14, <1>15 DEF Pump, manager, service
<1>16. CASE Tap \/ Toggle \/ Prepare \/ Notify \/ OnVpnState \/ Reopen
  BY <1>2, <1>16 DEF Tap, Toggle, Prepare, Notify, OnVpnState, Reopen, manager, service
<1>17. CASE Establish \/ Exec
  BY <1>2, <1>17 DEF Establish, Exec, manager
<1>18. CASE XrayDies \/ UNCHANGED vars
  BY <1>2, <1>18 DEF XrayDies, vars, manager, service
<1> QED
  BY <1>6, <1>7, <1>8, <1>9, <1>10, <1>11, <1>12, <1>13, <1>14, <1>15, <1>16, <1>17, <1>18
     DEF Next, Page, Main, Killed

LEMMA StepFields == IInv /\ [Next]_vars => FieldsInv'
<1> SUFFICES ASSUME IInv, [Next]_vars PROVE FieldsInv'
  OBVIOUS
<1>1. TypeOK /\ FieldsInv
  BY DEF IInv, ServiceInv
<1>2. ASSUME UNCHANGED <<service, tuns, xrays>> PROVE FieldsInv'
  BY <1>1, <1>2 DEF FieldsInv, service
<1>3. ASSUME running' = FALSE, main' = "looper", iface' = 0, xrayProcess' = 0,
             tuns' = {}, xrays' = {}
      PROVE  FieldsInv'
  BY <1>3 DEF FieldsInv
<1>4. tuns \subseteq {iface} /\ xrays \subseteq {xrayProcess} /\ 0 \notin tuns /\ 0 \notin xrays
  BY <1>1 DEF FieldsInv, TypeOK, Attempts
<1>5. CASE OnCreate
  <2>1. ~alive
    BY <1>5, Calling DEF OnCreate, Callbacks
  <2>2. tuns = {} /\ xrays = {}
    BY <1>1, <1>4, <2>1 DEF FieldsInv
  <2> QED
    BY <1>3, <1>5, <2>2 DEF OnCreate, Callback, os
<1>6. CASE OnStartCommand
  <2>1. CASE running
    BY <1>2, <1>6, <2>1 DEF OnStartCommand, service, os
  <2>2. CASE ~running
    <3>1. /\ main' = "establish" /\ attempt' = attempt + 1 /\ alive' = alive /\ running' = running
          /\ iface' = iface /\ xrayProcess' = xrayProcess /\ tuns' = tuns /\ xrays' = xrays
      BY <1>6, <2>2 DEF OnStartCommand, os
    <3>2. alive
      BY <1>1, <1>6, Calling DEF OnStartCommand, Callbacks, TypeOK
    <3>3. attempt + 1 # 0
      BY <1>1 DEF TypeOK, Attempts
    <3> QED
      BY <1>1, <2>2, <3>1, <3>2, <3>3 DEF FieldsInv
  <2> QED
    BY <2>1, <2>2
<1>7. CASE Establish
  <2>1. alive /\ ~running /\ iface = 0 /\ xrayProcess = 0 /\ attempt # 0
    BY <1>1, <1>7 DEF Establish, FieldsInv
  <2>2. tuns = {}
    BY <1>4, <2>1
  <2>3. alive' = alive /\ xrayProcess' = 0 /\ attempt' = attempt /\ xrays' = xrays
    BY <1>7, <2>1 DEF Establish
  <2>4. \/ main' = "stop" /\ running' = running /\ iface' = iface /\ tuns' = tuns
        \/ main' = "exec" /\ running' = TRUE /\ iface' = attempt /\ tuns' = tuns \cup {attempt}
        \/ main' = "exec" /\ running' = TRUE /\ iface' = 0 /\ tuns' = tuns
    BY <1>7 DEF Establish
  <2>5. tuns' \subseteq {iface'}
    BY <2>2, <2>4
  <2>6. xrays' \subseteq {xrayProcess'}
    BY <1>4, <2>1, <2>3
  <2> QED
    BY <2>1, <2>3, <2>4, <2>5, <2>6 DEF FieldsInv
<1>8. CASE Exec
  <2>1. xrays = {} /\ xrayProcess = 0 /\ alive
    BY <1>1, <1>4, <1>8 DEF Exec, FieldsInv
  <2>2. UNCHANGED <<alive, running, iface, attempt, tuns>>
    BY <1>8 DEF Exec
  <2>3. CASE main' = "stop" /\ UNCHANGED <<xrayProcess, xrays, pumps>>
    BY <1>1, <1>8, <2>1, <2>2, <2>3 DEF Exec, FieldsInv
  <2>4. CASE main' = "looper" /\ xrayProcess' = attempt /\ xrays' = xrays \cup {attempt}
    <3>1. running
      BY <1>1, <1>8 DEF Exec, FieldsInv
    <3> QED
      BY <1>1, <2>1, <2>2, <2>4, <3>1 DEF FieldsInv
  <2> QED
    BY <1>8, <2>3, <2>4 DEF Exec
<1>9. ASSUME CleanUp PROVE running' = FALSE /\ iface' = 0 /\ xrayProcess' = 0 /\ tuns' = {} /\ xrays' = {}
  BY <1>4, <1>9 DEF CleanUp
<1>10. CASE StopVpn
  BY <1>3, <1>9, <1>10 DEF StopVpn
<1>11. CASE OnDestroy
  BY <1>3, <1>9, <1>11 DEF OnDestroy, Callback
<1>12. CASE XrayDies
  <2>1. xrays' \subseteq xrays
    BY <1>12 DEF XrayDies
  <2> QED
    BY <1>1, <1>12, <2>1 DEF XrayDies, FieldsInv, service
<1>13. CASE ProcessEnds
  BY <1>3, <1>13 DEF ProcessEnds
<1>14. CASE Pump
  BY <1>2, <1>13, <1>14 DEF Pump
<1>15. CASE Tap \/ Toggle \/ Prepare \/ BridgeStart \/ BridgeStop \/ Notify \/ OnVpnState
  BY <1>2, <1>15 DEF Tap, Toggle, Prepare, BridgeStart, BridgeStop, Notify, OnVpnState, os
<1>16. CASE OnActivityResult \/ Reopen \/ SystemUnbinds \/ UNCHANGED vars
  BY <1>2, <1>16 DEF OnActivityResult, Reopen, SystemUnbinds, vars, os
<1> QED
  BY <1>5, <1>6, <1>7, <1>8, <1>10, <1>11, <1>12, <1>13, <1>14, <1>15, <1>16
     DEF Next, Page, Main, Killed

LEMMA StepPageInv == IInv /\ [Next]_vars => PageInv'
<1> SUFFICES ASSUME IInv, [Next]_vars PROVE PageInv'
  OBVIOUS
<1>1. TypeOK /\ PageInv /\ posts \in Seq(States) /\ dialogs \in Nat
  BY DEF IInv, TypeOK
<1>2. UNCHANGED ui => PageInv'
  BY <1>1 DEF PageInv, ui
<1>3. UNCHANGED <<state, text, posts, dialogs>> => PageInv'
  BY <1>1 DEF PageInv
<1>4. FreshPage => PageInv'
  BY DEF FreshPage, PageInv
<1>5. ASSUME NEW p \in States PROVE Append(posts, p) # <<>>
  BY <1>1, <1>5, AppendProperties
<1>6. CASE Prepare
  <2>1. CASE bridge' = "start" /\ UNCHANGED <<text, dialogs>>
    BY <1>3, <1>6, <2>1 DEF Prepare
  <2>2. CASE dialogs' = dialogs + 1
    BY <1>1, <2>2 DEF PageInv
  <2> QED
    BY <1>6, <2>1, <2>2 DEF Prepare
<1>7. CASE Notify
  BY <1>5, <1>7 DEF Notify, PageInv, States
<1>8. CASE OnVpnState
  BY <1>8 DEF OnVpnState, PageInv
<1>9. CASE OnActivityResult
  BY <1>5, <1>9 DEF OnActivityResult, PageInv, States
<1>10. CASE Reopen \/ ProcessEnds
  BY <1>4, <1>10 DEF Reopen, ProcessEnds
<1>11. CASE Pump
  BY <1>2, <1>10, <1>11 DEF Pump
<1>12. CASE Tap \/ Toggle \/ BridgeStart \/ BridgeStop
  BY <1>3, <1>12 DEF Tap, Toggle, BridgeStart, BridgeStop
<1>13. CASE OnCreate \/ OnStartCommand \/ Establish \/ Exec \/ StopVpn \/ OnDestroy
  BY <1>2, <1>13 DEF OnCreate, OnStartCommand, Establish, Exec, StopVpn, OnDestroy
<1>14. CASE SystemUnbinds \/ XrayDies \/ UNCHANGED vars
  BY <1>2, <1>14 DEF SystemUnbinds, XrayDies, vars
<1> QED
  BY <1>6, <1>7, <1>8, <1>9, <1>10, <1>11, <1>12, <1>13, <1>14 DEF Next, Page, Main, Killed

-----------------------------------------------------------------------------
(* The invariant holds in every reachable state. *)
THEOREM Invariance == Spec => []IInv
<1>1. IInv /\ [Next]_vars => IInv'
  BY StepTypeOK, StepCountInv, StepLeads, StepFields, StepPageInv DEF IInv, ServiceInv
<1> QED
  BY <1>1, InitIInv, PTL DEF Spec

(* The variables keep their types, and the calls of startVpn() that found the   *)
(* service not running number no more than the taps and the deaths of the       *)
(* process: nothing else starts the service (VpnTunService.kt 46-61).           *)
THEOREM TypeCorrect == Spec => []TypeOK
<1>1. IInv => TypeOK
  BY DEF IInv
<1> QED
  BY <1>1, Invariance, PTL

(* A service that has been destroyed leaves no TUN and no xray behind, however  *)
(* many starts, failed starts, stops and deaths of the process there have been. *)
THEOREM NoVpnLeftBehindHolds == Spec => []NoVpnLeftBehind
<1>1. ASSUME IInv, ~alive PROVE tuns = {} /\ xrays = {}
  <2>1. iface = 0 /\ xrayProcess = 0 /\ tuns \subseteq {iface} /\ xrays \subseteq {xrayProcess}
    BY <1>1 DEF IInv, ServiceInv, FieldsInv
  <2>2. 0 \notin tuns /\ 0 \notin xrays
    BY <1>1 DEF IInv, TypeOK, Attempts
  <2> QED
    BY <2>1, <2>2
<1>2. IInv => NoVpnLeftBehind
  BY <1>1 DEF NoVpnLeftBehind
<1> QED
  BY <1>2, Invariance, PTL

(* Starts do not pile up: there is one TUN and one xray process at most. *)
THEOREM OneTunnelHolds == Spec => []OneTunnel
<1>1. IInv => OneTunnel
  BY DEF IInv, ServiceInv, FieldsInv, OneTunnel
<1> QED
  BY <1>1, Invariance, PTL

(* When all is quiet the page's status line is the one of its state. *)
THEOREM PageSettlesHolds == Spec => []PageSettles
<1>1. IInv => PageSettles
  BY DEF IInv, PageInv, PageSettles, Quiet
<1> QED
  BY <1>1, Invariance, PTL
=============================================================================
