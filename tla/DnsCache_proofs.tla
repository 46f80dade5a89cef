------------------------------ MODULE DnsCache_proofs ------------------------------
(* What DnsCache promises, for any number of processes, any answers and any     *)
(* lifetimes: an update deletes no fresh row and leaves none that is older than *)
(* a put may take, and a scan that ended without a warning is in the caches.    *)
EXTENDS DnsCache, DnsResolution_proofs

\* a process has read the clock in the past
ClockRead == \A p \in Procs : stamp[p] <= now

\* the rows still to be put lie ahead, and there is one while a put waits
TodoInv ==
  \A p \in Procs :
    /\ pc[p] = "stamped" => todo[p] # <<>>
    /\ pc[p] \in {"probing", "done"} /\ p \notin warned => todo[p] = <<>>
    /\ p \in warned => pc[p] = "done"

\* a row there is has the lifetime of the last put
RowsAreDue == \A k \in Key : rows[k] # None => rows[k] = due[k]

Past(p) == pc[p] \in {"resolved", "putting", "stamped", "probing", "done"} /\ p \notin warned

Kept(k) == rows[k] # None \/ due[k] < now

\* every key a scan resolved is still to be put, or kept
ResolvedInv ==
  \A p \in Procs : Past(p) => \A k \in resolved[p] : k \in ToSet(todo[p]) \/ Kept(k)

\* a scan that has put its last rows resolves nothing any more
LastInv == \A t \in Table : last[t] # None => pc[last[t]] \in {"probing", "done", "failed"}

IInv ==
  /\ TypeOK /\ ClockRead /\ TodoInv /\ RowsAreDue /\ ResolvedInv /\ LastInv
  /\ LeftoversAreRecent /\ CachedInOrder

-----------------------------------------------------------------------------
(* The keys of a list of addresses. *)
LEMMA KeysType ==
  ASSUME NEW type \in {"A", "AAAA"}, NEW addrs \in Seq(Data)
  PROVE  KeysOf(type, addrs) \in Seq(Key)
<1>1. Len(addrs) \in Nat /\ DOMAIN addrs = 1 .. Len(addrs) /\ addrs \in [1 .. Len(addrs) -> Data]
  BY LenProperties
<1>2. KeysOf(type, addrs) \in [1 .. Len(addrs) -> Key]
  BY <1>1 DEF KeysOf, Key
<1> QED
  BY <1>1, <1>2, SeqDef

(* Whatever the sections, a lookup is a DNSResult. *)
LEMMA LookupsType == Lookups \subseteq DNSResult
<1>1. ASSUME NEW a \in Sections["A"], NEW aaaa \in Sections["AAAA"]
      PROVE  MergeResults(Resolve(a, "A"), Resolve(aaaa, "AAAA")) \in ResultOf(Data)
  <2>1. a \in SectionOf(Data) /\ aaaa \in SectionOf(Data)
    <3>1. a \in Seq(Record) /\ aaaa \in Seq(Record)
      BY SectionsAssumption
    <3>2. ToSet(a) \subseteq Record /\ ToSet(aaaa) \subseteq Record
      BY <3>1, ToSetTyped
    <3> QED
      BY <3>1, <3>2 DEF SectionOf, Record
  <2> QED
    BY <2>1, ResolveProperties, MergeProperties
<1> QED
  BY <1>1 DEF Lookups, ResultOf, DNSResult

(* What a lookup gives a scan to put. *)
LEMMA ResolvedType ==
  ASSUME NEW dns \in Lookups
  PROVE  KeysOf("A", dns.a) \o KeysOf("AAAA", dns.aaaa) \in Seq(Key) /\ dns.ttl \in Nat
<1>1. dns.a \in Seq(Data) /\ dns.aaaa \in Seq(Data) /\ dns.ttl \in Nat
  BY LookupsType DEF DNSResult
<1>2. KeysOf("A", dns.a) \in Seq(Key) /\ KeysOf("AAAA", dns.aaaa) \in Seq(Key)
  BY <1>1, KeysType
<1> QED
  BY <1>1, <1>2, ConcatProperties

(* The states of a process are the ones of TypeOK. *)
LEMMA GotoType ==
  ASSUME TypeOK, NEW p \in Procs, NEW to \in Running \cup {"new", "done", "updated", "failed"}, Goto(p, to)
  PROVE  /\ pc' \in [Procs -> Running \cup {"new", "done", "updated", "failed"}]
         /\ pc'[p] = to /\ \A q \in Procs : q # p => pc'[q] = pc[q]
BY DEF TypeOK, Goto

LEMMA ExpiresType ==
  ASSUME TypeOK, NEW p \in Procs
  PROVE  ExpiresAt(p) \in Nat /\ ExpiresAt(p) > stamp[p]
BY TimeAssumption DEF TypeOK, ExpiresAt

-----------------------------------------------------------------------------
LEMMA InitInv == Init => IInv
<1> SUFFICES ASSUME Init PROVE IInv
  OBVIOUS
<1>1. <<>> \in Seq(Key)
  BY EmptySeq
<1>2. TypeOK
  BY <1>1, TimeAssumption DEF Init, TypeOK, Running
<1>3. ClockRead /\ TodoInv /\ RowsAreDue /\ ResolvedInv /\ LastInv
  BY DEF Init, ClockRead, TodoInv, RowsAreDue, ResolvedInv, Past, LastInv
<1>4. LeftoversAreRecent /\ CachedInOrder
  BY DEF Init, LeftoversAreRecent, CachedInOrder
<1> QED
  BY <1>2, <1>3, <1>4 DEF IInv

-----------------------------------------------------------------------------
(* A step of one process that puts no row of the DNS cache and deletes none.    *)
Quiet(p, to) ==
  /\ to \in Running \cup {"done", "failed"} /\ Goto(p, to)
  /\ rows' = rows /\ due' = due /\ now' = now
  /\ last' \in [Table -> Procs \cup {None}]
  /\ \A t \in Table : \/ last'[t] = last[t]
                      \/ last'[t] = p /\ to \in {"probing", "done"} /\ todo[p] = <<>> /\ Past(p)
  /\ todo' \in [Procs -> Seq(Key)] /\ ttl' \in [Procs -> Nat]
  /\ stamp' \in [Procs -> 0..MaxNow] /\ resolved' \in [Procs -> SUBSET Key]
  /\ warned' \in SUBSET Procs /\ (warned' = warned \/ (warned' = warned \cup {p} /\ to = "done"))
  /\ p \notin warned
  /\ pc[p] = "new" \/ resolved'[p] = resolved[p]
  /\ to \in {"probing", "done", "failed"} \/ pc[p] \in {"new", "resolved", "putting"}
  /\ \A q \in Procs : q # p => /\ todo'[q] = todo[q] /\ stamp'[q] = stamp[q]
                               /\ resolved'[q] = resolved[q]
  /\ stamp'[p] <= now
  /\ to = "stamped" => todo'[p] # <<>>
  /\ to \in {"probing", "done"} => todo'[p] = <<>> \/ p \in warned'
  /\ to \in {"resolved", "putting", "stamped", "probing", "done"} =>
       \/ p \in warned' \/ resolved'[p] \subseteq ToSet(todo'[p])
       \/ Past(p) /\ todo'[p] = todo[p] /\ resolved'[p] = resolved[p]

LEMMA QuietStep ==
  ASSUME IInv, NEW p \in Procs, NEW to, Quiet(p, to)
  PROVE  IInv'
<1> USE DEF Quiet
<1>1. /\ pc' \in [Procs -> Running \cup {"new", "done", "updated", "failed"}]
      /\ pc'[p] = to /\ \A q \in Procs : q # p => pc'[q] = pc[q]
  BY GotoType DEF IInv
<1>2. TypeOK'
  BY <1>1 DEF IInv, TypeOK
<1>3. ClockRead'
  BY <1>1 DEF IInv, ClockRead
<1>4. TodoInv'
  <2> SUFFICES ASSUME NEW q \in Procs
               PROVE  /\ pc'[q] = "stamped" => todo'[q] # <<>>
                      /\ pc'[q] \in {"probing", "done"} /\ q \notin warned' => todo'[q] = <<>>
                      /\ q \in warned' => pc'[q] = "done"
    BY DEF TodoInv
  <2>1. CASE q # p
    <3>1. pc'[q] = pc[q] /\ todo'[q] = todo[q] /\ (q \in warned' <=> q \in warned)
      BY <1>1, <2>1
    <3> QED
      BY <3>1 DEF IInv, TodoInv
  <2>2. CASE q = p
    BY <1>1, <2>2
  <2> QED
    BY <2>1, <2>2
<1>5. RowsAreDue'
  BY DEF IInv, RowsAreDue
<1>6. ResolvedInv'
  <2> SUFFICES ASSUME NEW q \in Procs, Past(q)', NEW k \in resolved'[q]
               PROVE  (k \in ToSet(todo[q]) \/ Kept(k))'
    BY DEF ResolvedInv
  <2>1. Kept(k)' <=> Kept(k)
    BY DEF Kept
  <2>2. ASSUME Past(q), todo'[q] = todo[q], resolved'[q] = resolved[q]
        PROVE  (k \in ToSet(todo[q]) \/ Kept(k))'
    BY <2>1, <2>2 DEF IInv, ResolvedInv
  <2>3. CASE q # p
    BY <1>1, <2>2, <2>3 DEF Past
  <2>4. CASE q = p
    BY <1>1, <2>2, <2>4 DEF Past
  <2> QED
    BY <2>3, <2>4
<1>7. LastInv'
  <2> SUFFICES ASSUME NEW t \in Table, last'[t] # None
               PROVE  pc'[last'[t]] \in {"probing", "done", "failed"}
    BY DEF LastInv
  <2>1. CASE last'[t] = p /\ to \in {"probing", "done"}
    BY <1>1, <2>1
  <2>2. CASE last'[t] = last[t]
    <3>1. last[t] \in Procs /\ pc[last[t]] \in {"probing", "done", "failed"}
      BY <2>2 DEF IInv, TypeOK, LastInv
    <3>2. CASE last[t] # p
      BY <1>1, <2>2, <3>1, <3>2
    <3>3. CASE last[t] = p
      BY <1>1, <2>2, <3>1, <3>3
    <3> QED
      BY <3>2, <3>3
  <2> QED
    BY <2>1, <2>2
<1>8. LeftoversAreRecent'
  <2> SUFFICES ASSUME NEW q \in Procs, NEW k \in Key, pc'[q] = "updated", rows[k] # None
               PROVE  rows[k] + LockWait > stamp'[q]
    BY DEF LeftoversAreRecent
  <2>1. q # p
    BY <1>1 DEF Running
  <2> QED
    BY <1>1, <2>1 DEF IInv, LeftoversAreRecent
<1>9. CachedInOrder'
  <2> SUFFICES ASSUME NEW t \in Table, last'[t] # None, NEW k \in resolved'[last'[t]]
               PROVE  rows[k] # None \/ due[k] < now
    BY DEF CachedInOrder
  <2>1. CASE last'[t] = last[t] /\ last[t] # p
    BY <2>1 DEF IInv, TypeOK, CachedInOrder
  <2>2. CASE last'[t] = last[t] /\ last[t] = p
    <3>1. pc[p] # "new"
      BY <2>2 DEF IInv, LastInv
    <3> QED
      BY <2>2, <3>1 DEF IInv, CachedInOrder
  <2>3. CASE last'[t] = p /\ to \in {"probing", "done"} /\ todo[p] = <<>> /\ Past(p)
    <3>1. resolved'[p] = resolved[p]
      BY <2>3 DEF Past
    <3>2. ToSet(todo[p]) = {}
      BY <2>3, EmptySeq DEF ToSet
    <3> QED
      BY <2>3, <3>1, <3>2 DEF IInv, ResolvedInv, Kept
  <2> QED
    BY <2>1, <2>2, <2>3
<1> QED
  BY <1>2, <1>3, <1>4, <1>5, <1>6, <1>7, <1>8, <1>9 DEF IInv
(* A row is put, with a lifetime that began when the scan read the clock, no    *)
(* longer ago than it may wait for the lock.                                    *)
LEMMA PutDnsStep ==
  ASSUME IInv, NEW p \in Procs, PutDns(p)
  PROVE  IInv'
<1> DEFINE key == Head(todo[p])
<1>1. todo[p] \in Seq(Key) /\ todo[p] # <<>> /\ pc[p] = "stamped" /\ p \notin warned
  BY DEF PutDns, IInv, TypeOK, TodoInv
<1>2. key \in Key /\ Tail(todo[p]) \in Seq(Key) /\ ToSet(todo[p]) \subseteq {key} \cup ToSet(Tail(todo[p]))
  BY <1>1, ToSetTail
<1>3. ExpiresAt(p) \in Nat /\ ExpiresAt(p) > stamp[p]
  BY ExpiresType DEF IInv
<1>4. /\ pc' \in [Procs -> Running \cup {"new", "done", "updated", "failed"}]
      /\ pc'[p] = "putting" /\ \A q \in Procs : q # p => pc'[q] = pc[q]
  BY GotoType DEF IInv, PutDns, Running
<1>5. /\ rows' = [rows EXCEPT ![key] = ExpiresAt(p)] /\ due' = [due EXCEPT ![key] = ExpiresAt(p)]
      /\ todo' = [todo EXCEPT ![p] = Tail(@)] /\ now <= stamp[p] + LockWait
      /\ UNCHANGED <<now, last, ttl, stamp, warned, resolved>>
  BY DEF PutDns
<1>6. rows'[key] = ExpiresAt(p) /\ due'[key] = ExpiresAt(p)
  BY <1>2, <1>5 DEF IInv, TypeOK
<1>7. \A k \in Key : k # key => rows'[k] = rows[k] /\ due'[k] = due[k]
  BY <1>5 DEF IInv, TypeOK
<1>8. todo'[p] = Tail(todo[p]) /\ \A q \in Procs : q # p => todo'[q] = todo[q]
  BY <1>5 DEF IInv, TypeOK
<1>9. TypeOK'
  <2>1. rows' \in [Key -> Nat \cup {None}] /\ due' \in [Key -> Nat]
    BY <1>3, <1>5 DEF IInv, TypeOK
  <2>2. todo' \in [Procs -> Seq(Key)]
    BY <1>2, <1>5 DEF IInv, TypeOK
  <2> QED
    BY <1>4, <1>5, <2>1, <2>2 DEF IInv, TypeOK
<1>10. ClockRead' /\ LastInv'
  BY <1>1, <1>4, <1>5 DEF IInv, TypeOK, ClockRead, LastInv
<1>11. TodoInv'
  <2> SUFFICES ASSUME NEW q \in Procs
               PROVE  /\ pc'[q] = "stamped" => todo'[q] # <<>>
                      /\ pc'[q] \in {"probing", "done"} /\ q \notin warned => todo'[q] = <<>>
                      /\ q \in warned => pc'[q] = "done"
    BY <1>5 DEF TodoInv
  <2>1. CASE q # p
    BY <1>4, <1>8, <2>1 DEF IInv, TodoInv
  <2>2. CASE q = p
    BY <1>1, <1>4, <2>2
  <2> QED
    BY <2>1, <2>2
<1>12. RowsAreDue'
  BY <1>6, <1>7 DEF IInv, RowsAreDue
<1>13. ResolvedInv'
  <2> SUFFICES ASSUME NEW q \in Procs, Past(q)', NEW k \in resolved[q]
               PROVE  (k \in ToSet(todo[q]) \/ Kept(k))'
    BY <1>5 DEF ResolvedInv
  <2>1. k \in Key
    BY DEF IInv, TypeOK
  <2>2. Past(q)
    BY <1>1, <1>4, <1>5 DEF Past
  <2>3. k \in ToSet(todo[q]) \/ Kept(k)
    BY <2>2 DEF IInv, ResolvedInv
  <2>4. CASE k = key
    BY <1>3, <1>6, <2>4, NoneAssumption DEF Kept
  <2>5. CASE k # key /\ Kept(k)
    BY <1>5, <1>7, <2>1, <2>5 DEF Kept
  <2>6. CASE k # key /\ k \in ToSet(todo[q])
    BY <1>2, <1>8, <2>6
  <2> QED
    BY <2>3, <2>4, <2>5, <2>6
<1>14. LeftoversAreRecent'
  <2> SUFFICES ASSUME NEW q \in Procs, NEW k \in Key, pc'[q] = "updated", rows'[k] # None
               PROVE  rows'[k] + LockWait > stamp[q]
    BY <1>5 DEF LeftoversAreRecent
  <2>1. q # p /\ pc[q] = "updated"
    BY <1>4
  <2>2. CASE k # key
    BY <1>7, <2>1, <2>2 DEF IInv, LeftoversAreRecent
  <2>3. CASE k = key
    <3>1. stamp[q] <= now /\ stamp[q] \in Nat /\ stamp[p] \in Nat /\ now \in Nat /\ LockWait \in Nat
      BY TimeAssumption DEF IInv, TypeOK, ClockRead
    <3> QED
      BY <1>3, <1>5, <1>6, <2>3, <3>1
  <2> QED
    BY <2>2, <2>3
<1>15. CachedInOrder'
  <2> SUFFICES ASSUME NEW t \in Table, last[t] # None, NEW k \in resolved[last[t]]
               PROVE  rows'[k] # None \/ due'[k] < now
    BY <1>5 DEF CachedInOrder
  <2>1. last[t] \in Procs /\ k \in Key
    BY DEF IInv, TypeOK
  <2>2. CASE k = key
    BY <1>3, <1>6, <2>2, NoneAssumption
  <2>3. CASE k # key
    BY <1>7, <2>1, <2>3 DEF IInv, CachedInOrder
  <2> QED
    BY <2>2, <2>3
<1> QED
  BY <1>9, <1>10, <1>11, <1>12, <1>13, <1>14, <1>15 DEF IInv

(* An update deletes what had expired when it read the clock. *)
LEMMA CleanupStep ==
  ASSUME IInv, NEW p \in Procs, CleanupExpired(p)
  PROVE  IInv'
<1>1. /\ pc' \in [Procs -> Running \cup {"new", "done", "updated", "failed"}]
      /\ pc'[p] = "updated" /\ \A q \in Procs : q # p => pc'[q] = pc[q]
  BY GotoType DEF IInv, CleanupExpired
<1>2. /\ rows' = [k \in Key |-> IF Expired(p, k) THEN None ELSE rows[k]]
      /\ UNCHANGED <<now, last, todo, ttl, stamp, warned, aux>>
  BY DEF CleanupExpired
<1> USE DEF aux
<1>3. \A k \in Key : rows'[k] = IF Expired(p, k) THEN None ELSE rows[k]
  BY <1>2
<1>4. TypeOK'
  BY <1>1, <1>2 DEF IInv, TypeOK
<1>5. ClockRead' /\ LastInv' /\ TodoInv'
  <2>1. pc[p] = "cleaning" /\ p \notin warned
    BY DEF CleanupExpired, IInv, TodoInv
  <2>2. ClockRead' /\ LastInv'
    BY <1>1, <1>2, <2>1 DEF IInv, TypeOK, ClockRead, LastInv
  <2>3. TodoInv'
    <3> SUFFICES ASSUME NEW q \in Procs
                 PROVE  /\ pc'[q] = "stamped" => todo[q] # <<>>
                        /\ pc'[q] \in {"probing", "done"} /\ q \notin warned => todo[q] = <<>>
                        /\ q \in warned => pc'[q] = "done"
      BY <1>2 DEF TodoInv
    <3>1. CASE q # p
      BY <1>1, <3>1 DEF IInv, TodoInv
    <3>2. CASE q = p
      BY <1>1, <2>1, <3>2
    <3> QED
      BY <3>1, <3>2
  <2> QED
    BY <2>2, <2>3
<1>6. RowsAreDue'
  BY <1>2, <1>3 DEF IInv, RowsAreDue
<1>7. \A k \in Key : Kept(k) => Kept(k)'
  <2> SUFFICES ASSUME NEW k \in Key, rows[k] # None, Expired(p, k)
               PROVE  due[k] < now
    BY <1>2, <1>3 DEF Kept
  <2>1. rows[k] \in Nat /\ rows[k] < stamp[p] /\ stamp[p] \in Nat /\ now \in Nat /\ stamp[p] <= now
    BY TimeAssumption DEF Expired, IInv, TypeOK, ClockRead
  <2>2. due[k] = rows[k]
    BY DEF IInv, RowsAreDue
  <2> QED
    BY <2>1, <2>2
<1>8. ResolvedInv'
  <2> SUFFICES ASSUME NEW q \in Procs, Past(q)', NEW k \in resolved[q]
               PROVE  (k \in ToSet(todo[q]) \/ Kept(k))'
    BY <1>2 DEF ResolvedInv
  <2>1. k \in Key
    BY DEF IInv, TypeOK
  <2>2. Past(q)
    BY <1>1, <1>2 DEF Past
  <2> QED
    BY <1>2, <1>7, <2>1, <2>2 DEF IInv, ResolvedInv
<1>9. LeftoversAreRecent'
  <2> SUFFICES ASSUME NEW q \in Procs, NEW k \in Key, pc'[q] = "updated", rows'[k] # None
               PROVE  rows[k] + LockWait > stamp[q]
    BY <1>2, <1>3 DEF LeftoversAreRecent
  <2>1. rows[k] # None /\ ~Expired(p, k) /\ rows[k] \in Nat
    BY <1>3 DEF IInv, TypeOK
  <2>2. CASE q # p
    BY <1>1, <2>1, <2>2 DEF IInv, LeftoversAreRecent
  <2>3. CASE q = p
    <3>1. stamp[p] \in Nat /\ LockWait \in Nat \ {0}
      BY TimeAssumption DEF IInv, TypeOK
    <3> QED
      BY <2>1, <2>3, <3>1 DEF Expired
  <2> QED
    BY <2>2, <2>3
<1>10. CachedInOrder'
  BY <1>2, <1>7 DEF IInv, TypeOK, CachedInOrder, Kept
<1> QED
  BY <1>4, <1>5, <1>6, <1>8, <1>9, <1>10 DEF IInv

LEMMA TickStep ==
  ASSUME IInv, Tick
  PROVE  IInv'
<1> USE DEF aux, tables
<1>1. /\ now' \in now + 1 .. MaxNow /\ UNCHANGED <<rows, last, pc, todo, ttl, stamp, warned, resolved, due>>
  BY DEF Tick
<1>2. now \in Nat /\ now' \in 0..MaxNow /\ now < now'
  BY <1>1, TimeAssumption DEF IInv, TypeOK
<1>3. TypeOK'
  BY <1>1, <1>2 DEF IInv, TypeOK
<1>4. ClockRead'
  BY <1>1, <1>2, TimeAssumption DEF IInv, TypeOK, ClockRead
<1>5. LastInv' /\ TodoInv' /\ RowsAreDue' /\ LeftoversAreRecent'
  BY <1>1 DEF IInv, LastInv, TodoInv, RowsAreDue, LeftoversAreRecent
<1>6. \A k \in Key : Kept(k) => Kept(k)'
  BY <1>1, <1>2 DEF Kept, IInv, TypeOK
<1>7. ResolvedInv'
  <2> SUFFICES ASSUME NEW q \in Procs, Past(q), NEW k \in resolved[q]
               PROVE  k \in ToSet(todo[q]) \/ Kept(k)'
    BY <1>1 DEF ResolvedInv, Past
  <2>1. k \in Key
    BY DEF IInv, TypeOK
  <2> QED
    BY <1>6, <2>1 DEF IInv, ResolvedInv
<1>8. CachedInOrder'
  BY <1>1, <1>6 DEF IInv, TypeOK, CachedInOrder, Kept
<1> QED
  BY <1>3, <1>4, <1>5, <1>7, <1>8 DEF IInv

-----------------------------------------------------------------------------
LEMMA NextStep ==
  ASSUME IInv, [Next]_vars
  PROVE  IInv'
<1> USE DEF aux, tables
<1>1. CASE UNCHANGED vars
  BY <1>1 DEF vars, IInv, TypeOK, ClockRead, TodoInv, RowsAreDue, ResolvedInv, Past, Kept, LastInv,
              LeftoversAreRecent, CachedInOrder
<1>2. CASE Tick
  BY <1>2, TickStep
<1>3. ASSUME NEW p \in Procs, Step(p) \/ Die(p)
      PROVE  IInv'
  <2>1. TypeOK /\ stamp[p] <= now /\ now \in 0..MaxNow
    BY DEF IInv, TypeOK, ClockRead
  <2>12. pc[p] # "done" => p \notin warned
    BY DEF IInv, TodoInv
  <2>2. CASE ResolveHost(p)
    <3>1. PICK dns \in Lookups :
            LET keys == KeysOf("A", dns.a) \o KeysOf("AAAA", dns.aaaa)
            IN  /\ todo' = [todo EXCEPT ![p] = keys]
                /\ resolved' = [resolved EXCEPT ![p] = ToSet(keys)]
                /\ ttl' = [ttl EXCEPT ![p] = dns.ttl]
      BY <2>2 DEF ResolveHost
    <3> DEFINE keys == KeysOf("A", dns.a) \o KeysOf("AAAA", dns.aaaa)
    <3>2. keys \in Seq(Key) /\ dns.ttl \in Nat
      BY ResolvedType
    <3>3. ToSet(keys) \subseteq Key
      BY <3>2, LenProperties DEF ToSet
    <3>4. todo' \in [Procs -> Seq(Key)] /\ ttl' \in [Procs -> Nat] /\ resolved' \in [Procs -> SUBSET Key]
      BY <2>1, <3>1, <3>2, <3>3 DEF TypeOK
    <3>5. resolved'[p] \subseteq ToSet(todo'[p])
      BY <2>1, <3>1 DEF TypeOK
    <3>6. \A q \in Procs : q # p => todo'[q] = todo[q] /\ resolved'[q] = resolved[q]
      BY <2>1, <3>1 DEF TypeOK
    <3>7. /\ pc[p] = "new" /\ p \notin warned /\ Goto(p, "resolved")
          /\ UNCHANGED <<now, tables, stamp, warned, due>>
      BY <2>2, <2>12 DEF ResolveHost
    <3>8. Quiet(p, "resolved")
      BY <2>1, <3>4, <3>5, <3>6, <3>7 DEF Quiet, TypeOK, Running
    <3> QED
      BY <3>8, QuietStep
  <2>3. CASE Upsert(p)
    <3>1. Past(p) /\ p \notin warned
      BY <2>3, <2>12 DEF Upsert, Past
    <3>2. Quiet(p, "putting")
      BY <2>1, <2>3, <3>1 DEF Quiet, Upsert, TypeOK, Running
    <3> QED
      BY <3>2, QuietStep
  <2>4. CASE ScanRaises(p)
    <3>1. Quiet(p, "failed")
      BY <2>1, <2>4, <2>12 DEF Quiet, ScanRaises, TypeOK, Running
    <3> QED
      BY <3>1, QuietStep
  <2>5. CASE Stamp(p)
    <3>1. Past(p) /\ p \notin warned
      BY <2>5, <2>12 DEF Stamp, Past
    <3>2. pc[p] = "putting" /\ todo[p] # <<>>
      BY <2>5 DEF Stamp
    <3>3. stamp' \in [Procs -> 0..MaxNow] /\ stamp'[p] = now
            /\ \A q \in Procs : q # p => stamp'[q] = stamp[q]
      BY <2>1, <2>5 DEF Stamp, TypeOK
    <3>4. stamp'[p] <= now
      BY <2>1, <3>3
    <3>5. Quiet(p, "stamped")
      BY <2>1, <2>5, <3>1, <3>2, <3>3, <3>4 DEF Quiet, Stamp, TypeOK, Running
    <3> QED
      BY <3>5, QuietStep
  <2>6. CASE PutDns(p)
    BY <2>6, PutDnsStep
  <2>7. CASE PutTls(p) \/ PutProbe(p)
    <3>1. Past(p) /\ p \notin warned
      BY <2>7, <2>12 DEF PutTls, PutProbe, Past
    <3>2. todo[p] = <<>>
      BY <2>7, <3>1 DEF PutTls, PutProbe, IInv, TodoInv
    <3>3. last' \in [Table -> Procs \cup {None}] /\ \A t \in Table : last'[t] = last[t] \/ last'[t] = p
      <4>1. PICK table \in Table : last' \in {last, [last EXCEPT ![table] = p]}
        BY <2>7 DEF PutTls, PutProbe, Table
      <4> QED
        BY <2>1, <4>1 DEF TypeOK
    <3>4. PICK to \in {"probing", "done"} : Goto(p, to)
      BY <2>7 DEF PutTls, PutProbe
    <3>5. UNCHANGED <<now, rows, todo, ttl, stamp, warned, aux>>
      BY <2>7 DEF PutTls, PutProbe
    <3>6. Quiet(p, to)
      BY <2>1, <3>1, <3>2, <3>3, <3>4, <3>5 DEF Quiet, TypeOK, Running
    <3> QED
      BY <3>6, QuietStep
  <2>8. CASE CacheWriteFails(p)
    <3>1. Quiet(p, "done")
      BY <2>1, <2>8, <2>12 DEF Quiet, CacheWriteFails, TypeOK, Running
    <3> QED
      BY <3>1, QuietStep
  <2>9. CASE Update(p)
    <3>1. stamp' \in [Procs -> 0..MaxNow] /\ stamp'[p] = now
            /\ \A q \in Procs : q # p => stamp'[q] = stamp[q]
      BY <2>1, <2>9 DEF Update, TypeOK
    <3>2. stamp'[p] <= now
      BY <2>1, <3>1
    <3>3. pc[p] = "new" /\ p \notin warned
      BY <2>9, <2>12 DEF Update
    <3>4. Quiet(p, "cleaning")
      BY <2>1, <2>9, <3>1, <3>2, <3>3 DEF Quiet, Update, TypeOK, Running
    <3> QED
      BY <3>4, QuietStep
  <2>10. CASE CleanupExpired(p)
    BY <2>10, CleanupStep
  <2>11. CASE UpdateFails(p) \/ Die(p)
    <3>1. /\ Goto(p, "failed") /\ p \notin warned
          /\ UNCHANGED <<now, rows, last, todo, ttl, stamp, warned, resolved, due>>
      BY <2>11, <2>12 DEF UpdateFails, Die, Running
    <3>2. Quiet(p, "failed")
      BY <2>1, <3>1 DEF Quiet, TypeOK, Running
    <3> QED
      BY <3>2, QuietStep
  <2> QED
    BY <1>3, <2>2, <2>3, <2>4, <2>5, <2>6, <2>7, <2>8, <2>9, <2>10, <2>11 DEF Step
<1> QED
  BY <1>1, <1>2, <1>3 DEF Next

(* Every reachable state satisfies the inductive invariant. *)
LEMMA Invariance == Spec => []IInv
BY InitInv, NextStep, PTL DEF Spec

-----------------------------------------------------------------------------
(* Every variable has its type, for any number of processes and any answers the *)
(* lookups of resolve_dns_a_and_aaaa() may have.                                *)
THEOREM TypeCorrect == Spec => []TypeOK
BY Invariance, PTL DEF IInv

(* What cleanup_expired() leaves of dns_cache has expired by less than put_dns() *)
(* may take between its reading of the clock and its commit, if at all.         *)
THEOREM LeftoversAreRecentHolds == Spec => []LeftoversAreRecent
BY Invariance, PTL DEF IInv

(* A TLS or probe row is never without the DNS rows of its scan, also when the  *)
(* scan has been killed since.                                                  *)
THEOREM CachedInOrderHolds == Spec => []CachedInOrder
BY Invariance, PTL DEF IInv

(* A scan that reached the end of step 8 without cache_write_failed has all its *)
(* addresses in dns_cache until their time has run out.                         *)
THEOREM DoneScanIsCachedHolds == Spec => []DoneScanIsCached
<1>1. IInv => DoneScanIsCached
  <2> SUFFICES ASSUME IInv, NEW p \in Procs, pc[p] = "done", p \notin warned, NEW k \in resolved[p]
               PROVE  rows[k] # None \/ due[k] < now
    BY DEF DoneScanIsCached
  <2>1. ToSet(todo[p]) = {}
    <3>1. todo[p] = <<>>
      BY DEF IInv, TodoInv
    <3> QED
      BY <3>1, EmptySeq DEF ToSet
  <2> QED
    BY <2>1 DEF IInv, ResolvedInv, Past, Kept
<1> QED
  BY <1>1, Invariance, PTL

(* cleanup_expired() never deletes a row that get_dns() would still call fresh, *)
(* however long ago it read the clock, and no other step deletes any.           *)
THEOREM NoFreshRowDeletedHolds == Spec => NoFreshRowDeleted
<1>1. ASSUME IInv, [Next]_vars
      PROVE  [\A k \in Key : Fresh(k) => rows'[k] # None]_vars
  <2> SUFFICES ASSUME Next, NEW k \in Key, Fresh(k)
               PROVE  rows'[k] # None
    BY <1>1
  <2> USE DEF aux, tables
  <2>1. rows[k] # None /\ rows[k] \in Nat /\ now < rows[k] /\ now \in Nat
    BY <1>1, TimeAssumption DEF IInv, TypeOK, Fresh
  <2>2. CASE rows' = rows
    BY <2>1, <2>2
  <2>3. ASSUME NEW p \in Procs, PutDns(p)
        PROVE  rows'[k] # None
    <3>1. ExpiresAt(p) # None
      BY <1>1, ExpiresType, NoneAssumption DEF IInv
    <3> QED
      BY <1>1, <2>1, <2>3, <3>1 DEF PutDns, IInv, TypeOK
  <2>4. ASSUME NEW p \in Procs, CleanupExpired(p)
        PROVE  rows'[k] # None
    <3>1. stamp[p] <= now /\ stamp[p] \in Nat
      BY <1>1 DEF IInv, TypeOK, ClockRead
    <3>2. ~Expired(p, k)
      BY <2>1, <3>1 DEF Expired
    <3> QED
      BY <2>1, <2>4, <3>2 DEF CleanupExpired
  <2> QED
    BY <2>2, <2>3, <2>4 DEF Next, Tick, Step, Die, ResolveHost, Upsert, ScanRaises, Stamp, PutTls, PutProbe,
                            CacheWriteFails, Update, UpdateFails
<1> QED
  BY <1>1, Invariance, PTL DEF Spec, NoFreshRowDeleted
=============================================================================
