--------------------------- MODULE DestinationDB_proofs ---------------------------
(* What DestinationDB promises, for any number of processes and hosts: what a   *)
(* command stored is lost only to one that overlapped it, a torn file is the    *)
(* work of a crash or of two writers, and it is never replaced.                 *)
EXTENDS DestinationDB, TLAPS

Begun(p) == pc[p] \in {"loaded", "writing", "done", "dead"}

(* What ended before a process loaded the file has ended, and its rivals were   *)
(* active with it.                                                              *)
HistInv ==
  /\ \A p, q \in Procs : q \in before[p] => Over(q)
  /\ \A p \in Procs : \A q \in rivals[p] :
       q \in overlap[p] /\ {pc[p], pc[q]} \subseteq {"writing", "done", "dead"}

(* Of two processes one of which is active, the other overlapped it or had      *)
(* ended before; so for the rivals of a process that loaded later than p.       *)
SepInv ==
  /\ \A p, q \in Procs : p # q /\ Begun(p) /\ Active(q) => q \in overlap[p] \/ p \in before[q]
  /\ \A p, w \in Procs : \A q \in rivals[w] :
       p # q /\ Begun(p) /\ p \in before[w] => q \in overlap[p] \/ p \in before[q]

(* A process is named by records only once it has saved one, and saving makes   *)
(* the file exist.                                                              *)
SourceInv ==
  /\ \A q \in Procs : \A h \in Hosts : recs[h] = q => pc[q] \notin {"new", "loaded"}
  /\ \A q, r \in Procs : \A h \in Hosts : mem[r][h] = q => pc[q] \notin {"new", "loaded"}
  /\ \A p \in Procs : pc[p] = "writing" => mem[p][host[p]] = p
  /\ \A p \in Procs : Changed(p) \/ pc[p] = "writing" => disk # "absent"

(* A process that loaded after p had ended, and not overlapped with anyone, has *)
(* p's record or a later one in its memory.                                     *)
KnowsInv ==
  \A p, q \in Procs :
    Changed(p) /\ overlap[p] = {} /\ p \in before[q] /\ Begun(q) => Keeps(p, mem[q][host[p]])

IInv == TypeOK /\ HistInv /\ SepInv /\ SourceInv /\ KnowsInv /\ LostOnlyToOverlap

-----------------------------------------------------------------------------
(* A process moves on without touching the file, its memory or its history. *)
LEMMA MoveOn ==
  ASSUME IInv, NEW p \in Procs, NEW to \in {"done", "failed", "dead"},
         pc[p] \in {"new", "loaded", "writing"}, Goto(p, to),
         pc[p] = "new" => to = "failed",
         pc[p] = "writing" => to = "dead",
         UNCHANGED <<file, job, host, mem, rivals, aux>>
  PROVE  IInv'
<1> USE DEF file, aux
<1>1. \A q \in Procs : q # p => pc'[q] = pc[q]
  BY DEF Goto, IInv, TypeOK
<1>2. pc'[p] = to
  BY DEF Goto, IInv, TypeOK
<1>3. TypeOK'
  BY DEF Goto, IInv, TypeOK
<1>4. HistInv'
  <2>1. \A q \in Procs : Over(q) => q # p /\ Over(q)'
    BY <1>1 DEF Over
  <2>2. \A q, r \in Procs : q \in before'[r] => Over(q)'
    BY <2>1 DEF IInv, HistInv
  <2>3. \A q \in Procs : pc[q] \in {"writing", "done", "dead"} => pc'[q] \in {"writing", "done", "dead"}
    BY <1>1, <1>2
  <2>4. \A w \in Procs : \A q \in rivals[w] : q \in Procs
    BY DEF IInv, TypeOK
  <2>5. \A w \in Procs : \A q \in rivals'[w] :
          q \in overlap'[w] /\ {pc'[w], pc'[q]} \subseteq {"writing", "done", "dead"}
    BY <2>3, <2>4 DEF IInv, HistInv
  <2> QED
    BY <2>2, <2>5 DEF HistInv
<1>5. SepInv'
  BY <1>1, <1>2 DEF IInv, SepInv, Begun, Active
<1>6. \A q \in Procs : Changed(q)' => Changed(q)
  BY <1>1, <1>2 DEF IInv, TypeOK, SourceInv, Changed
<1>7. SourceInv'
  BY <1>1, <1>2, <1>6 DEF IInv, SourceInv
<1>8. KnowsInv'
  BY <1>1, <1>2, <1>6 DEF IInv, KnowsInv, Keeps, Begun
<1>9. LostOnlyToOverlap'
  BY <1>6 DEF IInv, LostOnlyToOverlap, Keeps
<1> QED
  BY <1>3, <1>4, <1>5, <1>7, <1>8, <1>9 DEF IInv

(* Loading a file that parses, or that is not there. *)
LEMMA LoadedKeeps ==
  ASSUME IInv, NEW p \in Procs, NEW j \in {"scan", "mark", "read"},
         pc[p] = "new", disk # "torn", Loaded(p, j, IF disk = "whole" THEN recs ELSE Empty)
  PROVE  IInv'
<1> DEFINE records == IF disk = "whole" THEN recs ELSE Empty
<1> USE DEF file
<1>1. \A q \in Procs : q # p => pc'[q] = pc[q] /\ mem'[q] = mem[q] /\ before'[q] = before[q]
  BY DEF Loaded, Goto, IInv, TypeOK
<1>2. pc'[p] = "loaded" /\ mem'[p] = records /\ before'[p] = {q \in Procs : Over(q)}
  BY DEF Loaded, Goto, IInv, TypeOK
<1>3. \A q \in Procs : q # p => overlap'[q] = overlap[q] \cup {r \in {p} : Active(q)}
  BY DEF Loaded
<1>4. overlap'[p] = {r \in Procs : Active(r)}
  BY DEF Loaded
<1>5. disk' = disk /\ recs' = recs /\ host' = host /\ rivals' = rivals
  BY DEF Loaded
<1>6. records \in Records
  BY NoneAssumption DEF IInv, TypeOK, Records, Empty
<1>7. TypeOK'
  <2>1. pc' \in [Procs -> {"new", "loaded", "writing", "done", "failed", "dead"}]
    BY DEF Loaded, Goto, IInv, TypeOK
  <2>2. job' \in [Procs -> {"none", "scan", "mark", "read"}]
    BY DEF Loaded, IInv, TypeOK
  <2>3. mem' \in [Procs -> Records]
    BY <1>6 DEF Loaded, IInv, TypeOK
  <2>4. before' \in [Procs -> SUBSET Procs]
    BY DEF Loaded, IInv, TypeOK
  <2>5. overlap' \in [Procs -> SUBSET Procs]
    BY DEF Loaded, IInv, TypeOK
  <2> QED
    BY <1>5, <2>1, <2>2, <2>3, <2>4, <2>5 DEF IInv, TypeOK, Records
<1>8. \A q \in Procs : Over(q)' <=> Over(q)
  BY <1>1, <1>2 DEF Over
<1>9. \A q \in Procs : Changed(q)' <=> Changed(q)
  BY <1>1, <1>2, <1>5 DEF Changed
<1>10. \A q \in Procs : Active(q) => ~Over(q) /\ q # p
  BY DEF Active, Over
<1>11. HistInv'
  <2>1. ASSUME NEW q \in Procs, NEW r \in Procs, r \in before'[q]
        PROVE  Over(r)'
    BY <1>1, <1>2, <1>8, <2>1 DEF IInv, HistInv
  <2>2. ASSUME NEW q \in Procs, NEW r \in rivals[q]
        PROVE  r \in overlap'[q] /\ {pc'[q], pc'[r]} \subseteq {"writing", "done", "dead"}
    <3>1. r \in Procs /\ r # p /\ q # p
      BY <2>2 DEF IInv, TypeOK, HistInv
    <3> QED
      BY <1>1, <1>3, <2>2, <3>1 DEF IInv, HistInv
  <2> QED
    BY <1>5, <2>1, <2>2 DEF HistInv
<1>12. \A q \in Procs : p \notin before[q] /\ p \notin rivals[q]
  BY DEF IInv, TypeOK, HistInv, Over
<1>13. rivals[p] = {}
  BY DEF IInv, TypeOK, HistInv
<1>14. SepInv'
  <2>1. ASSUME NEW q \in Procs, NEW r \in Procs, q # r, Begun(q)', Active(r)'
        PROVE  r \in overlap'[q] \/ q \in before'[r]
    <3>1. CASE q = p
      BY <1>1, <1>4, <2>1, <3>1 DEF Active
    <3>2. CASE r = p
      BY <1>1, <1>2, <1>3, <2>1, <3>2 DEF Begun, Active, Over
    <3>3. CASE q # p /\ r # p
      BY <1>1, <1>3, <2>1, <3>3 DEF IInv, SepInv, Begun, Active
    <3> QED
      BY <3>1, <3>2, <3>3
  <2>2. ASSUME NEW q \in Procs, NEW w \in Procs, NEW r \in rivals'[w],
               q # r, Begun(q)', q \in before'[w]
        PROVE  r \in overlap'[q] \/ q \in before'[r]
    <3>1. w # p /\ r # p /\ r \in Procs
      BY <1>5, <1>12, <1>13, <2>2 DEF IInv, TypeOK
    <3>2. q # p
      BY <1>1, <1>12, <2>2, <3>1
    <3> QED
      BY <1>1, <1>3, <1>5, <2>2, <3>1, <3>2 DEF IInv, SepInv, Begun
  <2> QED
    BY <2>1, <2>2 DEF SepInv
<1>15. SourceInv'
  BY <1>1, <1>2, <1>5, <1>9, NoneAssumption DEF IInv, SourceInv, Empty
<1>16. KnowsInv'
  <2> SUFFICES ASSUME NEW q \in Procs, NEW r \in Procs,
                      Changed(q)', overlap'[q] = {}, q \in before'[r], Begun(r)'
               PROVE  Keeps(q, mem[r][host[q]])'
    BY DEF KnowsInv
  <2>1. q # p /\ Changed(q)
    BY <1>2, <1>9 DEF Changed
  <2>2. overlap[q] = {} /\ before'[q] = before[q]
    BY <1>1, <1>3, <2>1
  <2>3. CASE r = p
    <3>1. disk = "whole"
      BY <2>1 DEF IInv, TypeOK, SourceInv
    <3>2. Keeps(q, recs[host[q]])
      BY <2>1, <2>2, <3>1 DEF IInv, LostOnlyToOverlap
    <3> QED
      BY <1>2, <1>5, <2>2, <2>3, <3>1, <3>2 DEF Keeps
  <2>4. CASE r # p
    BY <1>1, <1>5, <2>1, <2>2, <2>4 DEF IInv, KnowsInv, Keeps, Begun
  <2> QED
    BY <2>3, <2>4
<1>17. LostOnlyToOverlap'
  <2> SUFFICES ASSUME NEW q \in Procs, disk = "whole", Changed(q), overlap'[q] = {}
               PROVE  Keeps(q, recs[host[q]])'
    BY <1>5, <1>9 DEF LostOnlyToOverlap
  <2>1. q # p
    BY DEF Changed
  <2> QED
    BY <1>1, <1>3, <1>5, <2>1 DEF IInv, LostOnlyToOverlap, Keeps
<1> QED
  BY <1>7, <1>11, <1>14, <1>15, <1>16, <1>17 DEF IInv

(* Opening the file for writing, by a process whose command writes. *)
LEMMA SaveKeeps ==
  ASSUME IInv, NEW p \in Procs, pc[p] = "loaded", Save(p)
  PROVE  IInv'
<1>1. \A q \in Procs : q # p => pc'[q] = pc[q] /\ mem'[q] = mem[q]
  BY DEF Save, Goto, IInv, TypeOK
<1>2. pc'[p] = "writing"
  BY DEF Save, Goto, IInv, TypeOK
<1>3. /\ mem'[p][host[p]] = p
      /\ \A h \in Hosts : h # host[p] => mem'[p][h] = mem[p][h]
  BY DEF Save, IInv, TypeOK, Records
<1>4. disk' = "torn" /\ recs' = Empty /\ host' = host /\ before' = before /\ overlap' = overlap
  BY DEF Save, aux
<1>5. /\ rivals'[p] = {r \in Procs : pc[r] = "writing"}
      /\ \A q \in Procs : q # p => rivals'[q] = rivals[q] \cup {r \in {p} : pc[q] = "writing"}
  BY DEF Save, RivalsWith
<1>6. TypeOK'
  <2>1. mem' \in [Procs -> Records] /\ recs' \in Records
    BY DEF Save, IInv, TypeOK, Records, Empty
  <2>2. rivals' \in [Procs -> SUBSET Procs]
    BY DEF Save, RivalsWith, IInv, TypeOK
  <2>3. pc' \in [Procs -> {"new", "loaded", "writing", "done", "failed", "dead"}]
    BY DEF Save, Goto, IInv, TypeOK
  <2> QED
    BY <1>4, <2>1, <2>2, <2>3 DEF Save, IInv, TypeOK, Records
<1>7. \A q \in Procs : (Over(q)' <=> Over(q)) /\ (Begun(q)' <=> Begun(q)) /\ (Active(q)' <=> Active(q))
  BY <1>1, <1>2 DEF Over, Begun, Active
<1>8. \A q \in Procs : Changed(q)' <=> Changed(q) /\ q # p
  BY <1>1, <1>2, <1>4 DEF Changed
<1>9. p \notin rivals[p] /\ \A q \in Procs : p \notin before[q]
  BY DEF IInv, TypeOK, HistInv, Over
<1>10. \A q \in Procs : pc[q] = "writing" => q # p /\ q \in overlap[p] /\ p \in overlap[q]
  <2> SUFFICES ASSUME NEW q \in Procs, pc[q] = "writing"
               PROVE  q # p /\ q \in overlap[p] /\ p \in overlap[q]
    OBVIOUS
  <2>1. q # p /\ Begun(q) /\ Begun(p) /\ Active(q) /\ Active(p)
    BY DEF Begun, Active
  <2>2. p \notin before[q] /\ q \notin before[p]
    BY <2>1 DEF IInv, HistInv, Over, Active
  <2> QED
    BY <2>1, <2>2 DEF IInv, SepInv
<1>11. HistInv'
  <2>1. ASSUME NEW q \in Procs, NEW r \in rivals'[q]
        PROVE  r \in overlap[q] /\ {pc'[q], pc'[r]} \subseteq {"writing", "done", "dead"}
    <3>1. r \in Procs
      BY <1>6, <2>1 DEF TypeOK
    <3>2. CASE q = p
      BY <1>1, <1>2, <1>5, <1>10, <2>1, <3>1, <3>2
    <3>3. CASE q # p /\ r \in rivals[q]
      BY <1>1, <1>2, <2>1, <3>1, <3>3 DEF IInv, HistInv
    <3>4. CASE q # p /\ r \notin rivals[q]
      BY <1>1, <1>2, <1>5, <1>10, <2>1, <3>1, <3>4
    <3> QED
      BY <3>2, <3>3, <3>4
  <2> QED
    BY <1>4, <1>7, <2>1 DEF IInv, HistInv
<1>12. SepInv'
  <2>1. ASSUME NEW q \in Procs, NEW w \in Procs, NEW r \in rivals'[w],
               q # r, Begun(q), q \in before[w]
        PROVE  r \in overlap[q] \/ q \in before[r]
    <3>1. CASE r \in rivals[w]
      BY <2>1, <3>1 DEF IInv, SepInv
    <3>2. CASE r \notin rivals[w]
      <4>1. r \in Procs /\ Active(r)
        BY <1>5, <2>1, <3>2 DEF Active
      <4> QED
        BY <2>1, <4>1 DEF IInv, SepInv
    <3> QED
      BY <3>1, <3>2
  <2> QED
    BY <1>4, <1>7, <2>1 DEF IInv, SepInv
<1>13. SourceInv'
  BY <1>1, <1>2, <1>3, <1>4, <1>8, NoneAssumption DEF IInv, TypeOK, SourceInv, Empty
<1>14. KnowsInv'
  <2> SUFFICES ASSUME NEW q \in Procs, NEW r \in Procs,
                      Changed(q)', overlap'[q] = {}, q \in before'[r], Begun(r)'
               PROVE  Keeps(q, mem[r][host[q]])'
    BY DEF KnowsInv
  <2>1. Keeps(q, mem[r][host[q]]) /\ q # p
    BY <1>4, <1>7, <1>8 DEF IInv, KnowsInv
  <2>2. CASE r = p /\ host[q] = host[p]
    BY <1>3, <1>4, <1>9, <2>2 DEF Keeps
  <2>3. CASE r # p \/ host[q] # host[p]
    BY <1>1, <1>3, <1>4, <2>1, <2>3 DEF Keeps, IInv, TypeOK
  <2> QED
    BY <2>2, <2>3
<1>15. LostOnlyToOverlap'
  BY <1>4 DEF LostOnlyToOverlap
<1> QED
  BY <1>6, <1>11, <1>12, <1>13, <1>14, <1>15 DEF IInv

LEMMA WritePartKeeps ==
  ASSUME IInv, NEW p \in Procs, WritePart(p)
  PROVE  IInv'
<1> USE DEF WritePart, aux
<1>1. TypeOK'
  BY DEF IInv, TypeOK, Records, Empty
<1>2. HistInv' /\ SepInv'
  BY DEF IInv, HistInv, SepInv, Over, Begun, Active
<1>3. SourceInv'
  BY NoneAssumption DEF IInv, SourceInv, Changed, Empty
<1>4. KnowsInv'
  BY DEF IInv, KnowsInv, Changed, Keeps, Begun
<1>5. LostOnlyToOverlap'
  BY DEF LostOnlyToOverlap
<1> QED
  BY <1>1, <1>2, <1>3, <1>4, <1>5 DEF IInv

(* Closing the file: whatever it takes from whom, it takes no record that a     *)
(* process which overlapped nobody has replaced.                                *)
LEMMA WriteKeeps ==
  ASSUME IInv, NEW p \in Procs, Write(p)
  PROVE  IInv'
<1>1. /\ \A q \in Procs : q # p => pc'[q] = pc[q]
      /\ pc[p] = "writing" /\ pc'[p] = "done"
  BY DEF Write, Goto, IInv, TypeOK
<1>2. UNCHANGED <<job, host, mem, rivals, before, overlap>>
  BY DEF Write, aux
<1>3. \/ disk' = "torn" /\ recs' = Empty
      \/ /\ disk' = "whole" /\ recs' \in Records
         /\ \A h \in Hosts : \E q \in rivals[p] \cup {p} : recs'[h] = mem[q][h]
  BY DEF Write
<1>4. TypeOK'
  BY <1>2, <1>3 DEF Write, Goto, IInv, TypeOK, Records, Empty
<1>5. \A q \in Procs : (Over(q) => Over(q)') /\ (Begun(q)' <=> Begun(q)) /\ (Active(q)' => Active(q))
  BY <1>1 DEF Over, Begun, Active
<1>6. \A q \in Procs : Changed(q)' <=> Changed(q) \/ q = p
  BY <1>1, <1>2 DEF Changed, IInv, SourceInv
<1>7. HistInv'
  BY <1>1, <1>2, <1>5 DEF IInv, TypeOK, HistInv
<1>8. SepInv'
  BY <1>2, <1>5 DEF IInv, TypeOK, SepInv
<1>9. \A q \in Procs : p \notin before[q]
  BY <1>1 DEF IInv, HistInv, Over
<1>10. KnowsInv'
  BY <1>2, <1>5, <1>6, <1>9 DEF IInv, KnowsInv, Keeps
<1>11. SourceInv'
  <2>1. ASSUME NEW q \in Procs, NEW h \in Hosts, recs'[h] = q
        PROVE  pc'[q] \notin {"new", "loaded"}
    <3>1. PICK r \in rivals[p] \cup {p} : mem[r][h] = q
      BY <1>3, <2>1, NoneAssumption DEF Empty
    <3> QED
      BY <1>1, <3>1 DEF IInv, TypeOK, SourceInv
  <2> QED
    BY <1>1, <1>2, <1>3, <2>1 DEF IInv, SourceInv
<1>12. LostOnlyToOverlap'
  <2> SUFFICES ASSUME disk' = "whole", NEW q \in Procs, Changed(q)', overlap'[q] = {}
               PROVE  Keeps(q, recs[host[q]])'
    BY DEF LostOnlyToOverlap
  <2>1. host[q] \in Hosts
    BY DEF IInv, TypeOK
  <2>2. PICK r \in rivals[p] \cup {p} : recs'[host[q]] = mem[r][host[q]]
    BY <1>3, <2>1
  <2>3. r \in Procs
    BY <2>2 DEF IInv, TypeOK
  <2>4. overlap[q] = {}
    BY <1>2
  <2>5. CASE r = q
    <3>1. mem[q][host[q]] = q
      BY <1>2 DEF Changed
    <3> QED
      BY <1>2, <2>2, <2>5, <3>1 DEF Keeps
  <2>6. CASE r # q
    <3>1. q # p
      BY <2>2, <2>4, <2>6 DEF IInv, HistInv
    <3>2. Changed(q) /\ Begun(q)
      BY <1>6, <3>1 DEF Changed, Begun
    <3>3. q \in before[p]
      BY <1>1, <2>4, <3>1, <3>2 DEF IInv, SepInv, Active
    <3>4. q \in before[r]
      BY <2>2, <2>3, <2>4, <2>6, <3>2, <3>3 DEF IInv, SepInv
    <3>5. Begun(r)
      BY <1>1, <2>2, <2>3 DEF IInv, TypeOK, HistInv, Begun
    <3>6. Keeps(q, mem[r][host[q]])
      BY <2>3, <2>4, <3>2, <3>4, <3>5 DEF IInv, KnowsInv
    <3> QED
      BY <1>2, <2>2, <3>6 DEF Keeps
  <2> QED
    BY <2>5, <2>6
<1> QED
  BY <1>4, <1>7, <1>8, <1>10, <1>11, <1>12 DEF IInv

-----------------------------------------------------------------------------
(* Every reachable state satisfies the inductive invariant. *)
LEMMA Invariance == Spec => []IInv
<1>1. Init => IInv
  <2> SUFFICES ASSUME Init PROVE IInv
    OBVIOUS
  <2>1. TypeOK
    BY DEF Init, TypeOK, Records, Empty
  <2>2. \A p \in Procs : pc[p] = "new" /\ before[p] = {} /\ rivals[p] = {} /\ ~Changed(p)
    BY DEF Init, Changed
  <2>3. HistInv /\ SepInv /\ KnowsInv /\ LostOnlyToOverlap
    BY <2>2 DEF HistInv, SepInv, KnowsInv, LostOnlyToOverlap, Begun, Active
  <2>4. SourceInv
    BY <2>2, NoneAssumption DEF Init, SourceInv, Empty
  <2> QED
    BY <2>1, <2>3, <2>4 DEF IInv
<1>2. IInv /\ [Next]_vars => IInv'
  <2> SUFFICES ASSUME IInv, [Next]_vars PROVE IInv'
    OBVIOUS
  <2>1. CASE UNCHANGED vars
    BY <2>1 DEF vars, file, aux, IInv, TypeOK, HistInv, SepInv, SourceInv, KnowsInv,
                LostOnlyToOverlap, Over, Active, Begun, Changed, Keeps
  <2>2. ASSUME NEW p \in Procs, Load(p)
        PROVE  IInv'
    <3>1. CASE disk = "torn"
      BY <2>2, <3>1, MoveOn DEF Load
    <3>2. CASE disk # "torn"
      BY <2>2, <3>2, LoadedKeeps DEF Load
    <3> QED
      BY <3>1, <3>2
  <2>3. ASSUME NEW p \in Procs, Upsert(p)
        PROVE  IInv'
    BY <2>3, SaveKeeps DEF Upsert
  <2>4. ASSUME NEW p \in Procs, Mark(p)
        PROVE  IInv'
    BY <2>4, SaveKeeps, MoveOn DEF Mark
  <2>5. ASSUME NEW p \in Procs, WritePart(p)
        PROVE  IInv'
    BY <2>5, WritePartKeeps
  <2>6. ASSUME NEW p \in Procs, Write(p)
        PROVE  IInv'
    BY <2>6, WriteKeeps
  <2>7. ASSUME NEW p \in Procs, Read(p)
        PROVE  IInv'
    BY <2>7, MoveOn DEF Read
  <2>8. ASSUME NEW p \in Procs, Die(p)
        PROVE  IInv'
    BY <2>8, MoveOn DEF Die, Active
  <2> QED
    BY <2>1, <2>2, <2>3, <2>4, <2>5, <2>6, <2>7, <2>8 DEF Next
<1> QED
  BY <1>1, <1>2, PTL DEF Spec

(* Type correctness. *)
THEOREM TypeCorrect == Spec => []TypeOK
BY Invariance, PTL DEF IInv

(* What a command stored is lost only to a command that was active at the same  *)
(* time (DestinationDB.upsert, load and save).                                  *)
THEOREM LostOnlyToOverlapHolds == Spec => []LostOnlyToOverlap
BY Invariance, PTL DEF IInv

(* A file that does not parse, and that nobody is writing, is the work of a     *)
(* crash or of two writers at once (DestinationDB.save).                        *)
THEOREM TornOnlyByAccidentHolds == Spec => []TornOnlyByAccident
<1>1. Init => TornOnlyByAccident
  BY DEF Init, TornOnlyByAccident
<1>2. TypeOK /\ TornOnlyByAccident /\ [Next]_vars => TornOnlyByAccident'
  <2> SUFFICES ASSUME TypeOK, TornOnlyByAccident, [Next]_vars, disk' = "torn",
                      \A p \in Procs : pc'[p] # "writing"
               PROVE  \E p \in Procs : pc'[p] = "dead" \/ rivals'[p] # {}
    BY DEF TornOnlyByAccident
  <2>1. CASE UNCHANGED vars
    BY <2>1 DEF vars, file, TornOnlyByAccident
  <2>2. ASSUME NEW p \in Procs, Goto(p, "done"), pc[p] = "loaded", UNCHANGED <<disk, rivals>>
        PROVE  \E q \in Procs : pc'[q] = "dead" \/ rivals'[q] # {}
    <3>1. \A q \in Procs : q # p => pc'[q] = pc[q]
      BY <2>2 DEF Goto, TypeOK
    <3>2. \A q \in Procs : pc[q] # "writing"
      BY <2>2, <3>1
    <3>3. PICK q \in Procs : pc[q] = "dead" \/ rivals[q] # {}
      BY <2>2, <3>2 DEF TornOnlyByAccident
    <3> QED
      BY <2>2, <3>1, <3>3
  <2>3. ASSUME NEW p \in Procs, Load(p)
        PROVE  \E q \in Procs : pc'[q] = "dead" \/ rivals'[q] # {}
    BY <2>3 DEF Load, Loaded, Goto, file, TypeOK, TornOnlyByAccident
  <2>4. ASSUME NEW p \in Procs, Upsert(p) \/ Mark(p) \/ WritePart(p)
        PROVE  \E q \in Procs : pc'[q] = "dead" \/ rivals'[q] # {}
    <3>1. ~Save(p)
      BY DEF Save, Goto, TypeOK
    <3>2. ~WritePart(p)
      BY DEF WritePart
    <3> QED
      BY <2>2, <2>4, <3>1, <3>2 DEF Upsert, Mark, file
  <2>5. ASSUME NEW p \in Procs, Write(p)
        PROVE  \E q \in Procs : pc'[q] = "dead" \/ rivals'[q] # {}
    BY <2>5 DEF Write
  <2>6. ASSUME NEW p \in Procs, Read(p)
        PROVE  \E q \in Procs : pc'[q] = "dead" \/ rivals'[q] # {}
    BY <2>2, <2>6 DEF Read, file
  <2>7. ASSUME NEW p \in Procs, Die(p)
        PROVE  \E q \in Procs : pc'[q] = "dead" \/ rivals'[q] # {}
    BY <2>7 DEF Die, Goto, TypeOK
  <2> QED
    BY <2>1, <2>3, <2>4, <2>5, <2>6, <2>7 DEF Next
<1> QED
  BY <1>1, <1>2, TypeCorrect, PTL DEF Spec

(* A file that does not parse and that nobody works on stays as it is.          *)
(* (DestinationDB.load).                                                        *)
THEOREM UnreadableNotReplacedHolds == Spec => UnreadableNotReplaced
<1>1. TypeOK /\ Abandoned /\ [Next]_vars => Abandoned'
  BY DEF TypeOK, Abandoned, Next, vars, file, Active, Load, Upsert, Mark, WritePart, Write, Read,
         Die, Goto
<1>2. Abandoned => disk = "torn"
  BY DEF Abandoned
<1> QED
  BY <1>1, <1>2, TypeCorrect, PTL DEF Spec, UnreadableNotReplaced
=============================================================================
