------------------------------ MODULE DestinationDB ------------------------------
(* app/destination_db.py: the file verified.json and the commands that load it, *)
(* each a process of its own with a DestinationDB of its own.  A scan           *)
(* (scan_engine.py, step 8) or a mark_status()/add_source() loads the file,     *)
(* changes one record and writes the whole file again; health and dashboard     *)
(* only load it.  The file has no lock and is written in place, and a process   *)
(* may die at any point.                                                        *)
EXTENDS FiniteSets

CONSTANTS
  Procs,   \* the processes, one command each
  Hosts,   \* the hostnames they work on
  None     \* no record

ASSUME NoneAssumption == None \notin Procs

VARIABLES
  disk,     \* the file: "absent", "torn" (not JSON) or "whole"
  recs,     \* what a whole file holds: per host, the process that wrote the record
  pc,       \* where each process is
  job,      \* what its command does, once it has loaded the file
  host,     \* the host it works on
  mem,      \* its _records
  rivals,   \* the processes that had the file open for writing at the same time
  before,   \* (auxiliary) the processes that had ended when it loaded the file
  overlap   \* (auxiliary) the processes that were active while it was

file == <<disk, recs>>
aux == <<before, overlap>>
vars == <<file, pc, job, host, mem, rivals, aux>>

Empty == [h \in Hosts |-> None]
Records == [Hosts -> Procs \cup {None}]
Active(p) == pc[p] \in {"loaded", "writing"}
Over(p) == pc[p] \in {"done", "failed", "dead"}

TypeOK ==
  /\ disk \in {"absent", "torn", "whole"}
  /\ recs \in Records
  /\ pc \in [Procs -> {"new", "loaded", "writing", "done", "failed", "dead"}]
  /\ job \in [Procs -> {"none", "scan", "mark", "read"}]
  /\ host \in [Procs -> Hosts]
  /\ mem \in [Procs -> Records]
  /\ rivals \in [Procs -> SUBSET Procs]
  /\ before \in [Procs -> SUBSET Procs]
  /\ overlap \in [Procs -> SUBSET Procs]

Init ==
  /\ disk \in {"absent", "whole"} /\ recs = Empty
  /\ pc = [p \in Procs |-> "new"]
  /\ job = [p \in Procs |-> "none"]
  /\ host \in [Procs -> Hosts]
  /\ mem = [p \in Procs |-> Empty]
  /\ rivals = [p \in Procs |-> {}]
  /\ before = [p \in Procs |-> {}]
  /\ overlap = [p \in Procs |-> {}]

Goto(p, to) == pc' = [pc EXCEPT ![p] = to]

-----------------------------------------------------------------------------
(* DestinationDB(): load().  A file that does not parse raises, and the command *)
(* ends there; for a scan that is after all its network work.                   *)

Loaded(p, j, records) ==
  /\ Goto(p, "loaded")
  /\ job' = [job EXCEPT ![p] = j]
  /\ mem' = [mem EXCEPT ![p] = records]
  /\ before' = [before EXCEPT ![p] = {q \in Procs : Over(q)}]
  /\ overlap' = [q \in Procs |-> IF q = p THEN {r \in Procs : Active(r)}
                                 ELSE overlap[q] \cup {r \in {p} : Active(q)}]
  /\ UNCHANGED <<file, host, rivals>>

LoadTornAsEmpty(p) ==
  /\ pc[p] = "new"
  /\ \E j \in {"scan", "mark", "read"} :
       Loaded(p, j, IF disk = "whole" THEN recs ELSE Empty)

Load(p) ==
  /\ pc[p] = "new"
  /\ \/ /\ disk = "torn"
        /\ Goto(p, "failed")
        /\ UNCHANGED <<file, job, host, mem, rivals, aux>>
     \/ /\ disk # "torn"
        /\ \E j \in {"scan", "mark", "read"} :
             Loaded(p, j, IF disk = "whole" THEN recs ELSE Empty)

-----------------------------------------------------------------------------
(* upsert(), mark_status() and add_source(), each with the save() at its end    *)

RivalsWith(p) ==
  [q \in Procs |-> IF q = p THEN {r \in Procs : pc[r] = "writing"}
                   ELSE rivals[q] \cup {r \in {p} : pc[q] = "writing"}]

SaveKeyAsValue(p) ==
  /\ Goto(p, "writing")
  /\ mem' = [mem EXCEPT ![p][host[p]] = host[p]]
  /\ disk' = "torn" /\ recs' = Empty
  /\ rivals' = RivalsWith(p)
  /\ UNCHANGED <<job, host, aux>>

(* The record goes into _records, and open(path, "w") truncates the file.       *)
Save(p) ==
  /\ Goto(p, "writing")
  /\ mem' = [mem EXCEPT ![p][host[p]] = p]
  /\ disk' = "torn" /\ recs' = Empty
  /\ rivals' = RivalsWith(p)
  /\ UNCHANGED <<job, host, aux>>

SaveNewestOnly(p) ==
  /\ pc[p] = "loaded" /\ job[p] = "scan"
  /\ Goto(p, "writing")
  /\ mem' = [mem EXCEPT ![p] = [Empty EXCEPT ![host[p]] = p]]
  /\ disk' = "torn" /\ recs' = Empty
  /\ UNCHANGED <<job, host, rivals, aux>>

Upsert(p) ==
  /\ pc[p] = "loaded" /\ job[p] = "scan"
  /\ Save(p)

(* A record that is missing, or has the source already, is not saved. *)
Mark(p) ==
  /\ pc[p] = "loaded" /\ job[p] = "mark"
  /\ \/ mem[p][host[p]] # None /\ Save(p)
     \/ Goto(p, "done") /\ UNCHANGED <<file, job, host, mem, rivals, aux>>

(* Some of the text is in the file before the rest of it. *)
WritePart(p) ==
  /\ pc[p] = "writing"
  /\ disk' = "torn" /\ recs' = Empty
  /\ UNCHANGED <<pc, job, host, mem, rivals, aux>>

WriteWithoutClose(p) ==
  /\ pc[p] = "writing"
  /\ Goto(p, "done")
  /\ disk' = "torn" /\ recs' = Empty
  /\ UNCHANGED <<job, host, mem, rivals, aux>>

(* The file is written and closed.  Where another process has written to it at  *)
(* the same time, each at offsets of its own, the result does not parse or      *)
(* takes each record from one of them.                                          *)
Write(p) ==
  /\ pc[p] = "writing"
  /\ Goto(p, "done")
  /\ \/ rivals[p] # {} /\ disk' = "torn" /\ recs' = Empty
     \/ /\ disk' = "whole"
        /\ recs' \in Records
        /\ \A h \in Hosts : \E q \in rivals[p] \cup {p} : recs'[h] = mem[q][h]
  /\ UNCHANGED <<job, host, mem, rivals, aux>>

(* health and dashboard *)
Read(p) ==
  /\ pc[p] = "loaded" /\ job[p] = "read"
  /\ Goto(p, "done")
  /\ UNCHANGED <<file, job, host, mem, rivals, aux>>

-----------------------------------------------------------------------------
(* The process is killed, or open() or write() raises: the file stays as it is. *)
Die(p) ==
  /\ Active(p)
  /\ Goto(p, "dead")
  /\ UNCHANGED <<file, job, host, mem, rivals, aux>>

Next ==
  \E p \in Procs :
    \/ Load(p) \/ Upsert(p) \/ Mark(p) \/ WritePart(p) \/ Write(p) \/ Read(p)
    \/ Die(p)

Spec == Init /\ [][Next]_vars

-----------------------------------------------------------------------------
(* Properties *)

(* The record of host h is p's, or that of a process that had not ended when p  *)
(* loaded the file.                                                             *)
Keeps(p, record) == record = p \/ (record \in Procs \ before[p] /\ host[record] = host[p])

Changed(p) == pc[p] = "done" /\ mem[p][host[p]] = p

(* A record is lost, or replaced by an older one of the same host, only by a    *)
(* command that was active at the same time: as long as commands follow one     *)
(* another, whatever a finished scan, mark_status() or add_source() stored is   *)
(* in every later whole file (destination_db.py 29-48).                         *)
LostOnlyToOverlap ==
  disk = "whole" =>
    \A p \in Procs : Changed(p) /\ overlap[p] = {} => Keeps(p, recs[host[p]])

(* A file that nobody is writing and that does not parse is the work of a       *)
(* process that died while it was writing, or of two that wrote at once         *)
(* (destination_db.py 42-43).                                                   *)
TornOnlyByAccident ==
  disk = "torn" /\ (\A p \in Procs : pc[p] # "writing")
    => \E p \in Procs : pc[p] = "dead" \/ rivals[p] # {}

Abandoned == disk = "torn" /\ \A p \in Procs : ~Active(p)

(* Once nobody is at work on a file that does not parse, it stays as it is:     *)
(* every later command fails to load it, none takes it for an empty database    *)
(* and writes over what could still be repaired by hand, and none repairs it    *)
(* (destination_db.py 27, 33).                                                  *)
UnreadableNotReplaced ==
  [](Abandoned => [](disk = "torn"))
=============================================================================
