-------------------------------- MODULE DnsCache --------------------------------
(* app/database.py and the commands that use it: scans of one host store what   *)
(* they resolved (scan_engine.py, step 8), updates delete the rows that have    *)
(* expired.  Each command is a process; SQLite makes one statement with its     *)
(* commit atomic, and everything between two of them interleaves: the clock is  *)
(* read before the statement that uses it, which may have to wait for another   *)
(* process.  A process may die, and any use of the database may raise.          *)
EXTENDS DnsResolution, FiniteSets

CONSTANTS
  Procs,          \* the processes, one command each
  Sections,       \* the answer sections a lookup may get, per record type
  DefaultTtl,     \* the lifetime of a row whose records have no ttl
  LockWait,       \* how long after reading the clock a put still gets the lock
  MaxNow,         \* the bound of the clock
  None            \* no row, nobody

\* what resolve_dns_a_and_aaaa() may return
Lookups == {MergeResults(Resolve(a, "A"), Resolve(aaaa, "AAAA")) :
              a \in Sections["A"], aaaa \in Sections["AAAA"]}

ASSUME SectionsAssumption == \A t \in {"A", "AAAA"} : Sections[t] \subseteq Seq(Record)
ASSUME TimeAssumption == DefaultTtl \in Nat \ {0} /\ LockWait \in Nat \ {0} /\ MaxNow \in Nat
ASSUME NoneAssumption == None \notin Nat /\ None \notin Procs

Key == {"A", "AAAA"} \X Data      \* the primary key, of the one hostname
Table == {"tls", "probes"}

VARIABLES
  now,        \* the clock
  rows,       \* table dns_cache: expires_at of every row
  last,       \* tables tls_cache and probe_cache: who put the latest row
  pc,         \* where each process is
  todo,       \* the rows a scan has still to put
  ttl,        \* the ttl it puts them with
  stamp,      \* when the process read the clock for its next statement
  warned,     \* the scans that logged cache_write_failed
  resolved,   \* (auxiliary) the keys a scan has resolved
  due         \* (auxiliary) per key, the expires_at of the last put

tables == <<rows, last>>
aux == <<resolved, due>>
vars == <<now, tables, pc, todo, ttl, stamp, warned, aux>>

Running == {"resolved", "putting", "stamped", "probing", "cleaning"}

TypeOK ==
  /\ now \in 0..MaxNow
  /\ rows \in [Key -> Nat \cup {None}]
  /\ last \in [Table -> Procs \cup {None}]
  /\ pc \in [Procs -> Running \cup {"new", "done", "updated", "failed"}]
  /\ todo \in [Procs -> Seq(Key)]
  /\ ttl \in [Procs -> Nat]
  /\ stamp \in [Procs -> 0..MaxNow]
  /\ warned \in SUBSET Procs
  /\ resolved \in [Procs -> SUBSET Key]
  /\ due \in [Key -> Nat]

Init ==
  /\ now = 0
  /\ rows = [k \in Key |-> None] /\ last = [t \in Table |-> None]
  /\ warned = {}
  /\ pc = [p \in Procs |-> "new"]
  /\ todo = [p \in Procs |-> <<>>] /\ ttl = [p \in Procs |-> 0]
  /\ stamp = [p \in Procs |-> 0]
  /\ resolved = [p \in Procs |-> {}] /\ due = [k \in Key |-> 0]

Goto(p, to) == pc' = [pc EXCEPT ![p] = to]

\* is_fresh() and the "fresh" of get_dns()
Fresh(k) == rows[k] # None /\ now < rows[k]

-----------------------------------------------------------------------------
(* A scan.                                                                      *)

KeysOf(type, addrs) == [i \in DOMAIN addrs |-> <<type, addrs[i]>>]

ResolveHost(p) ==
  /\ pc[p] = "new" /\ Goto(p, "resolved")
  /\ \E dns \in Lookups :
       LET keys == KeysOf("A", dns.a) \o KeysOf("AAAA", dns.aaaa)
       IN  /\ todo' = [todo EXCEPT ![p] = keys]
           /\ resolved' = [resolved EXCEPT ![p] = ToSet(keys)]
           /\ ttl' = [ttl EXCEPT ![p] = dns.ttl]
  /\ UNCHANGED <<now, tables, stamp, warned, due>>

\* dest_db.upsert(endpoint) comes back; what it does to verified.json, with
\* other processes at the same file, is the subject of DestinationDB
Upsert(p) ==
  /\ pc[p] = "resolved" /\ Goto(p, "putting")
  /\ UNCHANGED <<now, tables, todo, ttl, stamp, warned, aux>>

\* route() without an address, or an unreadable verified.json, ends the scan here
ScanRaises(p) ==
  /\ pc[p] = "resolved" /\ Goto(p, "failed")
  /\ UNCHANGED <<now, tables, todo, ttl, stamp, warned, aux>>

StampWithTtl(p) ==
  /\ pc[p] = "putting" /\ todo[p] # <<>> /\ Goto(p, "stamped")
  /\ stamp' = [stamp EXCEPT ![p] = now + ttl[p]]
  /\ UNCHANGED <<now, tables, todo, ttl, warned, aux>>

Stamp(p) ==
  /\ pc[p] = "putting" /\ todo[p] # <<>> /\ Goto(p, "stamped")
  /\ stamp' = [stamp EXCEPT ![p] = now]
  /\ UNCHANGED <<now, tables, todo, ttl, warned, aux>>

ExpiresAtNoDefault(p) == stamp[p] + ttl[p]

ExpiresAt(p) == stamp[p] + (IF ttl[p] # 0 THEN ttl[p] ELSE DefaultTtl)

PutDns(p) ==
  /\ pc[p] = "stamped" /\ now <= stamp[p] + LockWait /\ Goto(p, "putting")
  /\ rows' = [rows EXCEPT ![Head(todo[p])] = ExpiresAt(p)]
  /\ due' = [due EXCEPT ![Head(todo[p])] = ExpiresAt(p)]
  /\ todo' = [todo EXCEPT ![p] = Tail(@)]
  /\ UNCHANGED <<now, last, ttl, stamp, warned, resolved>>

PutTlsFirst(p) ==
  /\ pc[p] = "putting" /\ Goto(p, "probing")
  /\ last' \in {last, [last EXCEPT !["tls"] = p]}
  /\ UNCHANGED <<now, rows, todo, ttl, stamp, warned, aux>>

\* `if tls`, `if probe`: a scan may have been told to do without either
PutTls(p) ==
  /\ pc[p] = "putting" /\ todo[p] = <<>> /\ Goto(p, "probing")
  /\ last' \in {last, [last EXCEPT !["tls"] = p]}
  /\ UNCHANGED <<now, rows, todo, ttl, stamp, warned, aux>>

PutProbe(p) ==
  /\ pc[p] = "probing" /\ Goto(p, "done")
  /\ last' \in {last, [last EXCEPT !["probes"] = p]}
  /\ UNCHANGED <<now, rows, todo, ttl, stamp, warned, aux>>

CacheWriteFailsSilently(p) ==
  /\ pc[p] \in {"putting", "stamped", "probing"} /\ Goto(p, "done")
  /\ UNCHANGED <<now, tables, todo, ttl, stamp, warned, aux>>

\* open_caches() or a put raises: the rest of the block is skipped
CacheWriteFails(p) ==
  /\ pc[p] \in {"putting", "stamped", "probing"} /\ Goto(p, "done")
  /\ warned' = warned \cup {p}
  /\ UNCHANGED <<now, tables, todo, ttl, stamp, aux>>

-----------------------------------------------------------------------------
(* An update: update_database() with cleanup_expired().  The stub files it      *)
(* writes for missing CDN ranges are left out: an empty list reads as no file   *)
(* does, and a scan that reads one half-written raises (ScanRaises).            *)

Update(p) ==
  /\ pc[p] = "new" /\ Goto(p, "cleaning")
  /\ stamp' = [stamp EXCEPT ![p] = now]
  /\ UNCHANGED <<now, tables, todo, ttl, warned, aux>>

ExpiredBackwards(p, k) == rows[k] # None /\ rows[k] > stamp[p]

Expired(p, k) == rows[k] # None /\ rows[k] < stamp[p]

CleanupExpired(p) ==
  /\ pc[p] = "cleaning" /\ Goto(p, "updated")
  /\ rows' = [k \in Key |-> IF Expired(p, k) THEN None ELSE rows[k]]
  /\ UNCHANGED <<now, last, todo, ttl, stamp, warned, aux>>

UpdateFails(p) ==
  /\ pc[p] \in {"new", "cleaning"} /\ Goto(p, "failed")
  /\ UNCHANGED <<now, tables, todo, ttl, stamp, warned, aux>>

-----------------------------------------------------------------------------
Die(p) ==
  /\ pc[p] \in Running /\ Goto(p, "failed")
  /\ UNCHANGED <<now, tables, todo, ttl, stamp, warned, aux>>

Tick ==
  /\ now' \in now + 1 .. MaxNow
  /\ UNCHANGED <<tables, pc, todo, ttl, stamp, warned, aux>>

Step(p) ==
  \/ ResolveHost(p) \/ Upsert(p) \/ ScanRaises(p) \/ Stamp(p) \/ PutDns(p)
  \/ PutTls(p) \/ PutProbe(p) \/ CacheWriteFails(p)
  \/ Update(p) \/ CleanupExpired(p) \/ UpdateFails(p)

Next == Tick \/ \E p \in Procs : Step(p) \/ Die(p)

Spec == Init /\ [][Next]_vars

-----------------------------------------------------------------------------
(* A row leaves the table only when it is no longer fresh, although the update  *)
(* deletes by a clock it read earlier and scans put rows in between.            *)
NoFreshRowDeleted == [][\A k \in Key : Fresh(k) => rows'[k] # None]_vars

(* What an update leaves behind is never older than a put may take: a row that  *)
(* has expired by more than that is gone, and no scan brings it back later.     *)
LeftoversAreRecent ==
  \A p \in Procs, k \in Key :
    pc[p] = "updated" /\ rows[k] # None => rows[k] + LockWait > stamp[p]

(* A scan that ended without a warning has every address it resolved in the     *)
(* cache, whatever other scans and updates did, unless the time of the row has  *)
(* run out.                                                                     *)
DoneScanIsCached ==
  \A p \in Procs : pc[p] = "done" /\ p \notin warned =>
    \A k \in resolved[p] : rows[k] # None \/ due[k] < now

(* The rows of a scan are committed one by one, and it may die or fail between  *)
(* any two.  But its TLS and probe rows, which come last, vouch for its DNS     *)
(* rows: whoever finds one of them as the latest finds every address of the     *)
(* same scan beside it until its time has run out, whatever became of the scan  *)
(* since and whatever updates and other scans did to the table.                 *)
CachedInOrder ==
  \A t \in Table : last[t] # None =>
    \A k \in resolved[last[t]] : rows[k] # None \/ due[k] < now
=============================================================================
