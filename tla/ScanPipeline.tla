------------------------------ MODULE ScanPipeline ------------------------------
(* app/scan_engine.py: one scan of a hostname, step by step, over a network in  *)
(* which addresses come up and go down between any two probes; then what is     *)
(* done with its record: the health command, and app/failover.py.  A latency is *)
(* only fast (below 200 ms) or not, and the probe cache, the printed text and   *)
(* the counters of metrics.py, which no command reads back, are left out.  The  *)
(* caches are DnsCache's subject, the file DestinationDB's.                     *)
EXTENDS XrayRouting

CONSTANTS
  Sections,     \* the answer sections a lookup may get, per record type
  Sans,         \* the certificates' lists of names
  MaxChanges    \* how often the network may change, a bound for TLC

\* an answer may hold any address, and nothing but addresses where it names one
ASSUME SectionsAssumption ==
  \A t \in {"A", "AAAA"} : \A section \in Sections[t] :
    /\ section \in Seq(Record)
    /\ \A r \in ToSet(section) : r.type # "CNAME" => r.data \in Addr
ASSUME SansAssumption == Sans \subseteq Seq(Data)
ASSUME ChangesAssumption == MaxChanges \in Nat

VARIABLES
  up,         \* the addresses whose port 443 accepts connections
  changes,    \* how often that has changed
  pc,         \* where the command is
  answer,     \* per record type, the lookup's result, or None until it is there
  dns,        \* the merged result
  tls,        \* what the handshake showed
  cdn,        \* the provider detected, with its confidence
  left,       \* the addresses still to be probed by a loop over candidates
  ranked,     \* those of them that have answered, in this order
  rec,        \* the EndpointRecord
  health,     \* the HealthScore
  route,      \* the RouteDecision's action, of best_ip
  stored,     \* the record in verified.json
  steady,     \* (auxiliary) the addresses that were up all through the current call
  heard       \* (auxiliary) those that answered something in the current call

net == <<up, changes>>
aux == <<steady, heard>>
findings == <<dns, tls, cdn>>
vars == <<net, pc, answer, findings, left, ranked, rec, health, route, stored, aux>>

NoTls == [success |-> FALSE, valid |-> FALSE, san |-> <<>>]
NoCdn == [provider |-> None, confidence |-> 0]
NoRecord == [ipv4 |-> <<>>, ipv6 |-> <<>>, status |-> "none"]
NoHealth == [tcp |-> FALSE, fast |-> FALSE, level |-> "none"]
Empty == Result(<<>>, 0)

Status == {"none", "observed", "resolved", "tls_verified", "fresh", "failed"}
Endpoint == [ipv4 : Seq(Addr), ipv6 : Seq(Addr), status : Status]

TypeOK ==
  /\ up \in SUBSET Addr /\ changes \in 0..MaxChanges
  /\ pc \in {"dns", "tls", "probe", "classify", "rank", "health", "route", "persist", "stored",
             "raised", "check", "refresh", "recheck", "over"}
  /\ answer \in [{"A", "AAAA"} -> DNSResult \cup {None}]
  /\ dns \in DNSResult
  /\ tls \in [success : BOOLEAN, valid : BOOLEAN, san : Seq(Data)]
  /\ cdn \in [provider : ToSet(Providers) \cup {None}, confidence : 0..100]
  /\ left \in Seq(Addr) /\ ranked \in Seq(Addr)
  /\ rec \in Endpoint /\ stored \in Endpoint
  /\ health \in [tcp : BOOLEAN, fast : BOOLEAN, level : {"none", "healthy", "degraded", "failed"}]
  /\ route \in {"none", "blocked", "local", "private", "cdn", "unknown"}
  /\ steady \in SUBSET Addr /\ heard \in SUBSET Addr

Init ==
  /\ up \in SUBSET Addr /\ changes = 0 /\ pc = "dns"
  /\ answer = [t \in {"A", "AAAA"} |-> None]
  /\ dns = Empty /\ tls = NoTls /\ cdn = NoCdn
  /\ left = <<>> /\ ranked = <<>>
  /\ rec = NoRecord /\ health = NoHealth /\ route = "none" /\ stored = NoRecord
  /\ steady = up /\ heard = {}

\* an address comes up or goes down
NetworkChanges ==
  /\ changes < MaxChanges /\ changes' = changes + 1
  /\ \E ip \in Addr : up' = IF ip \in up THEN up \ {ip} ELSE up \cup {ip}
  /\ steady' = steady \cap up'
  /\ UNCHANGED <<pc, answer, findings, left, ranked, rec, health, route, stored, heard>>

-----------------------------------------------------------------------------
(* The scan.                                                                    *)

\* one of the two lookups that resolve_dns_a_and_aaaa() has running on threads
Answer(type) ==
  /\ pc = "dns" /\ answer[type] = None
  /\ \E section \in Sections[type] :
       answer' = [answer EXCEPT ![type] = Resolve(section, type)]
  /\ UNCHANGED <<net, pc, findings, left, ranked, rec, health, route, stored, aux>>

Merge ==
  /\ pc = "dns" /\ \A t \in {"A", "AAAA"} : answer[t] # None
  /\ dns' = MergeResults(answer["A"], answer["AAAA"])
  /\ pc' = "tls"
  /\ UNCHANGED <<net, answer, tls, cdn, left, ranked, rec, health, route, stored, aux>>

(* inspect_tls(): a handshake with the first address of the system's own        *)
(* resolver; the certificate is not verified, only its dates are looked at.     *)
Tls ==
  /\ pc = "tls" /\ pc' = "probe"
  /\ \/ tls' = NoTls /\ UNCHANGED heard
     \/ \E ip \in up, valid \in BOOLEAN, san \in Sans :
          /\ tls' = [success |-> TRUE, valid |-> valid, san |-> san]
          /\ heard' = heard \cup {ip}
  /\ UNCHANGED <<net, answer, dns, cdn, left, ranked, rec, health, route, stored, steady>>

\* probe_host(): its result is only shown and cached, but it takes its time
Probe ==
  /\ pc = "probe" /\ pc' = "classify"
  /\ UNCHANGED <<net, answer, findings, left, ranked, rec, health, route, stored, aux>>

\* detect_cdn() on the raw answer, then the filter of rank_candidates()
Classify ==
  /\ pc = "classify" /\ pc' = "rank"
  /\ cdn' = DetectCdn(dns, tls.san)
  /\ left' = Candidates(dns.aaaa) \o Candidates(dns.a)
  /\ UNCHANGED <<net, answer, dns, tls, ranked, rec, health, route, stored, aux>>

ProbeUntilOneAnswers ==
  /\ left # <<>> /\ left' = IF Head(left) \in up THEN <<>> ELSE Tail(left)
  /\ ranked' = IF Head(left) \in up THEN Append(ranked, Head(left)) ELSE ranked
  /\ heard' = heard \cup ({Head(left)} \cap up)

\* TcpProber.probe() on an address: what both loops over candidates do with the answer
ProbeNext ==
  /\ left # <<>> /\ left' = Tail(left)
  /\ ranked' = IF Head(left) \in up THEN Append(ranked, Head(left)) ELSE ranked
  /\ heard' = heard \cup ({Head(left)} \cap up)

ProbeCandidate ==
  /\ pc = "rank" /\ ProbeNext
  /\ UNCHANGED <<net, pc, answer, findings, rec, health, route, stored, steady>>

RankStatusOfTls ==
  IF tls.success THEN "tls_verified" ELSE IF left = <<>> THEN "resolved" ELSE "observed"

RankStatus ==
  IF tls.valid THEN "tls_verified" ELSE IF ranked # <<>> THEN "resolved" ELSE "observed"

\* the record keeps the addresses in the order of the answer, not in that of the ranking
Rank ==
  /\ pc = "rank" /\ left = <<>> /\ pc' = "health"
  /\ rec' = [ipv4 |-> Candidates(dns.a), ipv6 |-> Candidates(dns.aaaa), status |-> RankStatus]
  /\ UNCHANGED <<net, answer, findings, left, ranked, health, route, stored, aux>>

AllIps(r) == r.ipv6 \o r.ipv4

(* compute_health() probes the first address.  Its TLS check raises on every    *)
(* address, since inspect_tls() accepts hostnames only: tls_ok stays False.     *)
ComputeHealth(r) ==
  LET ips == AllIps(r)
      tcp == ips # <<>> /\ Head(ips) \in up
  IN  \E fast \in BOOLEAN :
        /\ fast => tcp
        /\ health' = [tcp |-> tcp, fast |-> fast, level |-> Level(Score(ips # <<>>, tcp, FALSE, fast))]
        /\ heard' = heard \cup (IF tcp THEN {Head(ips)} ELSE {})

Health ==
  /\ pc = "health" /\ ComputeHealth(rec) /\ pc' = "route"
  /\ UNCHANGED <<net, answer, findings, left, ranked, rec, route, stored, steady>>

BestIp == Head(AllIps(rec))

RouteOfNothing ==
  /\ pc = "route" /\ pc' = "persist"
  /\ route' = IF AllIps(rec) = <<>> THEN None ELSE Decide(BestIp, cdn)
  /\ UNCHANGED <<net, answer, findings, left, ranked, rec, health, stored, aux>>

\* decide() raises on the empty best_ip of a record without an address
Route ==
  /\ pc = "route"
  /\ IF AllIps(rec) = <<>> THEN pc' = "raised" /\ UNCHANGED route
     ELSE pc' = "persist" /\ route' = Decide(BestIp, cdn)
  /\ UNCHANGED <<net, answer, findings, left, ranked, rec, health, stored, aux>>

\* dest_db.upsert(endpoint); the file may not parse
Persist ==
  /\ pc = "persist"
  /\ \/ pc' = "stored" /\ stored' = rec
     \/ pc' = "raised" /\ UNCHANGED stored
  /\ UNCHANGED <<net, answer, findings, left, ranked, rec, health, route, aux>>

-----------------------------------------------------------------------------
(* With the record that was stored.                                             *)

\* the health and dashboard commands: summarise() on the one record
Summarise ==
  /\ pc = "stored" /\ ComputeHealth(stored)
  /\ UNCHANGED <<net, pc, answer, findings, left, ranked, rec, route, stored, steady>>

\* failover(), the first round
Failover ==
  /\ pc = "stored" /\ pc' = "check"
  /\ left' = AllIps(stored) /\ ranked' = <<>>
  /\ steady' = up /\ heard' = {}
  /\ UNCHANGED <<net, answer, findings, rec, health, route, stored>>

\* check_health_one_ip(): the TLS result is dropped, and an error as good as any
CheckHealthOneIp ==
  /\ pc \in {"check", "recheck"} /\ ProbeNext
  /\ UNCHANGED <<net, pc, answer, findings, rec, health, route, stored, steady>>

MayRefreshAgain == TRUE

\* only the first round is followed by a fresh lookup
MayRefresh == pc = "check"

\* the end of a round: the record keeps what has answered
RoundEnds ==
  /\ pc \in {"check", "recheck"} /\ left = <<>>
  /\ rec' = [ipv4 |-> Keep(ranked, Addr \ V6), ipv6 |-> Keep(ranked, V6),
             status |-> IF ranked = <<>> THEN "failed" ELSE "fresh"]
  /\ pc' = IF ranked = <<>> /\ MayRefresh THEN "refresh" ELSE "over"
  /\ UNCHANGED <<net, answer, findings, left, ranked, health, route, stored, aux>>

\* failover_with_fresh_dns(): what the fresh answer holds is not filtered again
FreshDns ==
  /\ pc = "refresh" /\ pc' = "recheck"
  /\ \E a \in Sections["A"], aaaa \in Sections["AAAA"] :
       LET fresh == MergeResults(Resolve(a, "A"), Resolve(aaaa, "AAAA"))
       IN  left' = fresh.aaaa \o fresh.a
  /\ UNCHANGED <<net, answer, findings, ranked, rec, health, route, stored, aux>>

-----------------------------------------------------------------------------
Scan ==
  \/ \E type \in {"A", "AAAA"} : Answer(type)
  \/ Merge \/ Tls \/ Probe \/ Classify \/ ProbeCandidate \/ Rank \/ Health \/ Route \/ Persist

FailoverStep == CheckHealthOneIp \/ RoundEnds \/ FreshDns

Next == NetworkChanges \/ Scan \/ Summarise \/ Failover \/ FailoverStep

Spec == Init /\ [][Next]_vars

\* the process runs, and the timeouts of its sockets and lookups let every step end
FairSpec == Spec /\ WF_vars(Scan) /\ WF_vars(FailoverStep)

-----------------------------------------------------------------------------
ScanIsOver == pc \in {"persist", "stored"}

(* What each verdict of a scan stands on, over a network that changes while it  *)
(* runs.  "observed": none of the record's addresses was up all through.        *)
(* "resolved": one of them answered.  "tls_verified" (ip_select.py): some       *)
(* address answered a handshake, the one the system's resolver gave, which need *)
(* not be of the record.  The health level (health.py) is of the first address  *)
(* alone, whatever the others do: "failed" means it was not up all through,     *)
(* anything else that it answered.  BestIsReachable has what that leaves open.  *)
ClaimsAreBacked ==
  LET ips == AllIps(rec) IN
  ScanIsOver =>
    /\ rec.status = "observed" => ToSet(ips) \cap steady = {}
    /\ rec.status = "resolved" => ToSet(ips) \cap heard # {}
    /\ rec.status = "tls_verified" => heard # {}
    /\ health.level = "failed" => Head(ips) \notin steady
    /\ health.level # "failed" => Head(ips) \in heard

(* What rank_candidates() filters out is used nowhere: an address of the user's *)
(* list, or of a block that PRIVATE_NETWORKS or _is_reserved() knows, is not    *)
(* stored, and the verdicts decide() has for such addresses are not reached; a  *)
(* host with no other address is not stored.  The filter does not know the      *)
(* documentation and benchmarking blocks, private though they are to Python:    *)
(* they are stored, and are the only ones whose route can be "private".         *)
NothingFilteredIsUsed ==
  /\ \A ip \in ToSet(AllIps(stored)) :
       /\ ip \notin Blocklist
       /\ Class[ip] \notin {"private", "loopback", "link_local", "shared", "reserved", "unspecified"}
  /\ route \notin {"blocked", "local"}
  /\ ScanIsOver /\ route = "private" => Class[BestIp] = "documentation"
  /\ stored # NoRecord => AllIps(stored) # <<>>

(* Names alone never make a host a CDN's: behind the route "cdn" is an address  *)
(* in the ranges of that provider, and no provider has more to show for it.     *)
CdnNeedsAddress ==
  route = "cdn" =>
    /\ InRange(cdn.provider, dns.a) + InRange(cdn.provider, dns.aaaa) > 0
    /\ \A p \in ToSet(Providers) : Confidence(p, dns, tls.san) <= cdn.confidence

(* The scan's verdict on an address and the tunnel's treatment of it agree,     *)
(* with and without Tor: what is called private never leaves by Tor, and what   *)
(* is called external goes where external traffic goes.  The outbound exists.   *)
TunnelAgrees ==
  \A tor \in BOOLEAN, port \in {53, 443} : ScanIsOver =>
    LET ip == BestIp
        out == Outbound([port |-> port, domain |-> "other", ip |-> ip], tor)
    IN  /\ out \in Outbounds(tor)
        /\ route = "private" => out \in {"direct", "dns-out"}
        /\ route \in {"cdn", "unknown"} /\ Class[ip] = "public" /\ ip \notin Iran \cup BlockNets
              /\ port # 53 => out = IF tor THEN "tor-out" ELSE "direct"

(* A failover ends with exactly the addresses that answered it, and with every  *)
(* stored one that was up all the time; it fails only if none answered.         *)
FailoverKeepsTheAnswering ==
  pc = "over" =>
    /\ ToSet(AllIps(rec)) = heard
    /\ ToSet(AllIps(stored)) \cap steady \subseteq heard
    /\ rec.status = IF heard = {} THEN "failed" ELSE "fresh"

(* Every scan is stored or raises, and every failover ends, after one fresh DNS *)
(* round at the most.                                                           *)
CommandsEnd ==
  /\ pc = "dns" ~> pc \in {"stored", "raised"}
  /\ pc = "check" ~> pc = "over"

(* ip_select.py promises "ranked candidate IPs", and health.py to "Probe the    *)
(* best available IP": in a network that does not change, if a candidate        *)
(* answered the ranking, the one that is health-checked and routed answers.     *)
BestIsReachable == ScanIsOver /\ changes = 0 /\ ranked # <<>> => health.tcp
=============================================================================
