------------------------------ MODULE Classification ------------------------------
(* What the scan concludes from an address and from names, as pure operators:   *)
(* app/security.py (is_blocked), app/ip_select.py (the filter), app/            *)
(* cdn_detect.py, app/route_engine.py and the score of app/health.py.           *)
(* Confidences and scores are in hundredths.                                    *)
EXTENDS DnsResolution, FiniteSets

CONSTANTS
  Addr,        \* the addresses
  V6,          \* those with a colon
  Class,       \* the block of the address registry each lies in
  Blocklist,   \* the addresses in the CIDRs of config/blocklist.json
  Providers,   \* the CDN providers, in the order of _DEFAULT_PROVIDERS
  Ranges,      \* per provider, the addresses in its ranges
  Owner,       \* per name, the provider one of whose keywords it contains
  None         \* no provider, no address

AddressClass ==
  {"public", "private", "loopback", "link_local", "shared", "documentation",
   "reserved", "unspecified", "multicast"}

ASSUME AddrAssumption ==
  /\ Addr \subseteq Data /\ V6 \subseteq Addr /\ Blocklist \subseteq Addr
  /\ Class \in [Addr -> AddressClass]
ASSUME ProviderAssumption ==
  /\ Providers \in Seq(ToSet(Providers))
  /\ Ranges \in [ToSet(Providers) -> SUBSET Addr]
  /\ Owner \in [Data \ Addr -> ToSet(Providers) \cup {None}]
  /\ None \notin ToSet(Providers) /\ None \notin Addr

\* PRIVATE_NETWORKS, which has no entry for the documentation blocks
InPrivateNetworks(ip) == Class[ip] \in {"private", "loopback", "link_local", "shared"}

\* is_private of Python's ipaddress
IsPrivate(ip) == Class[ip] \notin {"public", "shared", "multicast"}

BlockedByUser(ip) == ip \in Blocklist

\* is_blocked() with the networks of build_block_networks()
Blocked(ip) == InPrivateNetworks(ip) \/ ip \in Blocklist

\* _is_reserved()
Reserved(ip) == Class[ip] \in {"loopback", "link_local", "reserved", "unspecified"}

\* the candidates of rank_candidates(), in the order of the answer
Usable == {ip \in Addr : ~Blocked(ip) /\ ~Reserved(ip)}
Candidates(addrs) == Keep(Dedup(addrs), Usable)

-----------------------------------------------------------------------------
Named(p, names) == \E i \in DOMAIN names : Owner[names[i]] = p
InRange(p, addrs) == Cardinality({i \in DOMAIN addrs : addrs[i] \in Ranges[p]})

SanWeightOfCname == 25

SanWeight == 15

(* detect_cdn(), one provider: one IPv4 address counts; an IPv6 one counts as   *)
(* long as no two addresses have been matched.                                  *)
Confidence(p, dns, san) ==
  LET v4 == Min({InRange(p, dns.a), 1})
      v6 == Min({InRange(p, dns.aaaa), 2 - v4})
  IN  (IF Named(p, dns.cname) THEN 25 ELSE 0) + (IF Named(p, san) THEN SanWeight ELSE 0)
        + 30 * (v4 + v6)

(* The best is kept rounded, so that a sum of 0.25 + 0.30 + 0.30, which is a    *)
(* little more than 0.85 in binary, replaces an equal one; no other sum does.   *)
Exceeds(c, best) == c > best \/ (c = 85 /\ best = 85)

DetectCdn(dns, san) ==
  FoldLeft(LAMBDA best, p : IF Exceeds(Confidence(p, dns, san), best.confidence)
                            THEN [provider |-> p, confidence |-> Confidence(p, dns, san)]
                            ELSE best,
           [provider |-> None, confidence |-> 0], Providers)

\* RouteEngine.decide(), with the threshold of its constructor
Decide(ip, cdn) ==
  IF Blocked(ip) THEN "blocked"
  ELSE IF Class[ip] \in {"loopback", "link_local"} THEN "local"
  ELSE IF IsPrivate(ip) THEN "private"
  ELSE IF cdn.confidence >= 50 THEN "cdn" ELSE "unknown"

-----------------------------------------------------------------------------
\* compute_health(), with a failure_rate of 0 as every caller leaves it
Score(dns, tcp, tls, fast) ==
  25 * Cardinality({x \in {<<"dns", dns>>, <<"tcp", tcp>>, <<"tls", tls>>, <<"fast", fast>>} : x[2]})

Level(score) ==
  IF score >= 75 THEN "healthy" ELSE IF score >= 40 THEN "degraded" ELSE "failed"
=============================================================================
