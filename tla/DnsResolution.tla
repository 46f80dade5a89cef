------------------------------ MODULE DnsResolution ------------------------------
(* app/network_tools/dns.py: what one lookup makes of the answer section it got *)
(* with either backend, and how resolve_dns_a_and_aaaa() merges the A and the   *)
(* AAAA lookup.  A ttl of 0 stands for None: the code tests both the same way.  *)
(* Every failure of a lookup (no binary, timeout, NXDOMAIN, text that is not    *)
(* JSON) has the outcome of an empty section.                                   *)
EXTENDS Naturals, SequencesExt

CONSTANTS
  Data,     \* addresses and names
  Backend   \* the resolver found on this system: "dig" or "dnspython"

ASSUME BackendAssumption == Backend \in {"dig", "dnspython"}

Record == [type : {"A", "AAAA", "CNAME"}, data : Data, ttl : Nat]
DNSResult == [a : Seq(Data), aaaa : Seq(Data), cname : Seq(Data), ttl : Nat]

\* [x for x in s if x in T]: the elements of s that lie in T, in their order
Keep(s, T) == FoldLeft(LAMBDA t, x : IF x \in T THEN Append(t, x) ELSE t, <<>>, s)

OfType(section, type) == Keep(section, {r \in ToSet(section) : r.type = type})
DataOf(section) == [i \in DOMAIN section |-> section[i].data]

\* list(dict.fromkeys(s)): the first occurrence of every element
Dedup(s) == FoldLeft(LAMBDA t, x : IF Contains(t, x) THEN t ELSE Append(t, x), <<>>, s)

Result(section, ttl) ==
  [a |-> DataOf(OfType(section, "A")), aaaa |-> DataOf(OfType(section, "AAAA")),
   cname |-> DataOf(OfType(section, "CNAME")), ttl |-> ttl]

\* dig reports the whole chain, and the ttl is the least of all its records'
Dig(section) ==
  LET ttls == {section[i].ttl : i \in DOMAIN section} \ {0}
  IN  Result(section, IF ttls = {} THEN 0 ELSE Min(ttls))

\* dnspython hands over the last record set of the chain only
Dnspython(section, type) ==
  LET rrset == OfType(section, type)
  IN  Result(rrset, IF rrset = <<>> THEN 0 ELSE Head(rrset).ttl)

Resolve(section, type) ==
  IF Backend = "dig" THEN Dig(section) ELSE Dnspython(section, type)

\* resolve_dns_a_and_aaaa(): one ttl for both families, the A answer's if it has one
MergeResults(a, aaaa) ==
  [a |-> a.a, aaaa |-> aaaa.aaaa, cname |-> Dedup(a.cname \o aaaa.cname),
   ttl |-> IF a.ttl # 0 THEN a.ttl ELSE aaaa.ttl]
=============================================================================
