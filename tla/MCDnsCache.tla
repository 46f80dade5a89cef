------------------------------- MODULE MCDnsCache -------------------------------
(* Three commands on a system without dig.  An A lookup finds nothing, or a     *)
(* record behind a CNAME that lives longer; the AAAA lookup finds one without a *)
(* ttl, which takes the A answer's when there is one.                           *)
EXTENDS DnsCache

CONSTANTS p1, p2, p3, a1, s1, alias

MCProcs == {p1, p2, p3}
MCData == {a1, s1, alias}
RR(type, data, time) == [type |-> type, data |-> data, ttl |-> time]
MCSections ==
  [t \in {"A", "AAAA"} |->
     IF t = "A" THEN {<<>>, <<RR("CNAME", alias, 3), RR("A", a1, 1)>>} ELSE {<<RR("AAAA", s1, 0)>>}]
MCSymmetry == Permutations(MCProcs)
=============================================================================
