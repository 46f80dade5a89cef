----------------------------- MODULE MCScanPipeline -----------------------------
(* Six addresses: one of each family in Cloudflare's ranges, one in Fastly's, a *)
(* private one, one in a documentation block, and a public one that is blocked  *)
(* by the user's list and by the tunnel's rule.  A lookup finds nothing, an     *)
(* unusable address alone or with a public one, or two public ones.             *)
EXTENDS ScanPipeline

CONSTANTS c4, f4, x4, d4, c6, b6, cfName, cloudflare, fastly

MCAddr == {c4, f4, x4, d4, c6, b6}
MCData == MCAddr \cup {cfName}
MCClass == [ip \in MCAddr |-> CASE ip = x4 -> "private" [] ip = d4 -> "documentation" [] OTHER -> "public"]
MCProviders == <<cloudflare, fastly>>
MCRanges == [p \in {cloudflare, fastly} |-> IF p = cloudflare THEN {c4, c6} ELSE {f4}]
MCOwner == [n \in {cfName} |-> cloudflare]

RR(type, data) == [type |-> type, data |-> data, ttl |-> 1]
MCSections ==
  [t \in {"A", "AAAA"} |->
     IF t = "A" THEN {<<>>, <<RR("A", x4)>>, <<RR("A", d4)>>, <<RR("A", f4), RR("A", c4)>>,
                      <<RR("CNAME", cfName), RR("A", x4), RR("A", f4)>>}
     ELSE {<<>>, <<RR("AAAA", b6), RR("AAAA", c6)>>}]
MCSans == {<<>>, <<cfName>>}
=============================================================================
