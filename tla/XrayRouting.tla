------------------------------- MODULE XrayRouting -------------------------------
(* app/xray/config.py: the outbounds and the routing rules of the generated     *)
(* configuration, and where the first rule that matches sends a connection.     *)
(* What geoip and geosite contain is xray's data: "private" is every block that *)
(* is not public, Iran is a constant.                                           *)
EXTENDS Classification

CONSTANTS
  Iran,         \* geoip:ir
  BlockNets     \* 10.10.34.0/24 and 2001:4188:2:600::/64, written out in the rule

ASSUME RoutingAssumption == Iran \subseteq Addr /\ BlockNets \subseteq Addr

Domain == {"private", "iran", "other", "none"}
Connection == [port : 0..65535, domain : Domain, ip : Addr]

\* _outbounds()
Outbounds(tor) == {"block", "direct", "dns-out"} \cup {o \in {"tor-out"} : tor}

Rule(field, values, tag) == [field |-> field, values |-> values, outboundTag |-> tag]

RulesDefaultFirst(tor) ==
  << Rule("port", {53}, "dns-out"),
     Rule("ip", Addr, IF tor THEN "tor-out" ELSE "direct"),
     Rule("domain", {"private", "iran"}, "direct"),
     Rule("port", 0..65535, "block") >>

\* _routing_rules()
Rules(tor) ==
  << Rule("port", {53}, "dns-out"),
     Rule("domain", {"private", "iran"}, "direct"),
     Rule("ip", {ip \in Addr : Class[ip] # "public"} \cup Iran, "direct"),
     Rule("ip", BlockNets, "block"),
     Rule("ip", Addr, IF tor THEN "tor-out" ELSE "direct"),
     Rule("port", 0..65535, "block") >>

\* xray takes the first rule that matches; the last matches every port
Outbound(c, tor) ==
  LET rules == Rules(tor)
  IN  rules[SelectInSeq(rules, LAMBDA r : c[r.field] \in r.values)].outboundTag
=============================================================================
