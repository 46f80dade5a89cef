--------------------------- MODULE ScanPipeline_proofs ---------------------------
(* Proofs about ScanPipeline, for any addresses, providers, lists and answers,  *)
(* and about the operators of Classification and XrayRouting that it uses.      *)
EXTENDS ScanPipeline, DnsResolution_proofs

(* The sections that an answer may have, and the results of lookups. *)
Section == SectionOf(Addr)
AddrResult == ResultOf(Addr)

(* Such a result is a DNSResult. *)
LEMMA ResultTypes == AddrResult \subseteq DNSResult
<1>1. Seq(Addr) \subseteq Seq(Data)
  BY AddrAssumption, SeqMonotonic
<1> QED
  BY <1>1 DEF AddrResult, ResultOf, DNSResult

-----------------------------------------------------------------------------
(* Candidates, the detection of a CDN, and scores *)

(* The candidates are the usable addresses of the answer. *)
LEMMA CandidatesProperties ==
  ASSUME NEW addrs \in Seq(Addr)
  PROVE  /\ Candidates(addrs) \in Seq(Addr)
         /\ ToSet(Candidates(addrs)) = ToSet(addrs) \cap Usable
<1>1. Dedup(addrs) \in Seq(Addr) /\ ToSet(Dedup(addrs)) = ToSet(addrs)
  BY DedupProperties
<1>2. /\ Keep(Dedup(addrs), Usable) \in Seq(Addr \cap Usable)
      /\ ToSet(Keep(Dedup(addrs), Usable)) = ToSet(Dedup(addrs)) \cap Usable
  BY <1>1, KeepProperties
<1>3. Seq(Addr \cap Usable) \subseteq Seq(Addr)
  BY SeqMonotonic
<1> QED
  BY <1>1, <1>2, <1>3 DEF Candidates

(* How many addresses of an answer lie in the ranges of a provider is a         *)
(* number.                                                                      *)
LEMMA InRangeProperties ==
  ASSUME NEW addrs \in Seq(Data), NEW p
  PROVE  InRange(p, addrs) \in Nat
<1>1. Len(addrs) \in Nat /\ DOMAIN addrs = 1..Len(addrs)
  BY LenProperties
<1>2. IsFiniteSet(1..Len(addrs))
  BY <1>1, FS_Interval
<1>3. {i \in DOMAIN addrs : addrs[i] \in Ranges[p]} \in SUBSET (1..Len(addrs))
  BY <1>1
<1> QED
  BY <1>2, <1>3, FS_Subset, FS_CardinalityType DEF InRange

(* The signals of a provider add up to 100 at most, those of names to 40. *)
LEMMA ConfidenceBounds ==
  ASSUME NEW d \in DNSResult, NEW san \in Seq(Data), NEW p
  PROVE  /\ Confidence(p, d, san) \in 0..100
         /\ InRange(p, d.a) + InRange(p, d.aaaa) = 0 => Confidence(p, d, san) <= 40
<1> DEFINE v4 == Min({InRange(p, d.a), 1})
           v6 == Min({InRange(p, d.aaaa), 2 - v4})
<1>1. InRange(p, d.a) \in Nat /\ InRange(p, d.aaaa) \in Nat
  BY InRangeProperties DEF DNSResult
<1>2. v4 \in 0..1 /\ (InRange(p, d.a) = 0 => v4 = 0)
  BY <1>1, MinOfTwo
<1>3. v6 \in 0..2 /\ v4 + v6 <= 2 /\ (InRange(p, d.aaaa) = 0 => v6 = 0)
  <2> HIDE DEF v4
  <2> QED
    BY <1>1, <1>2, MinOfTwo
<1>4. Confidence(p, d, san) =
        (IF Named(p, d.cname) THEN 25 ELSE 0) + (IF Named(p, san) THEN 15 ELSE 0) + 30 * (v4 + v6)
  BY DEF Confidence, SanWeight
<1> HIDE DEF v4, v6
<1> QED
  BY <1>1, <1>2, <1>3, <1>4

CdnMatch == [provider : ToSet(Providers) \cup {None}, confidence : 0..100]

(* What is detected is a provider with its confidence, or nothing, and no       *)
(* provider has more.                                                           *)
LEMMA DetectUnfolds ==
  ASSUME NEW d \in DNSResult, NEW san \in Seq(Data)
  PROVE  \E F : /\ DetectCdn(d, san) = F[Len(Providers)]
                /\ F[0] = [provider |-> None, confidence |-> 0]
                /\ \A k \in 0..(Len(Providers) - 1) :
                     F[k + 1] =
                       IF Exceeds(Confidence(Providers[k + 1], d, san), F[k].confidence)
                       THEN [provider |-> Providers[k + 1], confidence |-> Confidence(Providers[k + 1], d, san)]
                       ELSE F[k]
<1> DEFINE n == Len(Providers)
           X == CdnMatch
           C(p) == Confidence(p, d, san)
           base == [provider |-> None, confidence |-> 0]
           Body(F) == [t \in SUBSET (1..n) |->
                         IF t = {} THEN base
                         ELSE IF Exceeds(C(Providers[Max(t)]), F[t \ {Max(t)}].confidence)
                              THEN [provider |-> Providers[Max(t)], confidence |-> C(Providers[Max(t)])]
                              ELSE F[t \ {Max(t)}]]
           g == [p \in X \X (1..n) |->
                   IF Exceeds(C(Providers[p[2]]), p[1].confidence)
                   THEN [provider |-> Providers[p[2]], confidence |-> C(Providers[p[2]])]
                   ELSE p[1]]
<1>1. n \in Nat /\ DOMAIN Providers = 1..n /\ \A i \in 1..n : Providers[i] \in ToSet(Providers)
  BY ProviderAssumption, LenProperties, ElementOfSeq
<1>2. DetectCdn(d, san) = (CHOOSE F : F = Body(F))[1..n]
  BY <1>1 DEF DetectCdn, FoldLeft, MapThenFoldSet
<1>3. \E F : F = Body(F)
  <2>1. base \in X
    BY DEF CdnMatch
  <2>2. g \in [X \X (1..n) -> X]
    <3>1. ASSUME NEW b \in X, NEW i \in 1..n
          PROVE  [provider |-> Providers[i], confidence |-> C(Providers[i])] \in X
      BY <1>1, ConfidenceBounds DEF CdnMatch
    <3> HIDE DEF C
    <3> QED
      BY <3>1
  <2>3. PICK f \in [SUBSET (1..n) -> X] : \A t \in SUBSET (1..n) : Folds(f, base, g, t)
    <3> HIDE DEF g, X, n, base
    <3> QED
      BY <1>1, <2>1, <2>2, FoldExists
  <2>4. ASSUME NEW t \in SUBSET (1..n) PROVE f[t] = Body(f)[t]
    <3>1. CASE t = {}
      BY <2>3, <3>1 DEF Folds
    <3>2. CASE t # {}
      <4>1. Max(t) \in t /\ f[t] = g[<<f[t \ {Max(t)}], Max(t)>>]
        BY <2>3, <3>2 DEF Folds
      <4>2. f[t \ {Max(t)}] \in X /\ Max(t) \in 1..n
        BY <2>3, <4>1
      <4> HIDE DEF C, X
      <4> QED
        BY <3>2, <4>1, <4>2
    <3> QED
      BY <3>1, <3>2
  <2>5. f = Body(f)
    BY <2>3, <2>4
  <2> HIDE DEF Body
  <2> QED
    BY <2>5
<1>4. PICK F : F = Body(F) /\ DetectCdn(d, san) = F[1..n]
  <2> HIDE DEF Body
  <2> QED
    BY <1>2, <1>3
<1>5. F[1..0] = base
  <2>1. 1..0 = {} /\ {} \in SUBSET (1..n)
    OBVIOUS
  <2>2. Body(F)[{}] = base
    BY <2>1
  <2> HIDE DEF Body
  <2> QED
    BY <1>4, <2>1, <2>2
<1>6. ASSUME NEW k \in 0..(n - 1)
      PROVE  F[1..(k + 1)] = IF Exceeds(C(Providers[k + 1]), F[1..k].confidence)
                             THEN [provider |-> Providers[k + 1], confidence |-> C(Providers[k + 1])]
                             ELSE F[1..k]
  <2>1. /\ 1..(k + 1) \in SUBSET (1..n) /\ 1..(k + 1) # {}
        /\ Max(1..(k + 1)) = k + 1 /\ (1..(k + 1)) \ {k + 1} = 1..k
    <3> HIDE DEF n
    <3> QED
      BY <1>1, NextPrefix
  <2>2. F[1..(k + 1)] = Body(F)[1..(k + 1)]
    BY <1>4
  <2> HIDE DEF C
  <2> QED
    BY <2>1, <2>2
<1> DEFINE G == [k \in 0..n |-> F[1..k]]
<1>7. G[n] = F[1..n] /\ G[0] = F[1..0]
  BY <1>1
<1>8. ASSUME NEW k \in 0..(n - 1) PROVE G[k] = F[1..k] /\ G[k + 1] = F[1..(k + 1)]
  BY <1>1
<1> HIDE DEF G, Body
<1> QED
  BY <1>4, <1>5, <1>6, <1>7, <1>8

(* Exceeds() is the order of the confidences, but for one equal pair. *)
LEMMA ExceedsProperties ==
  \A c, b \in 0..100 : (Exceeds(c, b) => b <= c) /\ (~Exceeds(c, b) => c <= b) /\ b <= b /\ c <= c
BY DEF Exceeds

(* F[k] is the best of q[1], ..., q[k] by their confidences c. *)
BestSoFar(F, q, c, n) ==
  \A k \in 0..(n - 1) :
    F[k + 1] = IF Exceeds(c[k + 1], F[k].confidence)
               THEN [provider |-> q[k + 1], confidence |-> c[k + 1]] ELSE F[k]

BestFound(x, q, c, k) ==
  /\ x \in CdnMatch
  /\ x.provider = None => x.confidence = 0
  /\ x.provider # None => \E i \in 1..k : x.provider = q[i] /\ x.confidence = c[i]
  /\ \A i \in 1..k : c[i] <= x.confidence

(* By induction over the providers: the last best is the best of all. *)
LEMMA BestOfProviders ==
  ASSUME NEW n \in Nat, NEW q \in [1..n -> ToSet(Providers)], NEW c \in [1..n -> 0..100],
         NEW F, F[0] = [provider |-> None, confidence |-> 0], BestSoFar(F, q, c, n)
  PROVE  BestFound(F[n], q, c, n)
<1> DEFINE U == {k \in 0..n : BestFound(F[k], q, c, k)}
<1>1. /\ BestFound(F[0], q, c, 0)
      /\ \A i \in 1..n : c[i] \in 0..100 /\ q[i] \in ToSet(Providers)
      /\ \A b \in CdnMatch : b.confidence \in 0..100
  BY DEF CdnMatch, BestFound
<1>2. ASSUME NEW k \in 0..(n - 1), BestFound(F[k], q, c, k)
      PROVE  BestFound(F[k + 1], q, c, k + 1)
  <2>1. k + 1 \in 1..n /\ \A i \in 1..(k + 1) : i \in 1..n /\ (i = k + 1 \/ i \in 1..k)
    OBVIOUS
  <2>2. F[k] \in CdnMatch /\ \A i \in 1..k : c[i] <= F[k].confidence
    BY <1>2 DEF BestFound
  <2>3. F[k + 1] = IF Exceeds(c[k + 1], F[k].confidence)
                   THEN [provider |-> q[k + 1], confidence |-> c[k + 1]] ELSE F[k]
    BY DEF BestSoFar
  <2> DEFINE x == F[k]
             y == F[k + 1]
             i1 == k + 1
  <2>4. x \in CdnMatch /\ q[i1] \in ToSet(Providers) /\ c[i1] \in 0..100
    BY <1>1, <2>1, <2>2, Zenon
  <2>5. y = IF Exceeds(c[i1], x.confidence) THEN [provider |-> q[i1], confidence |-> c[i1]] ELSE x
    BY <2>3, Zenon
  <2> HIDE DEF x, y, i1
  <2>6. /\ y \in CdnMatch /\ x.confidence <= y.confidence /\ c[i1] <= y.confidence
        /\ \/ y = x
           \/ y.provider = q[i1] /\ y.provider # None /\ y.confidence = c[i1]
    <3> DEFINE conf == c[i1]
               prov == q[i1]
    <3>1. /\ x \in CdnMatch /\ x.confidence \in 0..100 /\ prov \in ToSet(Providers) /\ conf \in 0..100
          /\ prov # None
      BY <1>1, <2>4, ProviderAssumption
    <3>2. y = IF Exceeds(conf, x.confidence) THEN [provider |-> prov, confidence |-> conf] ELSE x
      BY <2>5
    <3> HIDE DEF conf, prov
    <3>3. CASE Exceeds(conf, x.confidence)
      <4>1. y = [provider |-> prov, confidence |-> conf] /\ y \in CdnMatch
        BY <3>1, <3>2, <3>3 DEF CdnMatch
      <4>2. x.confidence <= conf
        BY <3>1, <3>3, ExceedsProperties, Zenon
      <4>3. y.provider = prov /\ y.confidence = conf /\ conf <= conf
        BY <3>1, <4>1, ExceedsProperties, Zenon
      <4> QED
        BY <3>1, <4>1, <4>2, <4>3, Zenon DEF conf, prov
    <3>4. CASE ~Exceeds(conf, x.confidence)
      <4>1. conf <= x.confidence /\ x.confidence <= x.confidence
        BY <3>1, <3>4, ExceedsProperties, Zenon
      <4>2. y = x
        BY <3>2, <3>4
      <4> QED
        BY <3>1, <4>1, <4>2, Zenon DEF conf, prov
    <3> QED
      BY <3>3, <3>4
  <2>7. x.confidence \in 0..100 /\ y.confidence \in 0..100
    BY <1>1, <2>4, <2>6, Zenon
  <2>8. ASSUME NEW i \in 1..(k + 1) PROVE c[i] <= y.confidence
    <3>1. CASE i = k + 1
      BY <2>6, <3>1, Zenon DEF i1
    <3>2. CASE i \in 1..k
      <4>1. c[i] <= x.confidence /\ c[i] \in 0..100
        BY <1>1, <2>1, <2>2, <3>2, Zenon DEF x
      <4> DEFINE ci == c[i]
                 xc == x.confidence
                 yc == y.confidence
      <4>2. ci <= xc /\ xc <= yc /\ ci \in 0..100 /\ xc \in 0..100 /\ yc \in 0..100
        BY <4>1, <2>6, <2>7, Zenon
      <4> HIDE DEF ci, xc, yc
      <4>3. ci <= yc
        BY <4>2
      <4> QED
        BY <4>3 DEF ci, yc
    <3> QED
      BY <2>1, <3>1, <3>2, Zenon
  <2>9. /\ y.provider = None => y.confidence = 0
        /\ y.provider # None => \E i \in 1..(k + 1) : y.provider = q[i] /\ y.confidence = c[i]
    <3>1. CASE y = x
      <4>1. \A i \in 1..k : i \in 1..(k + 1)
        OBVIOUS
      <4> QED
        BY <1>2, <3>1, <4>1, Zenon DEF BestFound, x
    <3>2. CASE y.provider = q[i1] /\ y.provider # None /\ y.confidence = c[i1]
      <4>1. i1 \in 1..(k + 1)
        BY DEF i1
      <4> QED
        BY <3>2, <4>1, Zenon
    <3> QED
      BY <2>6, <3>1, <3>2
  <2> QED
    BY <2>6, <2>8, <2>9, Zenon DEF BestFound, y
<1>3. 0 \in U /\ \A k \in 0..(n - 1) : k \in U => k + 1 \in U
  BY <1>1, <1>2
<1>4. n \in U
  <2> HIDE DEF U
  <2> QED
    BY <1>3, BoundedInduction
<1> QED
  BY <1>4

(* detect_cdn(): what it reports is nothing, or a provider of the table with    *)
(* the confidence that the names and addresses give it, and no provider of      *)
(* the table has more.                                                          *)
THEOREM DetectProperties ==
  ASSUME NEW d \in DNSResult, NEW san \in Seq(Data)
  PROVE  LET best == DetectCdn(d, san)
         IN  /\ best \in CdnMatch
             /\ best.provider = None => best.confidence = 0
             /\ best.provider # None => best.confidence = Confidence(best.provider, d, san)
             /\ \A p \in ToSet(Providers) : Confidence(p, d, san) <= best.confidence
<1> DEFINE n == Len(Providers)
           c == [i \in 1..n |-> Confidence(Providers[i], d, san)]
<1>1. n \in Nat /\ DOMAIN Providers = 1..n /\ Providers \in [1..n -> ToSet(Providers)]
  BY ProviderAssumption, LenProperties
<1>2. c \in [1..n -> 0..100]
  BY ConfidenceBounds
<1>3. PICK F : /\ DetectCdn(d, san) = F[Len(Providers)] /\ F[0] = [provider |-> None, confidence |-> 0]
               /\ \A k \in 0..(Len(Providers) - 1) :
                    F[k + 1] =
                      IF Exceeds(Confidence(Providers[k + 1], d, san), F[k].confidence)
                      THEN [provider |-> Providers[k + 1], confidence |-> Confidence(Providers[k + 1], d, san)]
                      ELSE F[k]
  BY DetectUnfolds, SMTT(30)
<1>4. \A i \in 1..n : c[i] = Confidence(Providers[i], d, san)
  OBVIOUS
<1> HIDE DEF n, c
<1>5. BestSoFar(F, Providers, c, n)
  <2>1. \A k \in 0..(n - 1) : k + 1 \in 1..n
    BY <1>1
  <2>2. ASSUME NEW k \in 0..(n - 1)
        PROVE  F[k + 1] = IF Exceeds(c[k + 1], F[k].confidence)
                          THEN [provider |-> Providers[k + 1], confidence |-> c[k + 1]] ELSE F[k]
    <3>1. c[k + 1] = Confidence(Providers[k + 1], d, san)
      BY <1>4, <2>1, Zenon
    <3> QED
      BY <1>3, <3>1, Zenon DEF n
  <2> QED
    BY <2>2, Zenon DEF BestSoFar
<1>6. BestFound(F[n], Providers, c, n)
  <2>1. F[0] = [provider |-> None, confidence |-> 0]
    BY <1>3
  <2> QED
    BY <1>1, <1>2, <2>1, <1>5, BestOfProviders
<1>7. ToSet(Providers) = {Providers[i] : i \in 1..n}
  BY <1>1 DEF ToSet
<1> DEFINE best == DetectCdn(d, san)
<1>8. best = F[n]
  BY <1>3 DEF n
<1>9. best.provider # None => best.confidence = Confidence(best.provider, d, san)
  BY <1>4, <1>6, <1>8, Zenon DEF BestFound
<1>10. ASSUME NEW p \in ToSet(Providers) PROVE Confidence(p, d, san) <= best.confidence
  BY <1>4, <1>6, <1>7, <1>8, Zenon DEF BestFound
<1> QED
  BY <1>6, <1>8, <1>9, <1>10, Zenon DEF BestFound

-----------------------------------------------------------------------------
(* The health score, the route and the tunnel. *)

(* compute_health(): with an address, the level is failed exactly when the TCP  *)
(* probe got no answer; the TLS check never passes.                             *)
LEMMA LevelProperties ==
  ASSUME NEW tcp \in BOOLEAN, NEW fast \in BOOLEAN, fast => tcp, NEW dns1 \in BOOLEAN
  PROVE  /\ Level(Score(dns1, tcp, FALSE, fast)) \in {"healthy", "degraded", "failed"}
         /\ dns1 => (Level(Score(dns1, tcp, FALSE, fast)) = "failed" <=> ~tcp)
<1> DEFINE d == <<"dns", dns1>>
           t == <<"tcp", tcp>>
           f == <<"fast", fast>>
           n == <<"tls", FALSE>>
           X == {x \in {d, t, n, f} : x[2]}
<1>1. Score(dns1, tcp, FALSE, fast) = 25 * Cardinality(X)
  BY DEF Score
<1>2. (d[2] <=> dns1) /\ (t[2] <=> tcp) /\ (f[2] <=> fast) /\ ~n[2]
  BY Zenon
<1>3. d # t /\ d # f /\ t # f
  <2>1. d[1] = "dns" /\ t[1] = "tcp" /\ f[1] = "fast"
    BY Zenon
  <2> HIDE DEF d, t, f
  <2> QED
    BY <2>1
<1> HIDE DEF d, t, f, n
<1>4. IsFiniteSet({d}) /\ Cardinality({d}) = 1 /\ IsFiniteSet({d} \cup {t}) /\ Cardinality({d} \cup {t}) = 2
  <2>1. IsFiniteSet({d}) /\ Cardinality({d}) = 1
    BY FS_Singleton
  <2>2. t \notin {d}
    BY <1>3
  <2> QED
    BY <2>1, <2>2, FS_AddElement
<1>5. /\ dns1 /\ ~tcp => Cardinality(X) = 1
      /\ dns1 /\ tcp => Cardinality(X) \in {2, 3}
  <2>1. CASE dns1 /\ ~tcp
    <3>1. X = {d}
      BY <1>2, <2>1, Zenon
    <3> QED
      BY <1>4, <2>1, <3>1, Zenon
  <2>2. CASE dns1 /\ tcp /\ ~fast
    <3>1. X = {d} \cup {t}
      BY <1>2, <2>2, Zenon
    <3> QED
      BY <1>4, <2>2, <3>1, Zenon
  <2>3. CASE dns1 /\ tcp /\ fast
    <3>1. X = ({d} \cup {t}) \cup {f}
      BY <1>2, <2>3, Zenon
    <3>2. f \notin {d} \cup {t}
      BY <1>3
    <3> HIDE DEF X
    <3>3. Cardinality(X) = 2 + 1
      BY <1>4, <3>1, <3>2, FS_AddElement, Zenon
    <3>4. Cardinality(X) = 3
      BY <3>3
    <3> QED
      BY <2>3, <3>4, Zenon
  <2> QED
    BY <2>1, <2>2, <2>3, Zenon
<1> DEFINE card == Cardinality(X)
<1> HIDE DEF card, X
<1>7. dns1 => (Level(Score(dns1, tcp, FALSE, fast)) = "failed" <=> ~tcp)
  <2>1. (card = 1 => Level(25 * card) = "failed") /\ (card \in {2, 3} => Level(25 * card) # "failed")
    BY DEF Level
  <2> QED
    BY <1>1, <1>5, <2>1, Zenon DEF card
<1>6. Level(Score(dns1, tcp, FALSE, fast)) \in {"healthy", "degraded", "failed"}
  BY DEF Level
<1> QED
  BY <1>6, <1>7, Zenon

(* Where a connection to an address goes, rule after rule. *)
Destination(port, ip, tor) ==
  IF port = 53 THEN "dns-out"
  ELSE IF Class[ip] # "public" \/ ip \in Iran THEN "direct"
  ELSE IF ip \in BlockNets THEN "block"
  ELSE IF tor THEN "tor-out" ELSE "direct"

(* _routing_rules(): the first rule that matches an address is that one. *)
THEOREM OutboundProperties ==
  ASSUME NEW ip \in Addr, NEW tor, NEW port
  PROVE  Outbound([port |-> port, domain |-> "other", ip |-> ip], tor) = Destination(port, ip, tor)
<1> DEFINE c == [port |-> port, domain |-> "other", ip |-> ip]
           rules == Rules(tor)
           I == {i \in 1..Len(rules) : c[rules[i].field] \in rules[i].values}
<1>1. /\ Len(rules) = 6
      /\ rules[1] = Rule("port", {53}, "dns-out")
      /\ rules[2] = Rule("domain", {"private", "iran"}, "direct")
      /\ rules[3] = Rule("ip", {x \in Addr : Class[x] # "public"} \cup Iran, "direct")
      /\ rules[4] = Rule("ip", BlockNets, "block")
      /\ rules[5] = Rule("ip", Addr, IF tor THEN "tor-out" ELSE "direct")
  BY DEF Rules
<1>2. Outbound(c, tor) = rules[IF I # {} THEN Min(I) ELSE 0].outboundTag
  BY DEF Outbound, SelectInSeq
<1> HIDE DEF rules
<1>3. /\ 1 \in I <=> port = 53
      /\ 2 \notin I
      /\ 3 \in I <=> Class[ip] # "public" \/ ip \in Iran
      /\ 4 \in I <=> ip \in BlockNets
      /\ 5 \in I
      /\ I \subseteq 1..6
  BY <1>1 DEF Rule
<1> HIDE DEF I
<1>4. ASSUME NEW i \in I, \A j \in I : i <= j PROVE Outbound(c, tor) = rules[i].outboundTag
  <2>1. I \subseteq Nat /\ I # {}
    BY <1>3
  <2>2. Min(I) = i
    BY <1>4, <2>1, LeastIsMin
  <2> QED
    BY <1>2, <2>1, <2>2
<1> HIDE DEF c
<1>5. CASE port = 53
  <2>1. 1 \in I /\ \A j \in I : 1 <= j
    BY <1>3, <1>5
  <2>2. Outbound(c, tor) = rules[1].outboundTag
    BY <1>4, <2>1
  <2> QED
    BY <1>1, <1>5, <2>2 DEF c, Rule, Destination
<1>6. CASE port # 53 /\ (Class[ip] # "public" \/ ip \in Iran)
  <2>1. 3 \in I /\ \A j \in I : 3 <= j
    BY <1>3, <1>6
  <2>2. Outbound(c, tor) = rules[3].outboundTag
    BY <1>4, <2>1
  <2> QED
    BY <1>1, <1>6, <2>2 DEF c, Rule, Destination
<1>7. CASE port # 53 /\ ~(Class[ip] # "public" \/ ip \in Iran) /\ ip \in BlockNets
  <2>1. 4 \in I /\ \A j \in I : 4 <= j
    BY <1>3, <1>7
  <2>2. Outbound(c, tor) = rules[4].outboundTag
    BY <1>4, <2>1
  <2> QED
    BY <1>1, <1>7, <2>2 DEF c, Rule, Destination
<1>8. CASE port # 53 /\ ~(Class[ip] # "public" \/ ip \in Iran) /\ ip \notin BlockNets
  <2>1. 5 \in I /\ \A j \in I : 5 <= j
    BY <1>3, <1>8
  <2>2. Outbound(c, tor) = rules[5].outboundTag
    BY <1>4, <2>1
  <2> QED
    BY <1>1, <1>8, <2>2 DEF c, Rule, Destination
<1> QED
  BY <1>5, <1>6, <1>7, <1>8

-----------------------------------------------------------------------------
(* The inductive invariant.  The answers hold addresses; what was detected is   *)
(* DetectCdn() of the answer and the names as they are; the record holds the    *)
(* usable addresses of the answer until a failover replaces it; and what heard  *)
(* and steady record of the network is related to the two loops over addresses. *)
Unclassified == {"dns", "tls", "probe", "classify"}
HasRecord == {"health", "route", "persist", "stored"}
FailingOver == {"check", "refresh", "recheck", "over"}

\* the addresses of the answer that the scan may use
UsableIps == (ToSet(dns.aaaa) \cup ToSet(dns.a)) \cap Usable

OfAnswer(r) == r.ipv4 = Candidates(dns.a) /\ r.ipv6 = Candidates(dns.aaaa)

TypeInv ==
  /\ TypeOK
  /\ answer \in [{"A", "AAAA"} -> AddrResult \cup {None}] /\ dns \in AddrResult
  /\ steady \subseteq up

CdnInv == pc \notin Unclassified => cdn = DetectCdn(dns, tls.san)

RecordInv ==
  /\ pc \in HasRecord => OfAnswer(rec)
  /\ pc \in {"persist", "stored"} => AllIps(rec) # <<>>
  /\ pc = "stored" => stored = rec
  /\ stored # NoRecord => OfAnswer(stored) /\ AllIps(stored) # <<>>
  /\ pc \in Unclassified \cup {"rank"} => stored = NoRecord

RouteInv ==
  /\ pc \in Unclassified \cup {"rank", "health", "route"} => route = "none"
  /\ route \in {"none", "private", "cdn", "unknown"}
  /\ route = "cdn" => cdn.confidence >= 50
  /\ pc \in {"persist", "stored"} => route = Decide(BestIp, cdn)

\* the loop over the candidates has missed no address that was up all the time
RankInv ==
  /\ pc \in Unclassified => ranked = <<>>
  /\ pc \in Unclassified \cup {"rank"} /\ tls.valid => heard # {}
  /\ pc = "rank" =>
       /\ UsableIps \cap steady \subseteq ToSet(left) \cup ToSet(ranked)
       /\ ToSet(left) \subseteq UsableIps
       /\ ToSet(ranked) \subseteq heard \cap UsableIps

ClaimInv ==
  /\ pc \in HasRecord =>
       /\ rec.status = "observed" => UsableIps \cap steady = {}
       /\ rec.status = "resolved" => UsableIps \cap heard # {}
       /\ rec.status = "tls_verified" => heard # {}
  /\ pc \in {"route", "persist", "stored"} /\ AllIps(rec) # <<>> =>
       /\ health.level = "failed" => BestIp \notin steady
       /\ health.level # "failed" => BestIp \in heard

FailoverInv ==
  pc \in FailingOver =>
    /\ heard = ToSet(ranked)
    /\ ToSet(AllIps(stored)) \cap steady \subseteq heard \cup IF pc = "check" THEN ToSet(left) ELSE {}
    /\ pc = "over" => /\ ToSet(AllIps(rec)) = heard
                      /\ rec.status = IF heard = {} THEN "failed" ELSE "fresh"

IInv == TypeInv /\ CdnInv /\ RecordInv /\ RouteInv /\ RankInv /\ ClaimInv /\ FailoverInv

-----------------------------------------------------------------------------
(* What the steps compute. *)
LEMMA UsableProperties ==
  ASSUME NEW ip \in Usable, NEW c
  PROVE  /\ ip \in Addr /\ ip \notin Blocklist
         /\ Class[ip] \in {"public", "documentation", "multicast"}
         /\ Decide(ip, c) \in {"private", "cdn", "unknown"}
         /\ Decide(ip, c) = "cdn" => c.confidence >= 50
         /\ Decide(ip, c) = "private" => Class[ip] # "public"
<1>1. /\ ip \in Addr /\ ~Blocked(ip) /\ ip \notin Blocklist
      /\ Class[ip] \in {"public", "documentation", "multicast"}
  BY AddrAssumption DEF Usable, Blocked, InPrivateNetworks, Reserved, AddressClass
<1>2. Decide(ip, c) = IF IsPrivate(ip) THEN "private" ELSE IF c.confidence >= 50 THEN "cdn" ELSE "unknown"
  BY <1>1 DEF Decide
<1> QED
  BY <1>1, <1>2 DEF IsPrivate

(* A record with the candidates of the answer lists the usable addresses of it. *)
LEMMA RecordProperties ==
  ASSUME dns \in AddrResult, NEW r, OfAnswer(r)
  PROVE  /\ AllIps(r) \in Seq(Addr) /\ ToSet(AllIps(r)) = UsableIps
         /\ r.ipv4 \in Seq(Addr) /\ r.ipv6 \in Seq(Addr)
         /\ AllIps(r) # <<>> => Head(AllIps(r)) \in UsableIps
<1>1. dns.a \in Seq(Addr) /\ dns.aaaa \in Seq(Addr)
  BY DEF AddrResult, ResultOf
<1>2. /\ r.ipv4 \in Seq(Addr) /\ ToSet(r.ipv4) = ToSet(dns.a) \cap Usable
      /\ r.ipv6 \in Seq(Addr) /\ ToSet(r.ipv6) = ToSet(dns.aaaa) \cap Usable
  BY <1>1, CandidatesProperties DEF OfAnswer
<1>3. AllIps(r) \in Seq(Addr) /\ ToSet(AllIps(r)) = ToSet(r.ipv6) \cup ToSet(r.ipv4)
  BY <1>2, ToSetConcat DEF AllIps
<1>4. AllIps(r) # <<>> => Head(AllIps(r)) \in ToSet(AllIps(r))
  BY <1>3, ToSetTail
<1> QED
  BY <1>2, <1>3, <1>4 DEF UsableIps

(* One step of a loop over addresses. *)
LEMMA ProbeProperties ==
  ASSUME TypeInv, ProbeNext
  PROVE  /\ left' \in Seq(Addr) /\ ranked' \in Seq(Addr) /\ heard' \in SUBSET Addr
         /\ Head(left) \in Addr
         /\ ToSet(left) = {Head(left)} \cup ToSet(left')
         /\ ToSet(ranked') = ToSet(ranked) \cup ({Head(left)} \cap up)
         /\ heard' = heard \cup ({Head(left)} \cap up)
<1>1. left \in Seq(Addr) /\ left # <<>> /\ ranked \in Seq(Addr) /\ heard \subseteq Addr
  BY DEF TypeInv, TypeOK, ProbeNext
<1>2. Head(left) \in Addr /\ Tail(left) \in Seq(Addr) /\ ToSet(left) = {Head(left)} \cup ToSet(Tail(left))
  BY <1>1, ToSetTail
<1>3. Append(ranked, Head(left)) \in Seq(Addr) /\ ToSet(Append(ranked, Head(left))) = ToSet(ranked) \cup {Head(left)}
  BY <1>1, <1>2, ToSetAppend, AppendProperties
<1> QED
  BY <1>1, <1>2, <1>3 DEF ProbeNext

(* A health check hears of nothing but an answer, and its level says whether    *)
(* the first address gave one.                                                  *)
LEMMA HealthProperties ==
  ASSUME TypeInv, NEW r, AllIps(r) \in Seq(Addr), ComputeHealth(r)
  PROVE  /\ health' \in [tcp : BOOLEAN, fast : BOOLEAN, level : {"none", "healthy", "degraded", "failed"}]
         /\ heard \subseteq heard' /\ heard' \in SUBSET Addr
         /\ AllIps(r) # <<>> =>
              /\ health'.level = "failed" => Head(AllIps(r)) \notin steady
              /\ health'.level # "failed" => Head(AllIps(r)) \in heard'
<1> DEFINE ips == AllIps(r)
           tcp == ips # <<>> /\ Head(ips) \in up
           level(fast) == Level(Score(ips # <<>>, tcp, FALSE, fast))
<1>1. steady \subseteq up /\ heard \subseteq Addr /\ up \subseteq Addr
  BY DEF TypeInv, TypeOK
<1>2. PICK fast \in BOOLEAN :
        /\ fast => tcp
        /\ health' = [tcp |-> tcp, fast |-> fast, level |-> level(fast)]
        /\ heard' = heard \cup (IF tcp THEN {Head(ips)} ELSE {})
  BY DEF ComputeHealth
<1>3. /\ level(fast) \in {"healthy", "degraded", "failed"}
      /\ ips # <<>> => (level(fast) = "failed" <=> ~tcp)
  <2>1. tcp \in BOOLEAN /\ (ips # <<>>) \in BOOLEAN
    OBVIOUS
  <2> HIDE DEF tcp
  <2> QED
    BY <1>2, <2>1, LevelProperties
<1>4. health'.level = level(fast)
  BY <1>2
<1>5. health' \in [tcp : BOOLEAN, fast : BOOLEAN, level : {"none", "healthy", "degraded", "failed"}]
  <2>1. tcp \in BOOLEAN
    OBVIOUS
  <2> HIDE DEF tcp, level
  <2> QED
    BY <1>2, <1>3, <2>1
<1>6. heard \subseteq heard' /\ heard' \in SUBSET Addr
  BY <1>1, <1>2
<1>7. ips # <<>> => /\ health'.level = "failed" => Head(ips) \notin steady
                    /\ health'.level # "failed" => Head(ips) \in heard'
  <2>1. ips # <<>> => (health'.level = "failed" <=> Head(ips) \notin up)
    BY <1>3, <1>4, Zenon
  <2>2. ips # <<>> /\ Head(ips) \in up => Head(ips) \in heard'
    BY <1>2
  <2> QED
    BY <1>1, <2>1, <2>2
<1> QED
  BY <1>5, <1>6, <1>7

-----------------------------------------------------------------------------
(* Every step keeps the invariant, part by part. *)
LEMMA InitInv == Init => IInv
<1> SUFFICES ASSUME Init PROVE IInv
  OBVIOUS
<1>1. NoRecord \in Endpoint /\ NoRecord.ipv4 = <<>> /\ <<>> \in Seq(Addr) /\ <<>> \in Seq(Data)
  BY ToSetEmpty DEF NoRecord, Endpoint, Status
<1>2. Empty \in AddrResult
  <2>1. <<>> \in Section
    BY ToSetEmpty DEF Section, SectionOf
  <2> QED
    BY <2>1, ResultProperties DEF Empty, Section, AddrResult
<1>3. TypeInv
  <2>1. dns \in DNSResult
    BY <1>2, ResultTypes DEF Init
  <2>2. answer \in [{"A", "AAAA"} -> AddrResult \cup {None}] /\ answer \in [{"A", "AAAA"} -> DNSResult \cup {None}]
    BY DEF Init
  <2>3. /\ up \in SUBSET Addr /\ changes \in 0..MaxChanges /\ pc = "dns"
        /\ left \in Seq(Addr) /\ ranked \in Seq(Addr) /\ rec \in Endpoint /\ stored \in Endpoint
        /\ route = "none" /\ steady \in SUBSET Addr /\ heard \in SUBSET Addr
    BY <1>1, ChangesAssumption DEF Init
  <2>4. /\ tls \in [success : BOOLEAN, valid : BOOLEAN, san : Seq(Data)]
        /\ cdn \in [provider : ToSet(Providers) \cup {None}, confidence : 0..100]
        /\ health \in [tcp : BOOLEAN, fast : BOOLEAN, level : {"none", "healthy", "degraded", "failed"}]
    BY <1>1 DEF Init, NoTls, NoCdn, NoHealth
  <2>5. dns \in AddrResult /\ steady \subseteq up
    BY <1>2 DEF Init
  <2> QED
    BY <2>1, <2>2, <2>3, <2>4, <2>5 DEF TypeInv, TypeOK
<1>4. /\ CdnInv /\ RecordInv /\ RouteInv /\ FailoverInv
  BY DEF Init, CdnInv, RecordInv, RouteInv, FailoverInv, Unclassified, HasRecord, FailingOver, NoCdn
<1>5. RankInv /\ ClaimInv
  BY DEF Init, RankInv, ClaimInv, Unclassified, HasRecord, NoTls
<1> QED
  BY <1>3, <1>4, <1>5 DEF IInv

(* The types, action by action. *)
LEMMA TypeStep ==
  ASSUME IInv, [Next]_vars
  PROVE  TypeInv'
<1> USE DEF IInv, TypeInv
<1>1. CASE UNCHANGED vars
  BY <1>1 DEF TypeOK, vars, net, findings, aux
<1>2. CASE NetworkChanges
  <2>1. up' \in SUBSET Addr /\ changes' \in 0..MaxChanges /\ steady' \subseteq up' /\ steady' \in SUBSET Addr
    BY <1>2, ChangesAssumption DEF NetworkChanges, TypeOK
  <2> QED
    BY <1>2, <2>1 DEF NetworkChanges, TypeOK, findings
<1>3. ASSUME NEW type \in {"A", "AAAA"}, Answer(type) PROVE TypeInv'
  <2>1. PICK section \in Sections[type] : answer' = [answer EXCEPT ![type] = Resolve(section, type)]
    BY <1>3 DEF Answer
  <2>2. section \in Section
    BY SectionsAssumption DEF Section, SectionOf
  <2>3. Resolve(section, type) \in AddrResult
    BY <2>2, ResolveProperties DEF Section, AddrResult
  <2> DEFINE r == Resolve(section, type)
  <2> HIDE DEF r
  <2>4. answer' \in [{"A", "AAAA"} -> AddrResult \cup {None}]
    BY <2>1, <2>3 DEF r
  <2>5. answer' \in [{"A", "AAAA"} -> DNSResult \cup {None}]
    BY <2>4, ResultTypes
  <2> QED
    BY <1>3, <2>4, <2>5 DEF Answer, TypeOK, net, findings, aux
<1>4. CASE Merge
  <2>1. answer["A"] \in AddrResult /\ answer["AAAA"] \in AddrResult
    BY <1>4 DEF Merge
  <2>2. dns' \in AddrResult
    BY <1>4, <2>1, MergeProperties DEF Merge, AddrResult
  <2>3. dns' \in DNSResult
    BY <2>2, ResultTypes
  <2> QED
    BY <1>4, <2>2, <2>3 DEF Merge, TypeOK, net, aux
<1>5. CASE Tls
  <2>1. tls' \in [success : BOOLEAN, valid : BOOLEAN, san : Seq(Data)] /\ heard' \in SUBSET Addr
    <3>1. CASE tls' = NoTls /\ UNCHANGED heard
      BY <3>1, ToSetEmpty DEF NoTls, TypeOK
    <3>2. CASE \E ip \in up, valid \in BOOLEAN, san \in Sans :
                 /\ tls' = [success |-> TRUE, valid |-> valid, san |-> san]
                 /\ heard' = heard \cup {ip}
      BY <3>2, SansAssumption DEF TypeOK
    <3> QED
      BY <1>5, <3>1, <3>2 DEF Tls
  <2> QED
    BY <1>5, <2>1 DEF Tls, TypeOK, net
<1>6. CASE Probe
  BY <1>6 DEF Probe, TypeOK, net, findings, aux
<1>7. CASE Classify
  <2>1. dns \in DNSResult /\ tls.san \in Seq(Data)
    BY DEF TypeOK
  <2>2. cdn' \in CdnMatch
    BY <1>7, <2>1, DetectProperties DEF Classify
  <2>3. Candidates(dns.aaaa) \in Seq(Addr) /\ Candidates(dns.a) \in Seq(Addr)
    BY CandidatesProperties DEF AddrResult, ResultOf
  <2>4. left' \in Seq(Addr)
    BY <1>7, <2>3, ToSetConcat DEF Classify
  <2> QED
    BY <1>7, <2>2, <2>4 DEF Classify, TypeOK, net, aux, CdnMatch
<1>8. CASE ProbeCandidate \/ CheckHealthOneIp
  <2>1. ProbeNext
    BY <1>8 DEF ProbeCandidate, CheckHealthOneIp
  <2>2. left' \in Seq(Addr) /\ ranked' \in Seq(Addr) /\ heard' \in SUBSET Addr
    BY <2>1, ProbeProperties
  <2> QED
    BY <1>8, <2>2 DEF ProbeCandidate, CheckHealthOneIp, TypeOK, net, findings
<1>9. CASE Rank
  <2>1. Candidates(dns.aaaa) \in Seq(Addr) /\ Candidates(dns.a) \in Seq(Addr)
    BY CandidatesProperties DEF AddrResult, ResultOf
  <2>2. rec' \in Endpoint
    BY <1>9, <2>1 DEF Rank, RankStatus, Endpoint, Status
  <2> QED
    BY <1>9, <2>2 DEF Rank, TypeOK, net, findings, aux
<1>10. CASE Health
  <2>1. AllIps(rec) \in Seq(Addr)
    BY <1>10, RecordProperties DEF Health, RecordInv, HasRecord
  <2>2. /\ health' \in [tcp : BOOLEAN, fast : BOOLEAN, level : {"none", "healthy", "degraded", "failed"}]
        /\ heard' \in SUBSET Addr
    BY <1>10, <2>1, HealthProperties DEF Health
  <2> QED
    BY <1>10, <2>2 DEF Health, TypeOK, net, findings
<1>11. CASE Route
  <2>1. CASE AllIps(rec) = <<>>
    BY <1>11, <2>1 DEF Route, TypeOK, net, findings, aux
  <2>2. CASE AllIps(rec) # <<>>
    <3>1. BestIp \in Usable
      BY <1>11, <2>2, RecordProperties DEF Route, RecordInv, HasRecord, BestIp, UsableIps
    <3>2. route' \in {"private", "cdn", "unknown"}
      BY <1>11, <2>2, <3>1, UsableProperties DEF Route
    <3> QED
      BY <1>11, <2>2, <3>2 DEF Route, TypeOK, net, findings, aux
  <2> QED
    BY <2>1, <2>2
<1>12. CASE Persist
  BY <1>12 DEF Persist, TypeOK, net, findings, aux
<1>13. CASE Summarise
  <2>1. AllIps(stored) \in Seq(Addr)
    BY <1>13, RecordProperties DEF Summarise, RecordInv, HasRecord
  <2>2. /\ health' \in [tcp : BOOLEAN, fast : BOOLEAN, level : {"none", "healthy", "degraded", "failed"}]
        /\ heard' \in SUBSET Addr
    BY <1>13, <2>1, HealthProperties DEF Summarise
  <2> QED
    BY <1>13, <2>2 DEF Summarise, TypeOK, net, findings
<1>14. CASE Failover
  <2>1. AllIps(stored) \in Seq(Addr) /\ <<>> \in Seq(Addr)
    BY <1>14, RecordProperties, ToSetEmpty DEF Failover, RecordInv, HasRecord
  <2> QED
    BY <1>14, <2>1 DEF Failover, TypeOK, net, findings
<1>15. CASE RoundEnds
  <2>1. Keep(ranked, Addr \ V6) \in Seq(Addr) /\ Keep(ranked, V6) \in Seq(Addr)
    <3>1. ranked \in Seq(Addr)
      BY DEF TypeOK
    <3>2. Seq(Addr \cap V6) \subseteq Seq(Addr) /\ Seq(Addr \cap (Addr \ V6)) \subseteq Seq(Addr)
      OBVIOUS
    <3> QED
      BY <3>1, <3>2, KeepProperties
  <2>2. rec' \in Endpoint
    BY <1>15, <2>1 DEF RoundEnds, Endpoint, Status
  <2> QED
    BY <1>15, <2>2 DEF RoundEnds, TypeOK, net, findings, aux
<1>16. CASE FreshDns
  <2>1. PICK a \in Sections["A"], aaaa \in Sections["AAAA"] :
          left' = MergeResults(Resolve(a, "A"), Resolve(aaaa, "AAAA")).aaaa
                    \o MergeResults(Resolve(a, "A"), Resolve(aaaa, "AAAA")).a
    BY <1>16 DEF FreshDns
  <2>2. a \in Section /\ aaaa \in Section
    BY SectionsAssumption DEF Section, SectionOf
  <2> DEFINE fresh == MergeResults(Resolve(a, "A"), Resolve(aaaa, "AAAA"))
  <2>3. fresh \in AddrResult
    BY <2>2, ResolveProperties, MergeProperties DEF Section, AddrResult
  <2>4. left' = fresh.aaaa \o fresh.a
    BY <2>1
  <2> HIDE DEF fresh
  <2>5. fresh.aaaa \in Seq(Addr) /\ fresh.a \in Seq(Addr)
    BY <2>3 DEF AddrResult, ResultOf
  <2>6. left' \in Seq(Addr)
    BY <2>4, <2>5, ToSetConcat
  <2> QED
    BY <1>16, <2>6 DEF FreshDns, TypeOK, net, findings, aux
<1> QED
  BY <1>1, <1>2, <1>3, <1>4, <1>5, <1>6, <1>7, <1>8, <1>9, <1>10, <1>11, <1>12, <1>13, <1>14, <1>15, <1>16
     DEF Next, Scan, FailoverStep

(* The detection is not outdated: the answer and the names stay as they were. *)
LEMMA CdnStep ==
  ASSUME IInv, [Next]_vars
  PROVE  CdnInv'
<1> USE DEF IInv, CdnInv, Unclassified
<1>1. CASE UNCHANGED <<pc, cdn, dns, tls>>
  BY <1>1
<1>2. CASE Merge \/ Tls \/ Probe
  BY <1>2 DEF Merge, Tls, Probe
<1>3. CASE Classify
  BY <1>3 DEF Classify
<1>4. CASE Rank \/ Health \/ Route \/ Persist \/ Failover \/ RoundEnds \/ FreshDns
  BY <1>4 DEF Rank, Health, Route, Persist, Failover, RoundEnds, FreshDns, findings
<1>5. CASE UNCHANGED vars \/ NetworkChanges \/ (\E type \in {"A", "AAAA"} : Answer(type))
  BY <1>1, <1>5 DEF NetworkChanges, Answer, vars, findings
<1>6. CASE ProbeCandidate \/ CheckHealthOneIp \/ Summarise
  BY <1>1, <1>6 DEF ProbeCandidate, CheckHealthOneIp, Summarise, findings
<1> QED
  BY <1>2, <1>3, <1>4, <1>5, <1>6 DEF Next, Scan, FailoverStep

(* The record keeps the candidates of the answer, and is what gets stored. *)
LEMMA RecordStep ==
  ASSUME IInv, [Next]_vars
  PROVE  RecordInv'
<1> USE DEF IInv, RecordInv, OfAnswer, AllIps, Unclassified, HasRecord
<1>1. CASE UNCHANGED <<pc, rec, stored, dns>>
  BY <1>1
<1>2. CASE UNCHANGED vars \/ NetworkChanges \/ (\E type \in {"A", "AAAA"} : Answer(type))
  BY <1>1, <1>2 DEF NetworkChanges, Answer, vars, findings
<1>3. CASE ProbeCandidate \/ CheckHealthOneIp \/ Summarise
  BY <1>1, <1>3 DEF ProbeCandidate, CheckHealthOneIp, Summarise, findings
<1>4. CASE Merge \/ Tls \/ Probe \/ Classify
  BY <1>4 DEF Merge, Tls, Probe, Classify
<1>5. CASE Rank
  BY <1>5 DEF Rank, findings
<1>6. CASE Health \/ Route \/ Persist
  BY <1>6 DEF Health, Route, Persist, findings
<1>7. CASE Failover \/ RoundEnds \/ FreshDns
  BY <1>7 DEF Failover, RoundEnds, FreshDns, findings
<1> QED
  BY <1>2, <1>3, <1>4, <1>5, <1>6, <1>7 DEF Next, Scan, FailoverStep

(* The route is decided once, on a usable address. *)
LEMMA RouteStep ==
  ASSUME IInv, [Next]_vars
  PROVE  RouteInv'
<1> USE DEF IInv, RouteInv, BestIp, AllIps, Unclassified
<1>1. CASE UNCHANGED <<pc, rec, cdn, route>>
  BY <1>1
<1>2. CASE UNCHANGED vars \/ NetworkChanges \/ (\E type \in {"A", "AAAA"} : Answer(type))
  BY <1>1, <1>2 DEF NetworkChanges, Answer, vars, findings
<1>3. CASE ProbeCandidate \/ CheckHealthOneIp \/ Summarise
  BY <1>1, <1>3 DEF ProbeCandidate, CheckHealthOneIp, Summarise, findings
<1>4. CASE Merge \/ Tls \/ Probe \/ Classify
  BY <1>4 DEF Merge, Tls, Probe, Classify
<1>5. CASE Rank \/ Health
  BY <1>5 DEF Rank, Health, findings
<1>6. CASE Route
  <2>1. CASE AllIps(rec) = <<>>
    BY <1>6, <2>1 DEF Route
  <2>2. CASE AllIps(rec) # <<>>
    <3>1. BestIp \in Usable
      BY <1>6, <2>2, RecordProperties DEF Route, RecordInv, TypeInv, HasRecord, UsableIps
    <3>2. /\ route' = Decide(BestIp, cdn) /\ pc' = "persist" /\ UNCHANGED <<cdn, rec>>
      BY <1>6, <2>2 DEF Route, findings
    <3> HIDE DEF BestIp
    <3>3. route' \in {"private", "cdn", "unknown"} /\ (route' = "cdn" => cdn.confidence >= 50)
      BY <3>1, <3>2, UsableProperties
    <3>4. BestIp' = BestIp
      BY <3>2 DEF BestIp
    <3> QED
      BY <3>2, <3>3, <3>4
  <2> QED
    BY <2>1, <2>2
<1>7. CASE Persist \/ Failover \/ RoundEnds \/ FreshDns
  BY <1>7 DEF Persist, Failover, RoundEnds, FreshDns, findings
<1> QED
  BY <1>2, <1>3, <1>4, <1>5, <1>6, <1>7 DEF Next, Scan, FailoverStep

(* The loop over the candidates: what it has passed was down, or is ranked. *)
LEMMA RankStep ==
  ASSUME IInv, [Next]_vars
  PROVE  RankInv'
<1> USE DEF IInv, RankInv, Unclassified
<1>1. CASE UNCHANGED <<pc, dns, tls, left, ranked, heard>> /\ steady' \subseteq steady
  <2>1. UsableIps' = UsableIps
    BY <1>1 DEF UsableIps
  <2> QED
    BY <1>1, <2>1
<1>2. CASE UNCHANGED vars \/ NetworkChanges
  BY <1>1, <1>2 DEF NetworkChanges, vars, findings, aux
<1>3. CASE \E type \in {"A", "AAAA"} : Answer(type)
  BY <1>1, <1>3 DEF Answer, findings, aux
<1>4. CASE Merge \/ Probe
  BY <1>4 DEF Merge, Probe, findings, aux
<1>5. CASE Tls
  BY <1>5 DEF Tls, NoTls
<1>6. CASE Classify
  <2>1. dns.a \in Seq(Addr) /\ dns.aaaa \in Seq(Addr)
    BY DEF TypeInv, AddrResult, ResultOf
  <2>2. ToSet(Candidates(dns.aaaa) \o Candidates(dns.a)) = UsableIps
    BY <2>1, CandidatesProperties, ToSetConcat DEF UsableIps
  <2>3. ranked' = <<>> /\ ToSet(left') = UsableIps /\ UsableIps' = UsableIps
    BY <1>6, <2>2 DEF Classify, UsableIps
  <2> QED
    BY <1>6, <2>3, ToSetEmpty DEF Classify, aux
<1>7. CASE ProbeCandidate
  <2>1. /\ ToSet(left) = {Head(left)} \cup ToSet(left')
        /\ ToSet(ranked') = ToSet(ranked) \cup ({Head(left)} \cap up)
        /\ heard' = heard \cup ({Head(left)} \cap up)
    BY <1>7, ProbeProperties DEF ProbeCandidate
  <2>2. UsableIps' = UsableIps /\ steady \subseteq up
    BY <1>7 DEF ProbeCandidate, findings, UsableIps, TypeInv
  <2> QED
    BY <1>7, <2>1, <2>2 DEF ProbeCandidate, findings
<1>8. CASE CheckHealthOneIp
  BY <1>8 DEF CheckHealthOneIp
<1>9. CASE Rank \/ Health \/ Route \/ Persist
  BY <1>9 DEF Rank, Health, Route, Persist
<1>10. CASE Summarise \/ Failover \/ RoundEnds \/ FreshDns
  BY <1>10 DEF Summarise, Failover, RoundEnds, FreshDns
<1> QED
  BY <1>2, <1>3, <1>4, <1>5, <1>6, <1>7, <1>8, <1>9, <1>10 DEF Next, Scan, FailoverStep

(* What the record and its health say stays true until the failover. *)
LEMMA ClaimStep ==
  ASSUME IInv, [Next]_vars
  PROVE  ClaimInv'
<1> USE DEF IInv, ClaimInv, HasRecord
<1>1. CASE UNCHANGED <<pc, dns, rec, health>> /\ steady' \subseteq steady /\ heard \subseteq heard'
  <2>1. UsableIps' = UsableIps /\ BestIp' = BestIp /\ AllIps(rec)' = AllIps(rec)
    BY <1>1 DEF UsableIps, BestIp, AllIps
  <2> QED
    BY <1>1, <2>1
<1>2. CASE UNCHANGED vars \/ NetworkChanges \/ (\E type \in {"A", "AAAA"} : Answer(type))
  BY <1>1, <1>2 DEF NetworkChanges, Answer, vars, findings, aux
<1>3. CASE Merge \/ Tls \/ Probe \/ Classify
  BY <1>3 DEF Merge, Tls, Probe, Classify
<1>4. CASE ProbeCandidate \/ CheckHealthOneIp
  BY <1>4 DEF ProbeCandidate, CheckHealthOneIp
<1>5. CASE Rank
  <2>1. ToSet(left) = {} /\ (ranked # <<>> => ToSet(ranked) # {}) /\ (ranked = <<>> => ToSet(ranked) = {})
    <3>1. ranked \in Seq(Addr)
      BY DEF TypeInv, TypeOK
    <3> QED
      BY <1>5, <3>1, ToSetEmpty, ToSetTyped DEF Rank
  <2>2. /\ RankStatus = "observed" => UsableIps \cap steady = {}
        /\ RankStatus = "resolved" => UsableIps \cap heard # {}
        /\ RankStatus = "tls_verified" => heard # {}
    BY <1>5, <2>1 DEF Rank, RankStatus, RankInv
  <2>3. UsableIps' = UsableIps /\ rec'.status = RankStatus /\ pc' = "health" /\ UNCHANGED <<steady, heard>>
    BY <1>5 DEF Rank, UsableIps, findings, aux
  <2> QED
    BY <2>2, <2>3
<1>6. CASE Health
  <2>1. AllIps(rec) \in Seq(Addr) /\ TypeInv
    BY <1>6, RecordProperties DEF Health, RecordInv, TypeInv
  <2>2. /\ heard \subseteq heard'
        /\ AllIps(rec) # <<>> => /\ health'.level = "failed" => BestIp \notin steady
                                 /\ health'.level # "failed" => BestIp \in heard'
    BY <1>6, <2>1, HealthProperties DEF Health, BestIp
  <2>3. /\ UsableIps' = UsableIps /\ BestIp' = BestIp /\ AllIps(rec)' = AllIps(rec)
        /\ pc = "health" /\ pc' = "route" /\ UNCHANGED <<rec, steady>>
    BY <1>6 DEF Health, UsableIps, BestIp, AllIps, findings
  <2> QED
    BY <2>2, <2>3
<1>7. CASE Route \/ Persist
  <2>1. /\ UsableIps' = UsableIps /\ BestIp' = BestIp /\ AllIps(rec)' = AllIps(rec)
        /\ pc \in {"route", "persist"} /\ pc' \in {"persist", "stored", "raised"}
        /\ UNCHANGED <<rec, steady, heard, health>>
    BY <1>7 DEF Route, Persist, UsableIps, BestIp, AllIps, findings, aux
  <2> QED
    BY <2>1
<1>8. CASE Summarise
  <2>1. AllIps(stored) \in Seq(Addr) /\ stored = rec /\ TypeInv
    BY <1>8, RecordProperties DEF Summarise, RecordInv, TypeInv
  <2>2. /\ heard \subseteq heard'
        /\ AllIps(rec) # <<>> => /\ health'.level = "failed" => BestIp \notin steady
                                 /\ health'.level # "failed" => BestIp \in heard'
    BY <1>8, <2>1, HealthProperties DEF Summarise, BestIp
  <2>3. /\ UsableIps' = UsableIps /\ BestIp' = BestIp /\ AllIps(rec)' = AllIps(rec)
        /\ pc = "stored" /\ UNCHANGED <<pc, rec, steady>>
    BY <1>8 DEF Summarise, UsableIps, BestIp, AllIps, findings
  <2> QED
    BY <2>2, <2>3
<1>9. CASE Failover \/ RoundEnds \/ FreshDns
  BY <1>9 DEF Failover, RoundEnds, FreshDns
<1> QED
  BY <1>2, <1>3, <1>4, <1>5, <1>6, <1>7, <1>8, <1>9 DEF Next, Scan, FailoverStep

(* The loops of the failover: what they have passed was down, or has            *)
(* answered.                                                                    *)
LEMMA FailoverInvStep ==
  ASSUME IInv, [Next]_vars
  PROVE  FailoverInv'
<1> USE DEF IInv, FailoverInv, FailingOver
<1>1. CASE UNCHANGED <<pc, left, ranked, rec, stored, heard>> /\ steady' \subseteq steady
  <2>1. AllIps(rec)' = AllIps(rec) /\ AllIps(stored)' = AllIps(stored)
    BY <1>1 DEF AllIps
  <2> QED
    BY <1>1, <2>1
<1>2. CASE UNCHANGED vars \/ NetworkChanges \/ (\E type \in {"A", "AAAA"} : Answer(type))
  BY <1>1, <1>2 DEF NetworkChanges, Answer, vars, findings, aux
<1>3. CASE Merge \/ Tls \/ Probe \/ Classify \/ ProbeCandidate
  BY <1>3 DEF Merge, Tls, Probe, Classify, ProbeCandidate
<1>4. CASE Rank \/ Health \/ Route \/ Persist \/ Summarise
  BY <1>4 DEF Rank, Health, Route, Persist, Summarise
<1>5. CASE Failover
  <2>1. /\ pc' = "check" /\ left' = AllIps(stored) /\ ranked' = <<>> /\ heard' = {}
        /\ AllIps(stored)' = AllIps(stored)
    BY <1>5 DEF Failover, AllIps
  <2>2. ToSet(ranked') = {}
    BY <2>1, ToSetEmpty
  <2> QED
    BY <2>1, <2>2
<1>6. CASE CheckHealthOneIp
  <2>1. /\ ToSet(left) = {Head(left)} \cup ToSet(left')
        /\ ToSet(ranked') = ToSet(ranked) \cup ({Head(left)} \cap up)
        /\ heard' = heard \cup ({Head(left)} \cap up)
    BY <1>6, ProbeProperties DEF CheckHealthOneIp
  <2>2. AllIps(stored)' = AllIps(stored) /\ steady \subseteq up
    BY <1>6 DEF CheckHealthOneIp, AllIps, TypeInv
  <2>3. pc \in {"check", "recheck"} /\ UNCHANGED <<pc, steady>>
    BY <1>6 DEF CheckHealthOneIp
  <2> QED
    BY <2>1, <2>2, <2>3
<1>7. CASE RoundEnds
  <2>1. ranked \in Seq(Addr) /\ left = <<>> /\ ToSet(left) = {}
    BY <1>7, ToSetEmpty DEF TypeInv, TypeOK, RoundEnds
  <2>2. /\ Keep(ranked, Addr \ V6) \in Seq(Addr) /\ Keep(ranked, V6) \in Seq(Addr)
        /\ ToSet(Keep(ranked, Addr \ V6)) = ToSet(ranked) \cap (Addr \ V6)
        /\ ToSet(Keep(ranked, V6)) = ToSet(ranked) \cap V6
    <3>1. Seq(Addr \cap V6) \subseteq Seq(Addr) /\ Seq(Addr \cap (Addr \ V6)) \subseteq Seq(Addr)
      OBVIOUS
    <3>2. Keep(ranked, V6) \in Seq(Addr \cap V6) /\ ToSet(Keep(ranked, V6)) = ToSet(ranked) \cap V6
      BY <2>1, KeepProperties
    <3>3. /\ Keep(ranked, Addr \ V6) \in Seq(Addr \cap (Addr \ V6))
          /\ ToSet(Keep(ranked, Addr \ V6)) = ToSet(ranked) \cap (Addr \ V6)
      <4> DEFINE T == Addr \ V6
      <4> HIDE DEF T
      <4>1. Keep(ranked, T) \in Seq(Addr \cap T) /\ ToSet(Keep(ranked, T)) = ToSet(ranked) \cap T
        BY <2>1, KeepProperties
      <4> QED
        BY <4>1 DEF T
    <3> QED
      BY <3>1, <3>2, <3>3, Zenon
  <2>3. AllIps(rec') = Keep(ranked, V6) \o Keep(ranked, Addr \ V6)
    BY <1>7 DEF RoundEnds, AllIps
  <2>4. ToSet(AllIps(rec')) = ToSet(ranked)
    <3>1. ToSet(ranked) \subseteq Addr
      BY <2>1, ToSetTyped
    <3>2. ToSet(AllIps(rec')) = ToSet(Keep(ranked, V6)) \cup ToSet(Keep(ranked, Addr \ V6))
      BY <2>2, <2>3, ToSetConcat
    <3> QED
      BY <2>2, <3>1, <3>2
  <2>5. ranked = <<>> <=> ToSet(ranked) = {}
    BY <2>1, ToSetTyped
  <2>6. /\ pc \in {"check", "recheck"} /\ pc' \in {"refresh", "over"}
        /\ rec'.status = IF ranked = <<>> THEN "failed" ELSE "fresh"
        /\ UNCHANGED <<ranked, heard, stored, steady>> /\ AllIps(stored)' = AllIps(stored)
    BY <1>7 DEF RoundEnds, AllIps, MayRefresh, aux
  <2>7. ToSet(AllIps(rec)') = ToSet(ranked)
    BY <2>4 DEF AllIps
  <2> QED
    BY <2>1, <2>5, <2>6, <2>7
<1>8. CASE FreshDns
  <2>1. /\ pc = "refresh" /\ pc' = "recheck" /\ UNCHANGED <<ranked, heard, stored, steady>>
        /\ AllIps(stored)' = AllIps(stored)
    BY <1>8 DEF FreshDns, AllIps, aux
  <2> QED
    BY <2>1
<1> QED
  BY <1>2, <1>3, <1>4, <1>5, <1>6, <1>7, <1>8 DEF Next, Scan, FailoverStep

-----------------------------------------------------------------------------
(* Every reachable state satisfies the inductive invariant. *)
THEOREM Invariance == Spec => []IInv
<1>1. IInv /\ [Next]_vars => IInv'
  BY TypeStep, CdnStep, RecordStep, RouteStep, RankStep, ClaimStep, FailoverInvStep DEF IInv
<1> QED
  BY InitInv, <1>1, PTL DEF Spec

(* Every variable keeps the type that the code gives it: the record's lists     *)
(* hold addresses whatever the answers held, and a confidence is in 0..100.     *)
THEOREM TypeCorrect == Spec => []TypeOK
BY Invariance, PTL DEF IInv, TypeInv

(* What EndpointRecord.status and the health level say was seen in this scan.   *)
THEOREM ClaimsAreBackedHolds == Spec => []ClaimsAreBacked
<1>1. ASSUME IInv, ScanIsOver PROVE ToSet(AllIps(rec)) = UsableIps /\ AllIps(rec) # <<>> /\ BestIp = Head(AllIps(rec))
  BY <1>1, RecordProperties DEF IInv, TypeInv, RecordInv, HasRecord, ScanIsOver, BestIp
<1>2. IInv => ClaimsAreBacked
  BY <1>1 DEF ClaimsAreBacked, IInv, ClaimInv, HasRecord, ScanIsOver
<1> QED
  BY Invariance, <1>2, PTL

(* No address that rank_candidates() filters out is stored or decides the route, *)
(* and of the others only a documentation address is called private.            *)
THEOREM NothingFilteredIsUsedHolds == Spec => []NothingFilteredIsUsed
<1>1. ASSUME IInv PROVE NothingFilteredIsUsed
  <2>1. ASSUME NEW ip \in ToSet(AllIps(stored))
        PROVE  /\ ip \notin Blocklist
               /\ Class[ip] \notin {"private", "loopback", "link_local", "shared", "reserved", "unspecified"}
    <3>1. CASE stored = NoRecord
      <4>1. AllIps(stored) = <<>>
        BY <3>1 DEF NoRecord, AllIps
      <4> QED
        BY <2>1, <4>1, ToSetEmpty
    <3>2. CASE stored # NoRecord
      <4>1. ip \in Usable
        BY <1>1, <2>1, <3>2, RecordProperties DEF IInv, TypeInv, RecordInv, UsableIps
      <4> QED
        BY <4>1, UsableProperties
    <3> QED
      BY <3>1, <3>2
  <2>2. route \notin {"blocked", "local"} /\ (stored # NoRecord => AllIps(stored) # <<>>)
    BY <1>1 DEF IInv, RouteInv, RecordInv
  <2>3. ASSUME ScanIsOver, route = "private"
        PROVE  Class[BestIp] = "documentation"
    <3>1. BestIp \in Usable /\ Decide(BestIp, cdn) = "private"
      BY <1>1, <2>3, RecordProperties
         DEF IInv, TypeInv, RecordInv, RouteInv, HasRecord, ScanIsOver, BestIp, UsableIps
    <3>2. Class[BestIp] \in {"public", "documentation", "multicast"}
      BY <3>1, UsableProperties
    <3>3. Class[BestIp] \notin {"public", "multicast"}
      BY <3>1 DEF Decide, IsPrivate
    <3> QED
      BY <3>2, <3>3
  <2> QED
    BY <2>1, <2>2, <2>3 DEF NothingFilteredIsUsed
<1> QED
  BY Invariance, <1>1, PTL

(* detect_cdn() and decide(): names alone do not reach the threshold. *)
THEOREM CdnNeedsAddressHolds == Spec => []CdnNeedsAddress
<1>1. ASSUME IInv, route = "cdn"
      PROVE  /\ InRange(cdn.provider, dns.a) + InRange(cdn.provider, dns.aaaa) > 0
             /\ \A p \in ToSet(Providers) : Confidence(p, dns, tls.san) <= cdn.confidence
  <2>1. cdn = DetectCdn(dns, tls.san) /\ cdn.confidence >= 50
    BY <1>1 DEF IInv, RouteInv, CdnInv
  <2>2. dns \in DNSResult /\ tls.san \in Seq(Data) /\ dns.a \in Seq(Data) /\ dns.aaaa \in Seq(Data)
    BY <1>1 DEF IInv, TypeInv, TypeOK, DNSResult
  <2>3. /\ cdn \in CdnMatch /\ (cdn.provider = None => cdn.confidence = 0)
        /\ cdn.provider # None => cdn.confidence = Confidence(cdn.provider, dns, tls.san)
        /\ \A p \in ToSet(Providers) : Confidence(p, dns, tls.san) <= cdn.confidence
    BY <2>1, <2>2, DetectProperties
  <2>4. cdn.confidence = Confidence(cdn.provider, dns, tls.san)
    BY <2>1, <2>3
  <2>5. /\ InRange(cdn.provider, dns.a) \in Nat /\ InRange(cdn.provider, dns.aaaa) \in Nat
        /\ InRange(cdn.provider, dns.a) + InRange(cdn.provider, dns.aaaa) = 0 => cdn.confidence <= 40
    BY <2>2, <2>4, ConfidenceBounds, InRangeProperties
  <2>6. cdn.confidence \in Nat
    BY <2>3 DEF CdnMatch
  <2> QED
    BY <2>1, <2>3, <2>5, <2>6
<1>2. IInv => CdnNeedsAddress
  BY <1>1 DEF CdnNeedsAddress
<1> QED
  BY Invariance, <1>2, PTL

(* The rules of xray/config.py treat an address as decide() has called it. *)
THEOREM TunnelAgreesHolds == Spec => []TunnelAgrees
<1>1. ASSUME IInv, NEW tor \in BOOLEAN, NEW port \in {53, 443}, ScanIsOver
      PROVE  LET ip == BestIp
                 out == Outbound([port |-> port, domain |-> "other", ip |-> ip], tor)
             IN  /\ out \in Outbounds(tor)
                 /\ route = "private" => out \in {"direct", "dns-out"}
                 /\ route \in {"cdn", "unknown"} /\ Class[ip] = "public" /\ ip \notin Iran \cup BlockNets
                       /\ port # 53 => out = IF tor THEN "tor-out" ELSE "direct"
  <2>1. BestIp \in Usable /\ route = Decide(BestIp, cdn)
    BY <1>1, RecordProperties DEF IInv, TypeInv, RecordInv, RouteInv, HasRecord, ScanIsOver, BestIp, UsableIps
  <2>2. BestIp \in Addr /\ (route = "private" => Class[BestIp] # "public")
    BY <2>1, UsableProperties
  <2> DEFINE ip == BestIp
             out == Outbound([port |-> port, domain |-> "other", ip |-> ip], tor)
  <2>3. out = Destination(port, ip, tor)
    <3> HIDE DEF ip
    <3>1. ip \in Addr
      BY <2>2 DEF ip
    <3> QED
      BY <3>1, OutboundProperties, Zenon
  <2> HIDE DEF out, ip
  <2>4. out \in Outbounds(tor)
    BY <2>3 DEF Outbounds, Destination
  <2> QED
    BY <2>2, <2>3, <2>4 DEF out, ip, Destination
<1>2. IInv => TunnelAgrees
  BY <1>1 DEF TunnelAgrees
<1> QED
  BY Invariance, <1>2, PTL

(* failover.py: the record holds what answered, and no address was dropped that *)
(* was up during the whole call.                                                *)
THEOREM FailoverKeepsTheAnsweringHolds == Spec => []FailoverKeepsTheAnswering
<1>1. IInv => FailoverKeepsTheAnswering
  BY DEF FailoverKeepsTheAnswering, IInv, FailoverInv, FailingOver
<1> QED
  BY Invariance, <1>1, PTL
=============================================================================
